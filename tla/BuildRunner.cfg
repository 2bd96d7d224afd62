SPECIFICATION FairSpec
CONSTANTS
    Builds = {b1, b2}
    Pollers = {c1}
    Totals = {2}
    Stages = 2
    Nobody = nobody
INVARIANT CompletedIsFinal
INVARIANT LogKeepsUp
PROPERTY PollsNeverGoBack
PROPERTY BuildsFinish
