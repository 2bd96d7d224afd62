SPECIFICATION MCSpec
CONSTANTS
    Reqs = {r1, r2}
    Names = {"a.txt", "b.tar", "c.zip"}
    Hidden = {}
    Banned = {}
    Tars = {"b.tar"}
    Zips = {"c.zip"}
    Stuff = {"bad", "odd", "tar", "zip"}
    Big = {"bad"}
    Odd = {"bad", "odd"}
    Signed = {"bad"}
    Tarred = {"tar"}
    Zipped = {"zip"}
    Uploads <- MCUploads
    Inside <- MCInside
    None = None
    Looks <- MCLooks
    Images = {i1, i2}
    Threads = {t1}
    Caller = caller
    MaxCount = 2
SYMMETRY HalvesSymmetry
INVARIANT VerdictIsOwn
INVARIANT MaliciousIsAway
INVARIANT RoundTakesAll
INVARIANT CounterCovers
PROPERTY CleanAnswer
PROPERTY AwayIsTold
PROPERTY TagHeeded
