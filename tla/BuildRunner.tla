----------------------------- MODULE BuildRunner -----------------------------
(***************************************************************************)
(* The builds of DarkHarbor's build-runner (build-runner/main.go): a store *)
(* of records in memory, one goroutine per build that moves its record     *)
(* forward under the store's mutex, and status requests that look a record *)
(* up under the mutex and then encode it, field by field, without it.      *)
(*                                                                         *)
(* That encoding races with the goroutine. A string of Go is two words,    *)
(* its text and its length, and neither their writes nor their reads are   *)
(* ordered: a Words record holds which of the strings, numbered in the     *)
(* order the goroutine stores them, each word belongs to.                  *)
(***************************************************************************)
EXTENDS Integers

CONSTANTS
    Builds,     \* the ids that generateBuildID will draw
    Pollers,    \* clients, each with one status request at a time
    Totals,     \* how many steps a build may have: 4, or 5 with build_args
    Stages,     \* len(stages)
    Nobody      \* holds the mutex when no goroutine does

ASSUME BuildAssumption ==
    /\ Stages \in Nat
    /\ Totals \subseteq 1 .. Stages
    /\ Nobody \notin Builds

VARIABLES
    store,    \* per id: "unused", "live" in the map, or "lost" in a restart
    rec,      \* the records
    worker,   \* the goroutine simulateBuild of each build
    mutex,    \* who holds buildStore.mu for writing
    poll,     \* the status requests
    got,      \* what the encoder of each request has read
    last      \* history: the last answer each client got

vars == <<store, rec, worker, mutex, poll, got, last>>

\* The strings of Status: 0 is "queued", 1 "running", 2 "completed". Those of
\* LogTail: 0 is "", and i the name of the i-th stage.
Parts == {"text", "len"}
Words == [Parts -> Nat]
Whole(n) == [p \in Parts |-> n]
Completed == 2

Records == [total : Totals, status : Words, steps : Nat, log : Words, ended : BOOLEAN]

\* Where the goroutine is: before a critical section ("start", "sleep"), at the
\* assignment inside one, or done; todo has the words it has yet to store.
WorkerState == [pc : {"none", "start", "running", "sleep", "steps", "log",
                      "completed", "endedat", "done"},
                i  : Nat, todo : SUBSET Parts]

\* The fields of a record in the order the encoder reads them.
Answers == [kind : {"none", "found", "gone", "aborted"},
            status : Words, steps : Nat, log : Words, ended : BOOLEAN]
NoAnswer == [kind |-> "none", status |-> Whole(0), steps |-> 0,
             log |-> Whole(0), ended |-> FALSE]

PollState == [pc  : {"idle", "status", "endedat", "steps", "empty", "log"},
              b   : Builds, todo : SUBSET Parts]

Init ==
    /\ store = [b \in Builds |-> "unused"]
    /\ rec \in [Builds -> [total : Totals, status : {Whole(0)}, steps : {0},
                           log : {Whole(0)}, ended : {FALSE}]]
    /\ worker = [b \in Builds |-> [pc |-> "none", i |-> 0, todo |-> Parts]]
    /\ mutex = Nobody
    /\ poll \in [Pollers -> [pc : {"idle"}, b : Builds, todo : {Parts}]]
    /\ got = [c \in Pollers |-> NoAnswer]
    /\ last = [c \in Pollers |-> NoAnswer]

-----------------------------------------------------------------------------
(* POST /build/run and its goroutine                                       *)

\* handleBuildRun stores a fresh record and starts the goroutine; the total of
\* the record, chosen in Init, is what the request's build_args make it.
Run(b) ==
    /\ store[b] = "unused"
    /\ mutex = Nobody
    /\ store' = [store EXCEPT ![b] = "live"]
    /\ worker' = [worker EXCEPT ![b].pc = "start"]
    /\ UNCHANGED <<rec, mutex, poll, got, last>>

\* Mutated: the last step is skipped.
StopsEarly(b) == worker[b].i + 1 < rec[b].total /\ worker[b].i < Stages

\* The loop's condition.
MoreToDo(b) == worker[b].i < rec[b].total /\ worker[b].i < Stages

\* The goroutine takes the mutex for its next critical section.
Enter(b) ==
    /\ worker[b].pc \in {"start", "sleep"}
    /\ mutex = Nobody
    /\ mutex' = b
    /\ worker' = [worker EXCEPT ![b].pc = CASE @ = "start" -> "running"
                                            [] @ = "sleep" /\ MoreToDo(b) -> "steps"
                                            [] OTHER -> "completed"]
    /\ UNCHANGED <<store, rec, poll, got, last>>

\* The goroutine has stored word p of a string; after the second word it moves on
\* to next, with its loop variable at i.
WordStored(b, p, next, i) ==
    IF worker[b].todo = {p}
    THEN /\ worker' = [worker EXCEPT ![b] = [pc |-> next, i |-> i, todo |-> Parts]]
         /\ mutex' = IF next = "sleep" THEN Nobody ELSE mutex
    ELSE /\ worker' = [worker EXCEPT ![b].todo = @ \ {p}]
         /\ UNCHANGED mutex

\* Status = "running"
StoreRunning(b) ==
    /\ worker[b].pc = "running"
    /\ \E p \in worker[b].todo :
          /\ rec' = [rec EXCEPT ![b].status[p] = 1]
          /\ WordStored(b, p, "sleep", worker[b].i)
    /\ UNCHANGED <<store, poll, got, last>>

\* Mutated: the steps that remain are counted.
CountedLeft(b) == rec[b].total - worker[b].i

\* Mutated: the step in progress is counted as completed.
CountedEarly(b) == worker[b].i + 2

Counted(b) == worker[b].i + 1

\* Steps = i + 1
StoreSteps(b) ==
    /\ worker[b].pc = "steps"
    /\ rec' = [rec EXCEPT ![b].steps = Counted(b)]
    /\ worker' = [worker EXCEPT ![b].pc = "log"]
    /\ UNCHANGED <<store, mutex, poll, got, last>>

\* LogTail = stages[i], and the next turn of the loop.
StoreLog(b) ==
    /\ worker[b].pc = "log"
    /\ \E p \in worker[b].todo :
          /\ rec' = [rec EXCEPT ![b].log[p] = worker[b].i + 1]
          /\ WordStored(b, p, "sleep", worker[b].i + 1)
    /\ UNCHANGED <<store, poll, got, last>>

\* Status = "completed"
StoreCompleted(b) ==
    /\ worker[b].pc = "completed"
    /\ \E p \in worker[b].todo :
          /\ rec' = [rec EXCEPT ![b].status[p] = Completed]
          /\ WordStored(b, p, "endedat", worker[b].i)
    /\ UNCHANGED <<store, poll, got, last>>

\* Mutated: the goroutine returns with the mutex.
StoreEndedLocked(b) ==
    /\ worker[b].pc = "endedat"
    /\ rec' = [rec EXCEPT ![b].ended = TRUE]
    /\ worker' = [worker EXCEPT ![b].pc = "done"]
    /\ UNCHANGED <<store, mutex, poll, got, last>>

\* EndedAt = time.Now().Unix(), and the goroutine returns.
StoreEnded(b) ==
    /\ worker[b].pc = "endedat"
    /\ rec' = [rec EXCEPT ![b].ended = TRUE]
    /\ worker' = [worker EXCEPT ![b].pc = "done"]
    /\ mutex' = Nobody
    /\ UNCHANGED <<store, poll, got, last>>

-----------------------------------------------------------------------------
(* GET /build/status/:id                                                   *)

\* The request of c ends with answer a.
Answered(c, a) ==
    /\ poll' = [poll EXCEPT ![c] = [pc |-> "idle", b |-> poll[c].b, todo |-> Parts]]
    /\ got' = [got EXCEPT ![c] = NoAnswer]
    /\ last' = [last EXCEPT ![c] = a]

\* The lookup, under the mutex: 404, or a pointer to the record. A client polls
\* the build it has the id of.
Lookup(c) ==
    /\ poll[c].pc = "idle"
    /\ store[poll[c].b] # "unused"
    /\ mutex = Nobody
    /\ \/ /\ store[poll[c].b] = "lost"
          /\ Answered(c, [NoAnswer EXCEPT !.kind = "gone"])
       \/ /\ store[poll[c].b] = "live"
          /\ poll' = [poll EXCEPT ![c].pc = "status"]
          /\ got' = [got EXCEPT ![c].kind = "found"]
          /\ UNCHANGED last
    /\ UNCHANGED <<store, rec, worker, mutex>>

\* The encoder has read word p of a string and, after the second, moves on.
WordRead(c, p, next) ==
    poll' = [poll EXCEPT ![c] = IF poll[c].todo = {p}
                                THEN [pc |-> next, b |-> poll[c].b, todo |-> Parts]
                                ELSE [poll[c] EXCEPT !.todo = poll[c].todo \ {p}]]

ReadStatus(c) ==
    /\ poll[c].pc = "status"
    /\ \E p \in poll[c].todo :
          /\ got' = [got EXCEPT ![c].status[p] = rec[poll[c].b].status[p]]
          /\ WordRead(c, p, "endedat")
    /\ UNCHANGED <<store, rec, worker, mutex, last>>

\* EndedAt is left out while it is zero.
ReadEnded(c) ==
    /\ poll[c].pc = "endedat"
    /\ got' = [got EXCEPT ![c].ended = rec[poll[c].b].ended]
    /\ poll' = [poll EXCEPT ![c].pc = "steps"]
    /\ UNCHANGED <<store, rec, worker, mutex, last>>

ReadSteps(c) ==
    /\ poll[c].pc = "steps"
    /\ got' = [got EXCEPT ![c].steps = rec[poll[c].b].steps]
    /\ poll' = [poll EXCEPT ![c].pc = "empty"]
    /\ UNCHANGED <<store, rec, worker, mutex, last>>

\* LogTail is left out if its length is zero; nothing comes after it.
ReadEmpty(c) ==
    /\ poll[c].pc = "empty"
    /\ \/ /\ rec[poll[c].b].log["len"] = 0
          /\ Answered(c, got[c])
       \/ /\ rec[poll[c].b].log["len"] # 0
          /\ poll' = [poll EXCEPT ![c].pc = "log"]
          /\ UNCHANGED <<got, last>>
    /\ UNCHANGED <<store, rec, worker, mutex>>

\* Its words; a text that is nil under a length that is not makes the encoder
\* panic, and net/http drops the connection.
ReadLog(c) ==
    /\ poll[c].pc = "log"
    /\ \E p \in poll[c].todo :
          LET a == [got[c] EXCEPT !.log[p] = rec[poll[c].b].log[p]] IN
          \/ /\ poll[c].todo # {p}
             /\ got' = [got EXCEPT ![c] = a]
             /\ poll' = [poll EXCEPT ![c].todo = @ \ {p}]
             /\ UNCHANGED last
          \/ /\ poll[c].todo = {p}
             /\ Answered(c, IF a.log["text"] = 0 THEN [a EXCEPT !.kind = "aborted"] ELSE a)
    /\ UNCHANGED <<store, rec, worker, mutex>>

\* The process restarts: every build and every request is gone.
Restart ==
    /\ store' = [b \in Builds |-> IF store[b] = "live" THEN "lost" ELSE store[b]]
    /\ worker' = [b \in Builds |-> [pc |-> "none", i |-> 0, todo |-> Parts]]
    /\ mutex' = Nobody
    /\ poll' = [c \in Pollers |-> [pc |-> "idle", b |-> poll[c].b, todo |-> Parts]]
    /\ got' = [c \in Pollers |-> NoAnswer]
    /\ UNCHANGED <<rec, last>>

Work(b) ==
    Enter(b) \/ StoreRunning(b) \/ StoreSteps(b) \/ StoreLog(b) \/ StoreCompleted(b) \/ StoreEnded(b)

Encode(c) == ReadStatus(c) \/ ReadEnded(c) \/ ReadSteps(c) \/ ReadEmpty(c) \/ ReadLog(c)

Next ==
    \/ \E b \in Builds : Run(b) \/ Work(b)
    \/ \E c \in Pollers : Lookup(c) \/ Encode(c)
    \/ Restart

Spec == Init /\ [][Next]_vars

\* The scheduler of Go runs every goroutine that can run, and its mutex starves
\* nobody; nothing obliges a client to poll, or the process to restart.
FairSpec == Spec /\ \A b \in Builds : WF_vars(Work(b))

-----------------------------------------------------------------------------
TypeOK ==
    /\ store \in [Builds -> {"unused", "live", "lost"}]
    /\ rec \in [Builds -> Records]
    /\ worker \in [Builds -> WorkerState]
    /\ mutex \in Builds \cup {Nobody}
    /\ poll \in [Pollers -> PollState]
    /\ got \in [Pollers -> Answers]
    /\ last \in [Pollers -> Answers]

\* However its words were torn, an answer that shows anything of "completed", or an
\* end, shows every step completed and the last stage as its log.
CompletedIsFinal ==
    \A c \in Pollers :
        LET a == last[c]
            n == rec[poll[c].b].total
        IN  a.kind = "found" /\ (a.ended \/ \E p \in Parts : a.status[p] = Completed) =>
                a.steps = n /\ a.log = Whole(n)

\* The log an answer shows is at most one stage behind the steps it counts, and an
\* answer is only lost to a panic while the first stage is being logged.
LogKeepsUp ==
    \A c \in Pollers :
        /\ last[c].kind \in {"found", "aborted"} => \A p \in Parts : last[c].log[p] >= last[c].steps - 1
        /\ last[c].kind = "aborted" => last[c].steps <= 1

\* To a client that polls again and again a build never goes back: not in its
\* status, steps, end or log, torn or not, and once gone it stays gone.
PollsNeverGoBack ==
    [][\A c \in Pollers :
          LET a == last[c]
              z == last'[c]
          IN  /\ a.kind = "gone" => z.kind = "gone"
              /\ a.kind \in {"found", "aborted"} /\ z.kind \in {"found", "aborted"} =>
                    /\ a.ended => z.ended
                    /\ a.steps <= z.steps
                    /\ \A p \in Parts : a.status[p] <= z.status[p] /\ a.log[p] <= z.log[p]]_vars

\* A build that was accepted is completed, unless the process restarts.
BuildsFinish ==
    \A b \in Builds : store[b] = "live" ~>
        (rec[b].status = Whole(Completed) /\ rec[b].ended) \/ store[b] = "lost"
=============================================================================
