----------------------------- MODULE BuildProofs -----------------------------
(***************************************************************************)
(* Proofs about BuildRunner, for any builds, clients, totals and stages.   *)
(*                                                                         *)
(* The argument: under the mutex a record only moves forward, and the log  *)
(* follows the steps (RecordSound, RecordGrows); so what a request has     *)
(* read, field by field, lies between the last answer and the record       *)
(* (PollSound).                                                            *)
(***************************************************************************)
EXTENDS BuildRunner, TLAPS

\* What a record shows, whichever words are being stored.
RecordSound(b) ==
    /\ rec[b].steps <= rec[b].total
    /\ \A p \in Parts : /\ rec[b].log[p] <= rec[b].steps
                        /\ rec[b].log[p] >= rec[b].steps - 1
                        /\ rec[b].status[p] <= Completed
    /\ rec[b].ended \/ (\E p \in Parts : rec[b].status[p] = Completed) =>
          rec[b].steps = rec[b].total /\ \A p \in Parts : rec[b].log[p] = rec[b].total

\* Where the goroutine is determines its record.
Between(b, n) == /\ rec[b].steps = worker[b].i
                 /\ worker[b].i <= rec[b].total
                 /\ \A p \in Parts : rec[b].log[p] = worker[b].i /\ rec[b].status[p] = n
WorkerSound(b) ==
    /\ store[b] = "unused" => Between(b, 0) /\ worker[b].i = 0 /\ ~rec[b].ended
    /\ worker[b].pc = "none" => store[b] # "live" /\ worker[b].todo = Parts
    /\ worker[b].pc # "none" => store[b] = "live"
    /\ worker[b].pc \in {"start", "sleep", "steps", "endedat", "done"} => worker[b].todo = Parts
    /\ worker[b].pc = "start" => Between(b, 0) /\ worker[b].i = 0 /\ ~rec[b].ended
    /\ worker[b].pc = "running" =>
          /\ worker[b].i = 0 /\ rec[b].steps = 0 /\ ~rec[b].ended
          /\ \A p \in Parts : /\ rec[b].log[p] = 0
                              /\ rec[b].status[p] = IF p \in worker[b].todo THEN 0 ELSE 1
    /\ worker[b].pc = "sleep" => Between(b, 1) /\ ~rec[b].ended
    /\ worker[b].pc = "steps" => Between(b, 1) /\ ~rec[b].ended /\ worker[b].i < rec[b].total
    /\ worker[b].pc = "log" =>
          /\ rec[b].steps = worker[b].i + 1 /\ rec[b].steps <= rec[b].total /\ ~rec[b].ended
          /\ \A p \in Parts :
                /\ rec[b].log[p] = IF p \in worker[b].todo THEN worker[b].i ELSE worker[b].i + 1
                /\ rec[b].status[p] = 1
    /\ worker[b].pc = "completed" =>
          /\ worker[b].i = rec[b].total /\ rec[b].steps = rec[b].total /\ ~rec[b].ended
          /\ \A p \in Parts : /\ rec[b].log[p] = rec[b].total
                              /\ rec[b].status[p] = IF p \in worker[b].todo THEN 1 ELSE Completed
    /\ worker[b].pc \in {"endedat", "done"} => Between(b, Completed) /\ worker[b].i = rec[b].total
    /\ worker[b].pc = "endedat" => ~rec[b].ended

RecordsSound == \A b \in Builds : RecordSound(b) /\ WorkerSound(b)

\* A step never takes a record back.
RecordGrows(b) ==
    /\ rec'[b].total = rec[b].total
    /\ rec'[b].steps >= rec[b].steps
    /\ rec[b].ended => rec'[b].ended
    /\ \A p \in Parts : rec'[b].log[p] >= rec[b].log[p] /\ rec'[b].status[p] >= rec[b].status[p]
    /\ store[b] # "unused" => store'[b] # "unused"
    /\ store[b] = "lost" => store'[b] = "lost"

\* a shows no more than the record of b.
Within(a, b) ==
    /\ a.ended => rec[b].ended
    /\ a.steps <= rec[b].steps
    /\ \A p \in Parts : a.status[p] <= rec[b].status[p] /\ a.log[p] <= rec[b].log[p]

Final(a) == a.ended \/ \E p \in Parts : a.status[p] = Completed

\* Where a request is determines how what it has read relates to the record and to
\* the answer before.
PollSound(c) ==
    LET b == poll[c].b
        g == got[c]
        a == last[c]
        after(pcs) == poll[c].pc \in pcs
        wordRead(pc, p) == after({pc}) /\ p \notin poll[c].todo
    IN
    /\ Within(g, b) /\ Within(a, b)
    /\ after({"idle"}) => g = NoAnswer
    /\ ~after({"idle"}) => g.kind = "found" /\ store[b] = "live"
    /\ after({"idle", "endedat", "steps", "empty"}) => poll[c].todo = Parts
    /\ after({"status", "endedat", "steps", "empty"}) => \A p \in Parts : g.log[p] = 0
    /\ a.kind = "gone" => store[b] = "lost"
    /\ a.log["text"] > 0 => a.log["len"] > 0
    /\ \A p \in Parts : wordRead("status", p) \/ after({"endedat", "steps", "empty", "log"}) =>
                            a.status[p] <= g.status[p]
    /\ after({"steps", "empty", "log"}) /\ a.ended => g.ended
    /\ after({"empty", "log"}) => a.steps <= g.steps
    /\ after({"log"}) => rec[b].log["len"] > 0
    /\ \A p \in Parts : wordRead("log", p) =>
          /\ a.log[p] <= g.log[p]
          /\ g.log[p] >= g.steps - 1
          /\ p = "len" => g.log[p] > 0
          /\ Final(g) => g.log[p] = rec[b].total
    /\ after({"status", "endedat", "steps", "empty", "log"}) /\ Final(g) => rec[b].steps = rec[b].total
    /\ after({"empty", "log"}) /\ Final(g) => g.steps = rec[b].total
    /\ a.kind = "found" /\ Final(a) => a.steps = rec[b].total /\ \A p \in Parts : a.log[p] = rec[b].total
    /\ a.kind \in {"found", "aborted"} => \A p \in Parts : a.log[p] >= a.steps - 1
    /\ a.kind = "aborted" => a.steps <= 1

PollsSound == \A c \in Pollers : PollSound(c)

-----------------------------------------------------------------------------
\* Every variable of the build store keeps its type.
THEOREM BuildTypeCorrect == Spec => []TypeOK
<1> USE BuildAssumption DEF Parts
<1>0. /\ Whole(0) \in Words /\ NoAnswer \in Answers
      /\ \A n \in Nat : Whole(n) \in Words
  BY DEF Whole, Words, NoAnswer, Answers
<1>1. Init => TypeOK
  <2> SUFFICES ASSUME Init PROVE TypeOK
    OBVIOUS
  <2>1. rec \in [Builds -> Records]
    <3>1. PICK T \in [Builds -> Totals] :
             rec = [b \in Builds |-> [total |-> T[b], status |-> Whole(0), steps |-> 0,
                                      log |-> Whole(0), ended |-> FALSE]]
      <4>1. \A b \in Builds : /\ rec[b].total \in Totals
                              /\ rec[b] = [total |-> rec[b].total, status |-> Whole(0), steps |-> 0,
                                          log |-> Whole(0), ended |-> FALSE]
        BY DEF Init
      <4>2. rec = [b \in Builds |-> rec[b]] /\ [b \in Builds |-> rec[b].total] \in [Builds -> Totals]
        BY <4>1 DEF Init
      <4> QED
        BY <4>1, <4>2
    <3> QED
      BY <1>0, <3>1 DEF Records
  <2>2. poll \in [Pollers -> PollState] /\ worker \in [Builds -> WorkerState]
    BY DEF Init, PollState, WorkerState
  <2> QED
    BY <1>0, <2>1, <2>2 DEF Init, TypeOK
<1>2. TypeOK /\ [Next]_vars => TypeOK'
  <2> SUFFICES ASSUME TypeOK, [Next]_vars PROVE TypeOK'
    OBVIOUS
  <2> USE DEF TypeOK
  <2>1. ASSUME NEW b \in Builds, Run(b) PROVE TypeOK'
    BY <2>1 DEF Run, WorkerState
  <2>2. ASSUME NEW b \in Builds, Enter(b) PROVE TypeOK'
    BY <2>2 DEF Enter, WorkerState
  <2>3. ASSUME NEW b \in Builds, NEW p \in worker[b].todo, NEW next \in {"sleep", "endedat"},
               NEW i \in Nat, WordStored(b, p, next, i)
        PROVE  worker' \in [Builds -> WorkerState] /\ mutex' \in Builds \cup {Nobody}
    <3>1. CASE worker[b].todo = {p}
      BY <2>3, <3>1 DEF WordStored, WorkerState
    <3>2. CASE worker[b].todo # {p}
      <4>1. worker[b] \in WorkerState /\ worker[b].todo \ {p} \in SUBSET Parts
        BY DEF WorkerState
      <4>2. worker' = [worker EXCEPT ![b] = [worker[b] EXCEPT !.todo = worker[b].todo \ {p}]]
        BY <2>3, <3>2 DEF WordStored
      <4> QED
        BY <2>3, <3>2, <4>1, <4>2 DEF WordStored, WorkerState
    <3> QED
      BY <3>1, <3>2
  <2>4. ASSUME NEW b \in Builds, NEW p \in Parts, NEW n \in Nat,
               \/ rec' = [rec EXCEPT ![b].status[p] = n]
               \/ rec' = [rec EXCEPT ![b].log[p] = n]
        PROVE  rec' \in [Builds -> Records]
    <3>1. rec[b] \in Records /\ rec[b].status \in Words /\ rec[b].log \in Words
      BY DEF Records
    <3>2. PICK s \in Words : \/ rec' = [rec EXCEPT ![b] = [rec[b] EXCEPT !.status = s]]
                             \/ rec' = [rec EXCEPT ![b] = [rec[b] EXCEPT !.log = s]]
      <4>1. [rec[b].status EXCEPT ![p] = n] \in Words /\ [rec[b].log EXCEPT ![p] = n] \in Words
        BY <3>1 DEF Words
      <4> QED
        BY <2>4, <4>1
    <3> QED
      BY <3>1, <3>2 DEF Records
  <2>5. \A b \in Builds : worker[b].i \in Nat /\ worker[b].i + 1 \in Nat /\ worker[b].todo \subseteq Parts
    BY DEF WorkerState
  <2>6. ASSUME NEW b \in Builds, StoreRunning(b) PROVE TypeOK'
    BY <2>3, <2>4, <2>5, <2>6 DEF StoreRunning
  <2>7. ASSUME NEW b \in Builds, StoreLog(b) PROVE TypeOK'
    BY <2>3, <2>4, <2>5, <2>7 DEF StoreLog
  <2>8. ASSUME NEW b \in Builds, StoreCompleted(b) PROVE TypeOK'
    BY <2>3, <2>4, <2>5, <2>8 DEF StoreCompleted, Completed
  <2>9. ASSUME NEW b \in Builds, StoreSteps(b) PROVE TypeOK'
    BY <2>5, <2>9 DEF StoreSteps, Counted, WorkerState, Records
  <2>10. ASSUME NEW b \in Builds, StoreEnded(b) PROVE TypeOK'
    <3>1. rec' \in [Builds -> Records]
      BY <2>10 DEF StoreEnded, Records
    <3>2. worker' \in [Builds -> WorkerState]
      BY <2>10 DEF StoreEnded, WorkerState
    <3> QED
      BY <2>10, <3>1, <3>2 DEF StoreEnded
  <2>11. ASSUME NEW c \in Pollers, NEW a \in Answers, Answered(c, a)
         PROVE  poll' \in [Pollers -> PollState] /\ got' \in [Pollers -> Answers]
                /\ last' \in [Pollers -> Answers]
    BY <1>0, <2>11 DEF Answered, PollState
  <2>12. \A c \in Pollers : /\ got[c] \in Answers /\ poll[c].b \in Builds /\ poll[c].todo \subseteq Parts
                            /\ poll[c] \in PollState /\ rec[poll[c].b] \in Records
    BY DEF PollState
  <2>13. ASSUME NEW c \in Pollers, Lookup(c) PROVE TypeOK'
    <3>1. CASE Answered(c, [NoAnswer EXCEPT !.kind = "gone"])
      <4>1. [NoAnswer EXCEPT !.kind = "gone"] \in Answers
        BY <1>0 DEF Answers
      <4> QED
        BY <2>11, <2>13, <3>1, <4>1 DEF Lookup
    <3>2. CASE poll' = [poll EXCEPT ![c].pc = "status"] /\ got' = [got EXCEPT ![c].kind = "found"]
               /\ UNCHANGED last
      <4>1. poll' \in [Pollers -> PollState]
        BY <2>12, <3>2 DEF PollState
      <4>2. got' \in [Pollers -> Answers]
        BY <2>12, <3>2 DEF Answers
      <4> QED
        BY <2>13, <3>2, <4>1, <4>2 DEF Lookup
    <3> QED
      BY <2>13, <3>1, <3>2 DEF Lookup
  <2>14. ASSUME NEW c \in Pollers, ReadStatus(c) PROVE TypeOK'
    <3>1. PICK p \in poll[c].todo : /\ got' = [got EXCEPT ![c].status[p] = rec[poll[c].b].status[p]]
                                    /\ WordRead(c, p, "endedat")
      BY <2>14 DEF ReadStatus
    <3>2. poll' \in [Pollers -> PollState]
      BY <2>12, <3>1 DEF WordRead, PollState
    <3>3. [got[c].status EXCEPT ![p] = rec[poll[c].b].status[p]] \in Words
      BY <2>12 DEF Words, Answers, Records
    <3>4. got' = [got EXCEPT ![c] = [got[c] EXCEPT !.status = [got[c].status EXCEPT ![p] = rec[poll[c].b].status[p]]]]
      BY <3>1
    <3>5. got' \in [Pollers -> Answers]
      BY <2>12, <3>3, <3>4 DEF Answers
    <3> QED
      BY <2>14, <3>2, <3>5 DEF ReadStatus
  <2>15. ASSUME NEW c \in Pollers, ReadEnded(c) \/ ReadSteps(c) PROVE TypeOK'
    <3>1. rec[poll[c].b].ended \in BOOLEAN /\ rec[poll[c].b].steps \in Nat
      BY <2>12 DEF Records
    <3>2. PICK pc \in {"steps", "empty"} : poll' = [poll EXCEPT ![c].pc = pc]
      BY <2>15 DEF ReadEnded, ReadSteps
    <3>3. poll' \in [Pollers -> PollState]
      BY <2>12, <3>2 DEF PollState
    <3>4. got' \in [Pollers -> Answers]
      <4>1. CASE got' = [got EXCEPT ![c].ended = rec[poll[c].b].ended]
        BY <2>12, <3>1, <4>1 DEF Answers
      <4>2. CASE got' = [got EXCEPT ![c].steps = rec[poll[c].b].steps]
        BY <2>12, <3>1, <4>2 DEF Answers
      <4> QED
        BY <2>15, <4>1, <4>2 DEF ReadEnded, ReadSteps
    <3> QED
      BY <2>15, <3>3, <3>4 DEF ReadEnded, ReadSteps
  <2>16. ASSUME NEW c \in Pollers, ReadEmpty(c) PROVE TypeOK'
    <3>1. CASE Answered(c, got[c])
      BY <2>11, <2>12, <2>16, <3>1 DEF ReadEmpty
    <3>2. CASE poll' = [poll EXCEPT ![c].pc = "log"] /\ UNCHANGED <<got, last>>
      BY <2>12, <2>16, <3>2 DEF ReadEmpty, PollState
    <3> QED
      BY <2>16, <3>1, <3>2 DEF ReadEmpty
  <2>17. ASSUME NEW c \in Pollers, ReadLog(c) PROVE TypeOK'
    <3>1. PICK p, a :
             /\ p \in poll[c].todo
             /\ a = [got[c] EXCEPT !.log[p] = rec[poll[c].b].log[p]]
             /\ \/ /\ got' = [got EXCEPT ![c] = a]
                   /\ poll' = [poll EXCEPT ![c].todo = poll[c].todo \ {p}]
                   /\ UNCHANGED last
                \/ Answered(c, IF a.log["text"] = 0 THEN [a EXCEPT !.kind = "aborted"] ELSE a)
      BY <2>17 DEF ReadLog
    <3>2. a \in Answers
      <4>1. [got[c].log EXCEPT ![p] = rec[poll[c].b].log[p]] \in Words
        BY <2>12, <3>1 DEF Words, Answers, Records
      <4> QED
        BY <2>12, <3>1, <4>1 DEF Answers
    <3>3. CASE /\ got' = [got EXCEPT ![c] = a]
               /\ poll' = [poll EXCEPT ![c].todo = poll[c].todo \ {p}]
               /\ UNCHANGED last
      <4>1. poll' \in [Pollers -> PollState]
        BY <2>12, <3>3 DEF PollState
      <4> QED
        BY <2>17, <3>2, <3>3, <4>1 DEF ReadLog
    <3>4. CASE Answered(c, IF a.log["text"] = 0 THEN [a EXCEPT !.kind = "aborted"] ELSE a)
      <4>1. (IF a.log["text"] = 0 THEN [a EXCEPT !.kind = "aborted"] ELSE a) \in Answers
        BY <3>2 DEF Answers
      <4> QED
        BY <2>11, <2>17, <3>4, <4>1 DEF ReadLog
    <3> QED
      BY <3>1, <3>3, <3>4
  <2>18. CASE Restart
    BY <1>0, <2>12, <2>18 DEF Restart, WorkerState, PollState
  <2>19. CASE UNCHANGED vars
    BY <2>19 DEF vars
  <2> QED
    BY <2>1, <2>2, <2>6, <2>7, <2>8, <2>9, <2>10, <2>13, <2>14, <2>15, <2>16, <2>17, <2>18, <2>19
    DEF Next, Work, Encode
<1> QED
  BY <1>1, <1>2, PTL DEF Spec

-----------------------------------------------------------------------------
\* A build that a step does not touch stays sound.
LEMMA Untouched ==
  ASSUME NEW a \in Builds, RecordSound(a), WorkerSound(a),
         rec'[a] = rec[a], worker'[a] = worker[a], store'[a] = store[a]
  PROVE  RecordSound(a)' /\ WorkerSound(a)'
  BY DEF RecordSound, WorkerSound, Between

\* What storing word p of a string changes, and what it leaves alone.
LEMMA OneWord ==
  ASSUME TypeOK, NEW b \in Builds, NEW p \in worker[b].todo, NEW next, NEW i \in Nat,
         WordStored(b, p, next, i)
  PROVE  /\ \A a \in Builds : a # b => worker'[a] = worker[a]
         /\ \/ worker[b].todo = {p} /\ worker'[b].pc = next /\ worker'[b].i = i /\ worker'[b].todo = Parts
            \/ /\ worker'[b].pc = worker[b].pc /\ worker'[b].i = worker[b].i
               /\ worker[b].todo # {p} /\ worker'[b].todo = worker[b].todo \ {p}
<1>1. CASE worker[b].todo = {p}
  BY <1>1 DEF WordStored, TypeOK, WorkerState
<1>2. CASE worker[b].todo # {p}
  <2>1. worker[b] \in WorkerState
    BY DEF TypeOK
  <2>2. worker' = [worker EXCEPT ![b] = [worker[b] EXCEPT !.todo = worker[b].todo \ {p}]]
    BY <1>2 DEF WordStored
  <2> QED
    BY <1>2, <2>1, <2>2 DEF TypeOK, WorkerState
<1> QED
  BY <1>1, <1>2

\* And what it does to the record.
LEMMA WordInRecord ==
  ASSUME TypeOK, NEW b \in Builds, NEW p \in Parts, NEW n \in Nat
  PROVE  /\ rec' = [rec EXCEPT ![b].status[p] = n] =>
               /\ \A a \in Builds : a # b => rec'[a] = rec[a]
               /\ rec'[b].total = rec[b].total /\ rec'[b].steps = rec[b].steps
               /\ rec'[b].ended = rec[b].ended /\ rec'[b].log = rec[b].log
               /\ \A q \in Parts : rec'[b].status[q] = IF q = p THEN n ELSE rec[b].status[q]
         /\ rec' = [rec EXCEPT ![b].log[p] = n] =>
               /\ \A a \in Builds : a # b => rec'[a] = rec[a]
               /\ rec'[b].total = rec[b].total /\ rec'[b].steps = rec[b].steps
               /\ rec'[b].ended = rec[b].ended /\ rec'[b].status = rec[b].status
               /\ \A q \in Parts : rec'[b].log[q] = IF q = p THEN n ELSE rec[b].log[q]
<1>1. rec[b] \in Records /\ rec[b].status \in Words /\ rec[b].log \in Words
  BY DEF TypeOK, Records
<1>2. ASSUME rec' = [rec EXCEPT ![b].status[p] = n]
      PROVE  /\ \A a \in Builds : a # b => rec'[a] = rec[a]
             /\ rec'[b] = [rec[b] EXCEPT !.status = [rec[b].status EXCEPT ![p] = n]]
  BY <1>2 DEF TypeOK
<1>3. ASSUME rec' = [rec EXCEPT ![b].log[p] = n]
      PROVE  /\ \A a \in Builds : a # b => rec'[a] = rec[a]
             /\ rec'[b] = [rec[b] EXCEPT !.log = [rec[b].log EXCEPT ![p] = n]]
  BY <1>3 DEF TypeOK
<1> QED
  BY <1>1, <1>2, <1>3 DEF Records, Words

\* Records and goroutines stay sound.
LEMMA RecordsStaySound == Spec => []RecordsSound
<1> USE BuildAssumption DEF Parts, Completed
<1>1. Init => RecordsSound
  <2> SUFFICES ASSUME Init, NEW b \in Builds PROVE RecordSound(b) /\ WorkerSound(b)
    BY DEF RecordsSound
  <2>1. /\ rec[b].total \in Totals /\ rec[b].status = Whole(0) /\ rec[b].steps = 0
        /\ rec[b].log = Whole(0) /\ rec[b].ended = FALSE
    BY DEF Init
  <2>2. \A p \in Parts : Whole(0)[p] = 0
    BY DEF Whole
  <2>t. rec[b].total \in 1 .. Stages /\ Stages \in Nat
    BY <2>1
  <2>3. rec[b].total \in Nat /\ rec[b].total >= 1
    BY <2>t
  <2>4. worker[b].pc = "none" /\ worker[b].i = 0 /\ worker[b].todo = Parts /\ store[b] = "unused"
    BY DEF Init
  <2> QED
    BY <2>1, <2>2, <2>3, <2>4 DEF RecordSound, WorkerSound, Between
<1>2. TypeOK /\ TypeOK' /\ RecordsSound /\ [Next]_vars => RecordsSound'
  <2> SUFFICES ASSUME TypeOK, TypeOK', RecordsSound, [Next]_vars, NEW a \in Builds
               PROVE  RecordSound(a)' /\ WorkerSound(a)'
    BY DEF RecordsSound
  <2>0. RecordSound(a) /\ WorkerSound(a)
    BY DEF RecordsSound
  <2>t. \A b \in Builds : /\ rec[b] \in Records /\ worker[b] \in WorkerState
                          /\ rec[b].total \in 1 .. Stages /\ rec[b].steps \in Nat
                          /\ rec[b].status \in Words /\ rec[b].log \in Words /\ worker[b].i \in Nat
                          /\ worker[b].todo \subseteq Parts
    BY DEF TypeOK, Records, WorkerState
  <2>w. \A b \in Builds, p \in Parts : rec[b].status[p] \in Nat /\ rec[b].log[p] \in Nat
    BY <2>t DEF Words
  <2> DEFINE Same(b) == rec'[b] = rec[b] /\ worker'[b] = worker[b] /\ store'[b] = store[b]
  <2>s. Same(a) => RecordSound(a)' /\ WorkerSound(a)'
    BY <2>0, Untouched
  <2>1. ASSUME NEW b \in Builds, Run(b) PROVE RecordSound(a)' /\ WorkerSound(a)'
    <3>1. rec' = rec /\ \A d \in Builds : d # b => Same(d)
      BY <2>1 DEF Run, TypeOK
    <3>2. /\ worker'[b].pc = "start" /\ worker'[b].i = worker[b].i /\ worker'[b].todo = worker[b].todo
          /\ store'[b] = "live" /\ store[b] = "unused"
      BY <2>1, <2>t DEF Run, TypeOK, WorkerState
    <3>3. CASE a = b
      BY <2>0, <3>1, <3>2, <3>3 DEF RecordSound, WorkerSound, Between
    <3> QED
      BY <2>s, <3>1, <3>3
  <2>2. ASSUME NEW b \in Builds, Enter(b) PROVE RecordSound(a)' /\ WorkerSound(a)'
    <3>1. rec' = rec /\ store' = store /\ \A d \in Builds : d # b => Same(d)
      BY <2>2 DEF Enter, TypeOK
    <3>2. /\ worker'[b].i = worker[b].i /\ worker'[b].todo = worker[b].todo
          /\ \/ worker[b].pc = "start" /\ worker'[b].pc = "running"
             \/ worker[b].pc = "sleep" /\ MoreToDo(b) /\ worker'[b].pc = "steps"
             \/ worker[b].pc = "sleep" /\ ~MoreToDo(b) /\ worker'[b].pc = "completed"
      BY <2>2, <2>t DEF Enter, TypeOK, WorkerState
    <3>3. CASE a = b
      <4>1. RecordSound(b)'
        BY <2>0, <3>1, <3>3 DEF RecordSound
      <4>2. WorkerSound(b)'
        BY <2>0, <2>t, <3>1, <3>2, <3>3 DEF WorkerSound, Between, MoreToDo
      <4> QED
        BY <3>3, <4>1, <4>2
    <3> QED
      BY <2>s, <3>1, <3>3
  <2>3. ASSUME NEW b \in Builds, StoreRunning(b) PROVE RecordSound(a)' /\ WorkerSound(a)'
    <3>1. PICK p \in worker[b].todo : /\ rec' = [rec EXCEPT ![b].status[p] = 1]
                                      /\ WordStored(b, p, "sleep", worker[b].i)
      BY <2>3 DEF StoreRunning
    <3>2. worker[b].pc = "running" /\ store' = store /\ p \in Parts
      BY <2>3, <2>t DEF StoreRunning
    <3>r. /\ rec'[b].total = rec[b].total /\ rec'[b].steps = rec[b].steps
          /\ rec'[b].ended = rec[b].ended /\ rec'[b].log = rec[b].log
          /\ \A q \in Parts : rec'[b].status[q] = IF q = p THEN 1 ELSE rec[b].status[q]
      <4>1. PICK n \in Nat : n = 1
        OBVIOUS
      <4>2. rec' = [rec EXCEPT ![b].status[p] = n]
        BY <3>1, <4>1
      <4> QED
        BY <3>2, <4>1, <4>2, WordInRecord
    <3>o. \/ /\ worker[b].todo = {p} /\ worker'[b].pc = "sleep" /\ worker'[b].i = worker[b].i
             /\ worker'[b].todo = Parts
          \/ /\ worker'[b].pc = worker[b].pc /\ worker'[b].i = worker[b].i
             /\ worker[b].todo # {p} /\ worker'[b].todo = worker[b].todo \ {p}
      BY <2>t, <3>1, <3>2, OneWord
    <3>3. CASE a = b
      <4>1. RecordSound(b)'
        BY <2>0, <2>t, <2>w, <3>r, <3>2, <3>3 DEF RecordSound, WorkerSound
      <4>2. CASE worker[b].todo = {p}
        BY <2>0, <2>t, <2>w, <3>r, <3>o, <3>2, <3>3, <4>1, <4>2 DEF WorkerSound, Between
      <4>3. CASE worker[b].todo # {p}
        BY <2>0, <2>t, <2>w, <3>r, <3>o, <3>2, <3>3, <4>1, <4>3 DEF WorkerSound, Between
      <4> QED
        BY <4>2, <4>3
    <3>4. CASE a # b
      BY <2>s, <2>t, <3>1, <3>2, <3>4, WordInRecord, OneWord
    <3> QED
      BY <3>3, <3>4
  <2>4. ASSUME NEW b \in Builds, StoreLog(b) PROVE RecordSound(a)' /\ WorkerSound(a)'
    <3>1. PICK p \in worker[b].todo : /\ rec' = [rec EXCEPT ![b].log[p] = worker[b].i + 1]
                                      /\ WordStored(b, p, "sleep", worker[b].i + 1)
      BY <2>4 DEF StoreLog
    <3>2. worker[b].pc = "log" /\ store' = store /\ p \in Parts /\ worker[b].i + 1 \in Nat
      BY <2>4, <2>t DEF StoreLog
    <3>r. /\ rec'[b].total = rec[b].total /\ rec'[b].steps = rec[b].steps
          /\ rec'[b].ended = rec[b].ended /\ rec'[b].status = rec[b].status
          /\ \A q \in Parts : rec'[b].log[q] = IF q = p THEN worker[b].i + 1 ELSE rec[b].log[q]
      BY <3>1, <3>2, WordInRecord
    <3>o. \/ /\ worker[b].todo = {p} /\ worker'[b].pc = "sleep" /\ worker'[b].i = worker[b].i + 1
             /\ worker'[b].todo = Parts
          \/ /\ worker'[b].pc = worker[b].pc /\ worker'[b].i = worker[b].i
             /\ worker[b].todo # {p} /\ worker'[b].todo = worker[b].todo \ {p}
      BY <2>t, <3>1, <3>2, OneWord
    <3>3. CASE a = b
      <4>1. RecordSound(b)'
        BY <2>0, <2>t, <2>w, <3>r, <3>2, <3>3 DEF RecordSound, WorkerSound
      <4>2. CASE worker[b].todo = {p}
        BY <2>0, <2>t, <2>w, <3>r, <3>o, <3>2, <3>3, <4>1, <4>2 DEF WorkerSound, Between
      <4>3. CASE worker[b].todo # {p}
        BY <2>0, <2>t, <2>w, <3>r, <3>o, <3>2, <3>3, <4>1, <4>3 DEF WorkerSound, Between
      <4> QED
        BY <4>2, <4>3
    <3>4. CASE a # b
      BY <2>s, <2>t, <3>1, <3>2, <3>4, WordInRecord, OneWord
    <3> QED
      BY <3>3, <3>4
  <2>5. ASSUME NEW b \in Builds, StoreCompleted(b) PROVE RecordSound(a)' /\ WorkerSound(a)'
    <3>1. PICK p \in worker[b].todo : /\ rec' = [rec EXCEPT ![b].status[p] = 2]
                                      /\ WordStored(b, p, "endedat", worker[b].i)
      BY <2>5 DEF StoreCompleted
    <3>2. worker[b].pc = "completed" /\ store' = store /\ p \in Parts
      BY <2>5, <2>t DEF StoreCompleted
    <3>r. /\ rec'[b].total = rec[b].total /\ rec'[b].steps = rec[b].steps
          /\ rec'[b].ended = rec[b].ended /\ rec'[b].log = rec[b].log
          /\ \A q \in Parts : rec'[b].status[q] = IF q = p THEN 2 ELSE rec[b].status[q]
      <4>1. PICK n \in Nat : n = 2
        OBVIOUS
      <4>2. rec' = [rec EXCEPT ![b].status[p] = n]
        BY <3>1, <4>1
      <4> QED
        BY <3>2, <4>1, <4>2, WordInRecord
    <3>o. \/ /\ worker[b].todo = {p} /\ worker'[b].pc = "endedat" /\ worker'[b].i = worker[b].i
             /\ worker'[b].todo = Parts
          \/ /\ worker'[b].pc = worker[b].pc /\ worker'[b].i = worker[b].i
             /\ worker[b].todo # {p} /\ worker'[b].todo = worker[b].todo \ {p}
      BY <2>t, <3>1, <3>2, OneWord
    <3>3. CASE a = b
      <4>1. RecordSound(b)'
        BY <2>0, <2>t, <2>w, <3>r, <3>2, <3>3 DEF RecordSound, WorkerSound
      <4>2. CASE worker[b].todo = {p}
        BY <2>0, <2>t, <2>w, <3>r, <3>o, <3>2, <3>3, <4>1, <4>2 DEF WorkerSound, Between
      <4>3. CASE worker[b].todo # {p}
        BY <2>0, <2>t, <2>w, <3>r, <3>o, <3>2, <3>3, <4>1, <4>3 DEF WorkerSound, Between
      <4> QED
        BY <4>2, <4>3
    <3>4. CASE a # b
      BY <2>s, <2>t, <3>1, <3>2, <3>4, WordInRecord, OneWord
    <3> QED
      BY <3>3, <3>4
  <2>6. ASSUME NEW b \in Builds, StoreSteps(b) PROVE RecordSound(a)' /\ WorkerSound(a)'
    <3>1. store' = store /\ (\A d \in Builds : d # b => Same(d)) /\ worker[b].pc = "steps"
      BY <2>6 DEF StoreSteps, TypeOK
    <3>2. /\ rec'[b].total = rec[b].total /\ rec'[b].status = rec[b].status /\ rec'[b].log = rec[b].log
          /\ rec'[b].ended = rec[b].ended /\ rec'[b].steps = worker[b].i + 1
      BY <2>6, <2>t DEF StoreSteps, Counted, TypeOK, Records
    <3>3. /\ worker'[b].pc = "log" /\ worker'[b].i = worker[b].i /\ worker'[b].todo = worker[b].todo
      BY <2>6, <2>t DEF StoreSteps, TypeOK, WorkerState
    <3>4. CASE a = b
      BY <2>0, <2>t, <2>w, <3>1, <3>2, <3>3, <3>4 DEF RecordSound, WorkerSound, Between
    <3> QED
      BY <2>s, <3>1, <3>4
  <2>7. ASSUME NEW b \in Builds, StoreEnded(b) PROVE RecordSound(a)' /\ WorkerSound(a)'
    <3>1. store' = store /\ (\A d \in Builds : d # b => Same(d)) /\ worker[b].pc = "endedat"
      BY <2>7 DEF StoreEnded, TypeOK
    <3>2. /\ rec'[b].total = rec[b].total /\ rec'[b].status = rec[b].status /\ rec'[b].log = rec[b].log
          /\ rec'[b].steps = rec[b].steps
      BY <2>7, <2>t DEF StoreEnded, TypeOK, Records
    <3>3. /\ worker'[b].pc = "done" /\ worker'[b].i = worker[b].i /\ worker'[b].todo = worker[b].todo
      BY <2>7, <2>t DEF StoreEnded, TypeOK, WorkerState
    <3>4. CASE a = b
      BY <2>0, <2>t, <2>w, <3>1, <3>2, <3>3, <3>4 DEF RecordSound, WorkerSound, Between
    <3> QED
      BY <2>s, <3>1, <3>4
  <2>8. ASSUME NEW c \in Pollers, Lookup(c) \/ Encode(c) PROVE RecordSound(a)' /\ WorkerSound(a)'
    BY <2>8, <2>s DEF Lookup, Encode, ReadStatus, ReadEnded, ReadSteps, ReadEmpty, ReadLog
  <2>9. CASE Restart
    <3>1. /\ rec' = rec /\ worker'[a].pc = "none" /\ worker'[a].i = 0 /\ worker'[a].todo = Parts
          /\ store'[a] = IF store[a] = "live" THEN "lost" ELSE store[a]
      BY <2>9 DEF Restart
    <3> QED
      BY <2>0, <3>1 DEF RecordSound, WorkerSound, Between
  <2>10. CASE UNCHANGED vars
    BY <2>10, <2>s DEF vars
  <2> QED
    BY <2>1, <2>2, <2>3, <2>4, <2>5, <2>6, <2>7, <2>8, <2>9, <2>10 DEF Next, Work
<1> QED
  BY <1>1, <1>2, BuildTypeCorrect, PTL DEF Spec

-----------------------------------------------------------------------------
\* The types the steps below work with.
LEMMA FieldTypes ==
  ASSUME TypeOK
  PROVE  /\ \A b \in Builds : /\ rec[b].total \in 1 .. Stages /\ rec[b].steps \in Nat
                              /\ rec[b].ended \in BOOLEAN
                              /\ \A p \in Parts : rec[b].status[p] \in Nat /\ rec[b].log[p] \in Nat
                              /\ worker[b].i \in Nat /\ worker[b].todo \subseteq Parts
         /\ \A c \in Pollers : /\ poll[c].b \in Builds /\ poll[c].todo \subseteq Parts
                               /\ got[c].steps \in Nat /\ last[c].steps \in Nat
                               /\ got[c].ended \in BOOLEAN /\ last[c].ended \in BOOLEAN
                               /\ \A p \in Parts : /\ got[c].status[p] \in Nat /\ got[c].log[p] \in Nat
                                                   /\ last[c].status[p] \in Nat /\ last[c].log[p] \in Nat
<1>1. ASSUME NEW b \in Builds
      PROVE  /\ rec[b].total \in 1 .. Stages /\ rec[b].steps \in Nat /\ rec[b].ended \in BOOLEAN
             /\ \A p \in Parts : rec[b].status[p] \in Nat /\ rec[b].log[p] \in Nat
             /\ worker[b].i \in Nat /\ worker[b].todo \subseteq Parts
  <2>1. rec[b] \in Records /\ worker[b] \in WorkerState
    BY DEF TypeOK
  <2> QED
    BY <2>1, BuildAssumption DEF Records, WorkerState, Words
<1>2. ASSUME NEW c \in Pollers
      PROVE  /\ poll[c].b \in Builds /\ poll[c].todo \subseteq Parts
             /\ got[c].steps \in Nat /\ last[c].steps \in Nat
             /\ got[c].ended \in BOOLEAN /\ last[c].ended \in BOOLEAN
             /\ \A p \in Parts : /\ got[c].status[p] \in Nat /\ got[c].log[p] \in Nat
                                 /\ last[c].status[p] \in Nat /\ last[c].log[p] \in Nat
  <2>1. poll[c] \in PollState /\ got[c] \in Answers /\ last[c] \in Answers
    BY DEF TypeOK
  <2> QED
    BY <2>1 DEF PollState, Answers, Words
<1> QED
  BY <1>1, <1>2

\* No step takes a record back, and no step but a restart loses one.
LEMMA RecordsGrow ==
  ASSUME TypeOK, RecordsSound, [Next]_vars, NEW a \in Builds
  PROVE  RecordGrows(a) /\ (~Restart /\ store[a] = "live" => store'[a] = "live")
<1> USE DEF Completed
<1>t. /\ rec[a].total \in 1 .. Stages /\ rec[a].steps \in Nat /\ Stages \in Nat
      /\ \A p \in Parts : rec[a].status[p] \in Nat /\ rec[a].log[p] \in Nat
      /\ worker[a].i \in Nat
      /\ \A b \in Builds : worker[b].todo \subseteq Parts /\ worker[b].i \in Nat
  BY FieldTypes, BuildAssumption
<1>0. WorkerSound(a)
  BY DEF RecordsSound
<1>s. rec'[a] = rec[a] /\ store'[a] = store[a] => RecordGrows(a) /\ (store[a] = "live" => store'[a] = "live")
  BY <1>t DEF RecordGrows
<1>1. ASSUME NEW b \in Builds, Run(b)
      PROVE  RecordGrows(a) /\ (store[a] = "live" => store'[a] = "live")
  BY <1>1, <1>t DEF Run, RecordGrows, TypeOK
<1>2. ASSUME NEW b \in Builds, Enter(b)
      PROVE  RecordGrows(a) /\ (store[a] = "live" => store'[a] = "live")
  BY <1>2, <1>s DEF Enter
<1>3. ASSUME NEW b \in Builds, StoreRunning(b) \/ StoreCompleted(b)
      PROVE  RecordGrows(a) /\ (store[a] = "live" => store'[a] = "live")
  <2>1. PICK p \in worker[b].todo, n \in {1, 2} :
           /\ rec' = [rec EXCEPT ![b].status[p] = n]
           /\ n = IF worker[b].pc = "running" THEN 1 ELSE 2
    BY <1>3 DEF StoreRunning, StoreCompleted
  <2>2. store' = store /\ worker[b].pc \in {"running", "completed"} /\ p \in Parts /\ n \in Nat
    BY <1>3, <1>t DEF StoreRunning, StoreCompleted
  <2>3. CASE a = b
    <3>1. /\ rec'[b].total = rec[b].total /\ rec'[b].steps = rec[b].steps
          /\ rec'[b].ended = rec[b].ended /\ rec'[b].log = rec[b].log
          /\ \A q \in Parts : rec'[b].status[q] = IF q = p THEN n ELSE rec[b].status[q]
      BY <2>1, <2>2, WordInRecord
    <3>2. rec[b].status[p] <= n
      BY <1>0, <2>1, <2>2, <2>3 DEF WorkerSound
    <3> QED
      BY <1>t, <2>2, <2>3, <3>1, <3>2 DEF RecordGrows
  <2>4. CASE a # b
    BY <1>s, <2>1, <2>2, <2>4, WordInRecord
  <2> QED
    BY <2>3, <2>4
<1>4. ASSUME NEW b \in Builds, StoreLog(b)
      PROVE  RecordGrows(a) /\ (store[a] = "live" => store'[a] = "live")
  <2>1. PICK p \in worker[b].todo : rec' = [rec EXCEPT ![b].log[p] = worker[b].i + 1]
    BY <1>4 DEF StoreLog
  <2>2. store' = store /\ worker[b].pc = "log" /\ p \in Parts /\ worker[b].i + 1 \in Nat
    BY <1>4, <1>t DEF StoreLog
  <2>3. CASE a = b
    <3>1. /\ rec'[b].total = rec[b].total /\ rec'[b].steps = rec[b].steps
          /\ rec'[b].ended = rec[b].ended /\ rec'[b].status = rec[b].status
          /\ \A q \in Parts : rec'[b].log[q] = IF q = p THEN worker[b].i + 1 ELSE rec[b].log[q]
      BY <2>1, <2>2, WordInRecord
    <3>2. rec[b].log[p] <= worker[b].i + 1
      BY <1>0, <1>t, <2>1, <2>2, <2>3 DEF WorkerSound
    <3> QED
      BY <1>t, <2>2, <2>3, <3>1, <3>2 DEF RecordGrows
  <2>4. CASE a # b
    BY <1>s, <2>1, <2>2, <2>4, WordInRecord
  <2> QED
    BY <2>3, <2>4
<1>5. ASSUME NEW b \in Builds, StoreSteps(b)
      PROVE  RecordGrows(a) /\ (store[a] = "live" => store'[a] = "live")
  <2>1. store' = store /\ worker[b].pc = "steps" /\ rec' = [rec EXCEPT ![b].steps = worker[b].i + 1]
    BY <1>5 DEF StoreSteps, Counted
  <2>2. CASE a = b
    <3>1. /\ rec'[b].total = rec[b].total /\ rec'[b].status = rec[b].status /\ rec'[b].log = rec[b].log
          /\ rec'[b].ended = rec[b].ended /\ rec'[b].steps = worker[b].i + 1
      BY <2>1 DEF TypeOK, Records
    <3>2. rec[b].steps = worker[b].i
      BY <1>0, <2>1, <2>2 DEF WorkerSound, Between
    <3> QED
      BY <1>t, <2>1, <2>2, <3>1, <3>2 DEF RecordGrows
  <2>3. CASE a # b
    BY <1>s, <2>1, <2>3 DEF TypeOK
  <2> QED
    BY <2>2, <2>3
<1>6. ASSUME NEW b \in Builds, StoreEnded(b)
      PROVE  RecordGrows(a) /\ (store[a] = "live" => store'[a] = "live")
  <2>1. store' = store /\ rec' = [rec EXCEPT ![b].ended = TRUE]
    BY <1>6 DEF StoreEnded
  <2>2. CASE a = b
    <3>1. /\ rec'[b].total = rec[b].total /\ rec'[b].status = rec[b].status /\ rec'[b].log = rec[b].log
          /\ rec'[b].ended = TRUE /\ rec'[b].steps = rec[b].steps
      BY <2>1 DEF TypeOK, Records
    <3> QED
      BY <1>t, <2>1, <2>2, <3>1 DEF RecordGrows
  <2>3. CASE a # b
    BY <1>s, <2>1, <2>3 DEF TypeOK
  <2> QED
    BY <2>2, <2>3
<1>7. ASSUME NEW c \in Pollers, Lookup(c) \/ Encode(c)
      PROVE  RecordGrows(a) /\ (store[a] = "live" => store'[a] = "live")
  BY <1>7, <1>s DEF Lookup, Encode, ReadStatus, ReadEnded, ReadSteps, ReadEmpty, ReadLog
<1>8. CASE Restart
  BY <1>8, <1>t DEF Restart, RecordGrows
<1>9. CASE UNCHANGED vars
  BY <1>9, <1>s DEF vars
<1> QED
  BY <1>1, <1>2, <1>3, <1>4, <1>5, <1>6, <1>7, <1>8, <1>9 DEF Next, Work

-----------------------------------------------------------------------------
\* A request that a step does not touch stays sound while its record grows.
LEMMA PollUntouched ==
  ASSUME TypeOK, TypeOK', RecordsSound, RecordsSound', NEW c \in Pollers, PollSound(c),
         poll'[c] = poll[c], got'[c] = got[c], last'[c] = last[c],
         RecordGrows(poll[c].b), store[poll[c].b] = "live" => store'[poll[c].b] = "live"
  PROVE  PollSound(c)'
<1> DEFINE b == poll[c].b
<1>t. /\ b \in Builds /\ rec[b].total \in Nat /\ rec[b].steps \in Nat
      /\ rec'[b].steps \in Nat /\ rec[b].ended \in BOOLEAN /\ rec'[b].ended \in BOOLEAN
      /\ \A p \in Parts : /\ rec[b].status[p] \in Nat /\ rec[b].log[p] \in Nat
                          /\ rec'[b].status[p] \in Nat /\ rec'[b].log[p] \in Nat
      /\ got[c].steps \in Nat /\ last[c].steps \in Nat
      /\ \A p \in Parts : /\ got[c].status[p] \in Nat /\ got[c].log[p] \in Nat
                          /\ last[c].status[p] \in Nat /\ last[c].log[p] \in Nat
  <2>1. b \in Builds
    BY FieldTypes
  <2>2. /\ rec[b].total \in Nat /\ rec[b].steps \in Nat /\ rec[b].ended \in BOOLEAN
        /\ \A p \in Parts : rec[b].status[p] \in Nat /\ rec[b].log[p] \in Nat
    BY <2>1, BuildAssumption, FieldTypes
  <2>3. rec'[b] \in Records
    BY <2>1 DEF TypeOK
  <2> QED
    BY <2>1, <2>2, <2>3, FieldTypes DEF Records, Words
<1>1. /\ rec'[b].total = rec[b].total /\ rec'[b].steps >= rec[b].steps /\ rec'[b].steps <= rec[b].total
      /\ rec[b].ended => rec'[b].ended
      /\ \A p \in Parts : rec'[b].log[p] >= rec[b].log[p] /\ rec'[b].status[p] >= rec[b].status[p]
      /\ store[b] = "lost" => store'[b] = "lost"
  BY <1>t DEF RecordGrows, RecordsSound, RecordSound
<1>2. rec[b].steps = rec[b].total => rec'[b].steps = rec[b].total
  BY <1>t, <1>1
<1>3. Within(got[c], b)' /\ Within(last[c], b)'
  BY <1>t, <1>1 DEF PollSound, Within
<1> HIDE DEF b
<1>4. poll'[c].b = b
  BY DEF b
<1> QED
  BY <1>t, <1>1, <1>2, <1>3, <1>4 DEF PollSound, Final, Parts, b

\* Requests stay sound.
LEMMA PollsStaySound == Spec => []PollsSound
<1> USE BuildAssumption DEF Parts, Completed
<1>0. \A p \in Parts : Whole(0)[p] = 0
  BY DEF Whole
<1>1. Init => PollsSound
  <2> SUFFICES ASSUME Init, NEW c \in Pollers PROVE PollSound(c)
    BY DEF PollsSound
  <2>1. poll[c].pc = "idle" /\ poll[c].todo = Parts /\ got[c] = NoAnswer /\ last[c] = NoAnswer
        /\ poll[c].b \in Builds
    BY DEF Init
  <2>2. PICK b \in Builds : b = poll[c].b
    BY <2>1
  <2>3. rec[b].steps = 0 /\ \A p \in Parts : rec[b].status[p] = 0 /\ rec[b].log[p] = 0
    BY <1>0 DEF Init
  <2> QED
    BY <1>0, <2>1, <2>2, <2>3 DEF PollSound, Within, Final, NoAnswer
<1>2. TypeOK /\ TypeOK' /\ RecordsSound /\ RecordsSound' /\ PollsSound /\ [Next]_vars => PollsSound'
  <2> SUFFICES ASSUME TypeOK, TypeOK', RecordsSound, RecordsSound', PollsSound, [Next]_vars,
                      NEW c \in Pollers
               PROVE  PollSound(c)'
    BY DEF PollsSound
  <2>0. PollSound(c) /\ poll[c].b \in Builds
    BY FieldTypes DEF PollsSound
  <2>s. UNCHANGED <<store, rec>> /\ poll'[c] = poll[c] /\ got'[c] = got[c] /\ last'[c] = last[c]
           => PollSound(c)'
    BY <2>0 DEF PollSound, Within, Final
  <2>t. PICK b \in Builds :
           /\ b = poll[c].b
           /\ RecordSound(b)
           /\ rec[b].total \in Nat /\ rec[b].total >= 1 /\ rec[b].steps \in Nat /\ rec[b].ended \in BOOLEAN
           /\ \A p \in Parts : rec[b].status[p] \in Nat /\ rec[b].log[p] \in Nat
           /\ poll[c].todo \subseteq Parts
           /\ got[c].steps \in Nat /\ last[c].steps \in Nat
           /\ got[c].ended \in BOOLEAN /\ last[c].ended \in BOOLEAN
           /\ \A p \in Parts : /\ got[c].status[p] \in Nat /\ got[c].log[p] \in Nat
                               /\ last[c].status[p] \in Nat /\ last[c].log[p] \in Nat
    <3>1. PICK b \in Builds : b = poll[c].b
      BY <2>0
    <3>2. rec[b].total \in Nat /\ rec[b].total >= 1
      BY FieldTypes
    <3> QED
      BY <3>1, <3>2, FieldTypes DEF RecordsSound
  <2>1. ASSUME NEW e \in Builds, Run(e) \/ Work(e) PROVE PollSound(c)'
    <3>1. UNCHANGED <<poll, got, last>>
      BY <2>1 DEF Run, Work, Enter, StoreRunning, StoreSteps, StoreLog, StoreCompleted, StoreEnded
    <3>2. RecordGrows(b)
      BY <2>t, RecordsGrow
    <3>3. store[b] = "live" => store'[b] = "live"
      BY <2>1 DEF Run, TypeOK, Work, Enter, StoreRunning, StoreSteps, StoreLog, StoreCompleted, StoreEnded
    <3> QED
      BY <2>0, <2>t, <3>1, <3>2, <3>3, PollUntouched
  <2>2. ASSUME NEW d \in Pollers, Encode(d) \/ Lookup(d), d # c PROVE PollSound(c)'
    <3>1. UNCHANGED <<store, rec>> /\ poll'[c] = poll[c] /\ got'[c] = got[c] /\ last'[c] = last[c]
      BY <2>2 DEF Lookup, Encode, ReadStatus, ReadEnded, ReadSteps, ReadEmpty, ReadLog,
                  Answered, WordRead, TypeOK
    <3> QED
      BY <2>s, <3>1
  <2>a. ASSUME NEW a, Answered(c, a), UNCHANGED <<store, rec>>, Within(a, b),
               a.kind = "gone" => store[b] = "lost",
               a.log["text"] > 0 => a.log["len"] > 0,
               a.kind = "found" /\ Final(a) => a.steps = rec[b].total /\ \A p \in Parts : a.log[p] = rec[b].total,
               a.kind \in {"found", "aborted"} => \A p \in Parts : a.log[p] >= a.steps - 1,
               a.kind = "aborted" => a.steps <= 1
        PROVE  PollSound(c)'
    <3>1. /\ poll'[c].pc = "idle" /\ poll'[c].b = b /\ poll'[c].todo = Parts /\ got'[c] = NoAnswer
          /\ last'[c] = a
      BY <2>a, <2>t DEF Answered, TypeOK
    <3>2. Within(NoAnswer, b)
      BY <1>0, <2>t DEF Within, NoAnswer
    <3> QED
      BY <2>a, <2>t, <3>1, <3>2 DEF PollSound, Within, Final
  <2>3. ASSUME Lookup(c) PROVE PollSound(c)'
    <3>1. UNCHANGED <<store, rec>> /\ poll[c].pc = "idle"
      BY <2>3 DEF Lookup
    <3>2. CASE store[b] = "lost" /\ Answered(c, [NoAnswer EXCEPT !.kind = "gone"])
      <4>1. PICK a : a = [NoAnswer EXCEPT !.kind = "gone"]
        OBVIOUS
      <4>2. a.kind = "gone" /\ a.steps = 0 /\ a.ended = FALSE /\ a.log = Whole(0) /\ a.status = Whole(0)
        BY <4>1 DEF NoAnswer
      <4>3. Within(a, b)
        BY <1>0, <2>t, <4>2 DEF Within
      <4> QED
        BY <1>0, <2>a, <3>1, <3>2, <4>1, <4>2, <4>3
    <3>3. CASE /\ store[b] = "live"
               /\ poll' = [poll EXCEPT ![c].pc = "status"]
               /\ got' = [got EXCEPT ![c].kind = "found"]
               /\ UNCHANGED last
      <4>1. poll'[c].pc = "status" /\ poll'[c].b = b /\ poll'[c].todo = poll[c].todo
        BY <2>t, <3>3 DEF TypeOK, PollState
      <4>2. got'[c] = [NoAnswer EXCEPT !.kind = "found"]
        BY <2>0, <3>1, <3>3 DEF TypeOK, PollSound
      <4>3. /\ got'[c].kind = "found" /\ got'[c].steps = 0 /\ got'[c].ended = FALSE
            /\ got'[c].log = Whole(0) /\ got'[c].status = Whole(0)
        BY <4>2 DEF NoAnswer
      <4> QED
        BY <1>0, <2>0, <2>t, <3>1, <3>3, <4>1, <4>3 DEF PollSound, Within, Final
    <3> QED
      BY <2>3, <2>t, <3>2, <3>3 DEF Lookup
  <2>4. ASSUME ReadStatus(c) PROVE PollSound(c)'
    <3>1. PICK p \in poll[c].todo :
             /\ got' = [got EXCEPT ![c].status[p] = rec[b].status[p]]
             /\ WordRead(c, p, "endedat")
      BY <2>4, <2>t DEF ReadStatus
    <3>2. UNCHANGED <<store, rec, last>> /\ poll[c].pc = "status" /\ p \in Parts
      BY <2>4, <2>t DEF ReadStatus
    <3>3. got'[c] = [got[c] EXCEPT !.status = [got[c].status EXCEPT ![p] = rec[b].status[p]]]
      BY <3>1 DEF TypeOK
    <3>4. got[c] \in Answers /\ got[c].status \in Words
      BY DEF TypeOK, Answers
    <3>5. /\ got'[c].kind = got[c].kind /\ got'[c].steps = got[c].steps /\ got'[c].ended = got[c].ended
          /\ got'[c].log = got[c].log
          /\ \A q \in Parts : got'[c].status[q] = IF q = p THEN rec[b].status[q] ELSE got[c].status[q]
      BY <3>2, <3>3, <3>4 DEF Answers, Words
    <3>6. /\ poll'[c].b = b
          /\ \/ poll[c].todo = {p} /\ poll'[c].pc = "endedat" /\ poll'[c].todo = Parts
             \/ poll[c].todo # {p} /\ poll'[c].pc = "status" /\ poll'[c].todo = poll[c].todo \ {p}
      BY <2>t, <3>1, <3>2 DEF WordRead, TypeOK, PollState
    <3>7. Within(got[c], b)' /\ Within(last[c], b)'
      BY <2>0, <2>t, <3>2, <3>5 DEF PollSound, Within
    <3>8. Final(got[c])' => rec[b].steps = rec[b].total
      BY <2>0, <2>t, <3>2, <3>5 DEF PollSound, Final, RecordSound
    <3>9. last[c].status[p] <= rec[b].status[p]
      BY <2>0, <2>t, <3>2 DEF PollSound, Within
    <3>10. CASE poll[c].todo = {p}
      <4>1. \A q \in Parts : last[c].status[q] <= got'[c].status[q]
        BY <2>0, <2>t, <3>2, <3>5, <3>9, <3>10 DEF PollSound
      <4> QED
        BY <2>0, <2>t, <3>2, <3>5, <3>6, <3>7, <3>8, <3>10, <4>1 DEF PollSound
    <3>11. CASE poll[c].todo # {p}
      <4>1. \A q \in Parts : q \notin poll'[c].todo => last[c].status[q] <= got'[c].status[q]
        BY <2>0, <2>t, <3>2, <3>5, <3>6, <3>9, <3>11 DEF PollSound
      <4> QED
        BY <2>0, <2>t, <3>2, <3>5, <3>6, <3>7, <3>8, <3>11, <4>1 DEF PollSound
    <3> QED
      BY <3>10, <3>11
  <2>5. ASSUME ReadEnded(c) PROVE PollSound(c)'
    <3>1. UNCHANGED <<store, rec, last>> /\ poll[c].pc = "endedat"
      BY <2>5 DEF ReadEnded
    <3>2. /\ got'[c].kind = got[c].kind /\ got'[c].steps = got[c].steps /\ got'[c].ended = rec[b].ended
          /\ got'[c].log = got[c].log /\ got'[c].status = got[c].status
      BY <2>5, <2>t DEF ReadEnded, TypeOK, Answers
    <3>3. poll'[c].b = b /\ poll'[c].pc = "steps" /\ poll'[c].todo = poll[c].todo
      BY <2>5, <2>t DEF ReadEnded, TypeOK, PollState
    <3>4. Within(got[c], b)' /\ Within(last[c], b)'
      BY <2>0, <2>t, <3>1, <3>2 DEF PollSound, Within
    <3>5. Final(got[c])' => rec[b].steps = rec[b].total
      BY <2>0, <2>t, <3>1, <3>2 DEF PollSound, Final, RecordSound
    <3>6. last[c].ended => rec[b].ended
      BY <2>0, <2>t DEF PollSound, Within
    <3> QED
      BY <2>0, <2>t, <3>1, <3>2, <3>3, <3>4, <3>5, <3>6 DEF PollSound
  <2>6. ASSUME ReadSteps(c) PROVE PollSound(c)'
    <3>1. UNCHANGED <<store, rec, last>> /\ poll[c].pc = "steps"
      BY <2>6 DEF ReadSteps
    <3>2. /\ got'[c].kind = got[c].kind /\ got'[c].steps = rec[b].steps /\ got'[c].ended = got[c].ended
          /\ got'[c].log = got[c].log /\ got'[c].status = got[c].status
      BY <2>6, <2>t DEF ReadSteps, TypeOK, Answers
    <3>3. poll'[c].b = b /\ poll'[c].pc = "empty" /\ poll'[c].todo = poll[c].todo
      BY <2>6, <2>t DEF ReadSteps, TypeOK, PollState
    <3>4. Within(got[c], b)' /\ Within(last[c], b)'
      BY <2>0, <2>t, <3>1, <3>2 DEF PollSound, Within
    <3>5. last[c].steps <= rec[b].steps /\ (Final(got[c])' => Final(got[c]))
      BY <2>0, <2>t, <3>2 DEF PollSound, Within, Final
    <3> QED
      BY <2>0, <2>t, <3>1, <3>2, <3>3, <3>4, <3>5 DEF PollSound
  <2>7. ASSUME ReadEmpty(c) PROVE PollSound(c)'
    <3>1. UNCHANGED <<store, rec>> /\ poll[c].pc = "empty"
      BY <2>7 DEF ReadEmpty
    <3>2. CASE rec[b].log["len"] = 0 /\ Answered(c, got[c])
      <4>1. Within(got[c], b) /\ got[c].kind = "found"
        BY <2>0, <2>t, <3>1 DEF PollSound
      <4>2. ~Final(got[c])
        BY <2>0, <2>t, <3>1, <3>2 DEF PollSound, RecordSound, Final, Within
      <4>3. got[c].steps <= 1 /\ rec[b].steps <= 1
        BY <2>t, <3>2, <4>1 DEF RecordSound, Within
      <4>4. \A p \in Parts : got[c].log[p] >= got[c].steps - 1
        BY <2>t, <4>3
      <4>5. got[c].log["text"] = 0
        BY <2>0, <2>t, <3>1, <3>2 DEF PollSound, Within
      <4> QED
        BY <2>a, <3>1, <3>2, <4>1, <4>2, <4>4, <4>5
    <3>3. CASE rec[b].log["len"] # 0 /\ poll' = [poll EXCEPT ![c].pc = "log"] /\ UNCHANGED <<got, last>>
      <4>1. poll'[c].pc = "log" /\ poll'[c].b = b /\ poll'[c].todo = poll[c].todo
        BY <2>t, <3>3 DEF TypeOK, PollState
      <4> QED
        BY <2>0, <2>t, <3>1, <3>3, <4>1 DEF PollSound, Within, Final
    <3> QED
      BY <2>7, <2>t, <3>2, <3>3 DEF ReadEmpty
  <2>8. ASSUME ReadLog(c) PROVE PollSound(c)'
    <3>1. PICK p, a :
             /\ p \in poll[c].todo
             /\ a = [got[c] EXCEPT !.log[p] = rec[b].log[p]]
             /\ \/ /\ poll[c].todo # {p}
                   /\ got' = [got EXCEPT ![c] = a]
                   /\ poll' = [poll EXCEPT ![c].todo = poll[c].todo \ {p}]
                   /\ UNCHANGED last
                \/ /\ poll[c].todo = {p}
                   /\ Answered(c, IF a.log["text"] = 0 THEN [a EXCEPT !.kind = "aborted"] ELSE a)
      BY <2>8, <2>t DEF ReadLog
    <3>2. UNCHANGED <<store, rec>> /\ poll[c].pc = "log" /\ p \in Parts
      BY <2>8, <2>t, <3>1 DEF ReadLog
    <3>3. a = [got[c] EXCEPT !.log = [got[c].log EXCEPT ![p] = rec[b].log[p]]]
      BY <3>1
    <3>4. got[c] \in Answers /\ got[c].log \in Words
      BY DEF TypeOK, Answers
    <3>5. /\ a \in Answers /\ a.kind = got[c].kind /\ a.steps = got[c].steps /\ a.ended = got[c].ended
          /\ a.status = got[c].status
          /\ \A q \in Parts : a.log[q] = IF q = p THEN rec[b].log[q] ELSE got[c].log[q]
      <4>1. [got[c].log EXCEPT ![p] = rec[b].log[p]] \in Words
        BY <2>t, <3>2, <3>4 DEF Words
      <4>2. a \in Answers
        BY <3>3, <3>4, <4>1 DEF Answers
      <4>3. a.log = [got[c].log EXCEPT ![p] = rec[b].log[p]]
        BY <3>3, <3>4 DEF Answers
      <4>4. \A q \in Parts : a.log[q] = IF q = p THEN rec[b].log[q] ELSE got[c].log[q]
        BY <3>2, <3>4, <4>3 DEF Words
      <4> QED
        BY <3>3, <3>4, <4>2, <4>4 DEF Answers
    <3>6. Within(a, b) /\ (Final(a) <=> Final(got[c]))
      BY <2>0, <2>t, <3>2, <3>5 DEF PollSound, Within, Final
    <3>7. /\ last[c].log[p] <= a.log[p] /\ a.log[p] >= a.steps - 1
          /\ p = "len" => a.log[p] > 0
          /\ Final(a) => a.log[p] = rec[b].total /\ a.steps = rec[b].total
      <4>1. last[c].log[p] <= rec[b].log[p] /\ rec[b].log[p] >= rec[b].steps - 1 /\ got[c].steps <= rec[b].steps
        BY <2>0, <2>t, <3>2 DEF PollSound, Within, RecordSound
      <4>2. p = "len" => rec[b].log[p] > 0
        BY <2>0, <2>t, <3>2 DEF PollSound
      <4>3. ASSUME Final(got[c]) PROVE rec[b].ended \/ \E q \in Parts : rec[b].status[q] = 2
        <5>1. Within(got[c], b)
          BY <2>0, <2>t DEF PollSound
        <5>2. CASE got[c].ended
          BY <5>1, <5>2 DEF Within
        <5>3. ASSUME NEW q \in Parts, got[c].status[q] = 2 PROVE rec[b].status[q] = 2
          BY <2>t, <5>1, <5>3 DEF Within, RecordSound
        <5> QED
          BY <4>3, <5>2, <5>3 DEF Final
      <4>4. Final(got[c]) => rec[b].log[p] = rec[b].total
        BY <2>t, <3>2, <4>3 DEF RecordSound
      <4>5. Final(got[c]) => got[c].steps = rec[b].total
        BY <2>0, <2>t, <3>2 DEF PollSound
      <4> QED
        BY <2>t, <3>2, <3>5, <3>6, <4>1, <4>2, <4>4, <4>5
    <3>8. CASE /\ poll[c].todo # {p}
               /\ got' = [got EXCEPT ![c] = a]
               /\ poll' = [poll EXCEPT ![c].todo = poll[c].todo \ {p}]
               /\ UNCHANGED last
      <4>1. poll'[c].pc = "log" /\ poll'[c].b = b /\ poll'[c].todo = poll[c].todo \ {p} /\ got'[c] = a
        BY <2>t, <3>2, <3>8 DEF TypeOK, PollState
      <4> QED
        BY <2>0, <2>t, <3>2, <3>5, <3>6, <3>7, <3>8, <4>1 DEF PollSound, Within, Final
    <3>9. CASE /\ poll[c].todo = {p}
               /\ Answered(c, IF a.log["text"] = 0 THEN [a EXCEPT !.kind = "aborted"] ELSE a)
      <4>1. \A q \in Parts : /\ a.log[q] >= a.steps - 1
                             /\ q = "len" => a.log[q] > 0
                             /\ Final(a) => a.log[q] = rec[b].total
        BY <2>0, <2>t, <3>2, <3>5, <3>6, <3>7, <3>9 DEF PollSound
      <4>2. a.kind = "found"
        BY <2>0, <3>2, <3>5 DEF PollSound
      <4>3. CASE a.log["text"] # 0
        BY <2>a, <3>2, <3>5, <3>6, <3>7, <3>9, <4>1, <4>2, <4>3
      <4>4. CASE a.log["text"] = 0
        <5>1. PICK z : z = [a EXCEPT !.kind = "aborted"]
          OBVIOUS
        <5>2. /\ z.kind = "aborted" /\ z.steps = a.steps /\ z.log = a.log /\ z.status = a.status
              /\ z.ended = a.ended
          BY <3>5, <5>1 DEF Answers
        <5>3. Within(z, b) /\ z.steps <= 1
          BY <2>t, <3>5, <3>6, <4>1, <4>4, <5>2 DEF Within
        <5>4. Answered(c, z)
          BY <3>9, <4>4, <5>1
        <5> QED
          BY <2>a, <3>2, <4>1, <4>4, <5>2, <5>3, <5>4
      <4> QED
        BY <4>3, <4>4
    <3> QED
      BY <3>1, <3>8, <3>9
  <2>9. CASE Restart
    <3>1. /\ rec' = rec /\ last' = last /\ got'[c] = NoAnswer
          /\ poll'[c].pc = "idle" /\ poll'[c].b = b /\ poll'[c].todo = Parts
          /\ store'[b] = IF store[b] = "live" THEN "lost" ELSE store[b]
      BY <2>9, <2>t DEF Restart
    <3>2. Within(NoAnswer, b)
      BY <1>0, <2>t DEF Within, NoAnswer
    <3> QED
      BY <2>0, <2>t, <3>1, <3>2 DEF PollSound, Within, Final
  <2>10. CASE UNCHANGED vars
    BY <2>10, <2>s DEF vars
  <2> QED
    BY <2>1, <2>2, <2>3, <2>4, <2>5, <2>6, <2>7, <2>8, <2>9, <2>10 DEF Next, Encode
<1> QED
  BY <1>1, <1>2, BuildTypeCorrect, RecordsStaySound, PTL DEF Spec

-----------------------------------------------------------------------------
\* An answer that shows anything of "completed", or an end, is final.
THEOREM CompletedMeansFinal == Spec => []CompletedIsFinal
<1>1. TypeOK /\ PollsSound => CompletedIsFinal
  <2> SUFFICES ASSUME TypeOK, PollsSound, NEW c \in Pollers, last[c].kind = "found",
                      last[c].ended \/ \E p \in Parts : last[c].status[p] = Completed
               PROVE  /\ last[c].steps = rec[poll[c].b].total
                      /\ last[c].log = Whole(rec[poll[c].b].total)
    BY DEF CompletedIsFinal
  <2>1. last[c].log \in Words
    BY DEF TypeOK, Answers
  <2>2. last[c].steps = rec[poll[c].b].total /\ \A p \in Parts : last[c].log[p] = rec[poll[c].b].total
    BY DEF PollsSound, PollSound, Final
  <2> QED
    BY <2>1, <2>2 DEF Whole, Words
<1> QED
  BY <1>1, BuildTypeCorrect, PollsStaySound, PTL

\* The log of an answer is at most one stage behind its steps.
THEOREM LogStaysClose == Spec => []LogKeepsUp
<1>1. PollsSound => LogKeepsUp
  BY DEF PollsSound, PollSound, LogKeepsUp
<1> QED
  BY <1>1, PollsStaySound, PTL

\* Polling a build never shows it going back.
THEOREM PollingIsMonotone == Spec => PollsNeverGoBack
<1>1. TypeOK /\ TypeOK' /\ RecordsSound /\ PollsSound /\ PollsSound' /\ [Next]_vars =>
        [\A c \in Pollers :
          LET a == last[c]
              z == last'[c]
          IN  /\ a.kind = "gone" => z.kind = "gone"
              /\ a.kind \in {"found", "aborted"} /\ z.kind \in {"found", "aborted"} =>
                    /\ a.ended => z.ended
                    /\ a.steps <= z.steps
                    /\ \A p \in Parts : a.status[p] <= z.status[p] /\ a.log[p] <= z.log[p]]_vars
  <2> SUFFICES ASSUME TypeOK, TypeOK', RecordsSound, PollsSound, PollsSound', [Next]_vars,
                      NEW c \in Pollers
               PROVE  /\ last[c].kind = "gone" => last'[c].kind = "gone"
                      /\ last[c].kind \in {"found", "aborted"} /\ last'[c].kind \in {"found", "aborted"} =>
                            /\ last[c].ended => last'[c].ended
                            /\ last[c].steps <= last'[c].steps
                            /\ \A p \in Parts : /\ last[c].status[p] <= last'[c].status[p]
                                                /\ last[c].log[p] <= last'[c].log[p]
    OBVIOUS
  <2> USE DEF Parts
  <2>0. PollSound(c)
    BY DEF PollsSound
  <2>t. /\ last[c].steps \in Nat /\ got[c].steps \in Nat
        /\ \A p \in Parts : /\ got[c].status[p] \in Nat /\ got[c].log[p] \in Nat
                            /\ last[c].status[p] \in Nat /\ last[c].log[p] \in Nat
                            /\ rec[poll[c].b].log[p] \in Nat
        /\ poll[c].b \in Builds /\ poll[c].todo \subseteq Parts
    BY FieldTypes
  <2>1. CASE last'[c] = last[c]
    BY <2>1, <2>t
  <2>2. ASSUME NEW a, Answered(c, a), a.kind = "gone" \/ last[c].kind # "gone",
               a.kind \in {"found", "aborted"} =>
                  /\ last[c].ended => a.ended
                  /\ last[c].steps <= a.steps
                  /\ \A p \in Parts : last[c].status[p] <= a.status[p] /\ last[c].log[p] <= a.log[p]
        PROVE  /\ last[c].kind = "gone" => last'[c].kind = "gone"
               /\ last[c].kind \in {"found", "aborted"} /\ last'[c].kind \in {"found", "aborted"} =>
                     /\ last[c].ended => last'[c].ended
                     /\ last[c].steps <= last'[c].steps
                     /\ \A p \in Parts : /\ last[c].status[p] <= last'[c].status[p]
                                         /\ last[c].log[p] <= last'[c].log[p]
    <3>1. last'[c] = a
      BY <2>2 DEF Answered, TypeOK
    <3> QED
      BY <2>2, <3>1
  <2>3. CASE Lookup(c)
    <3>1. CASE Answered(c, [NoAnswer EXCEPT !.kind = "gone"])
      <4>1. PICK a : a = [NoAnswer EXCEPT !.kind = "gone"]
        OBVIOUS
      <4>2. a.kind = "gone"
        BY <4>1 DEF NoAnswer
      <4> QED
        BY <2>2, <3>1, <4>1, <4>2
    <3> QED
      BY <2>1, <2>3, <3>1 DEF Lookup
  <2>4. CASE ReadEmpty(c)
    <3>1. CASE rec[poll[c].b].log["len"] = 0 /\ Answered(c, got[c])
      <4>1. poll[c].pc = "empty" /\ last[c].kind # "gone"
        BY <2>0, <2>4 DEF PollSound, ReadEmpty
      <4>2. \A p \in Parts : last[c].log[p] = 0
        BY <2>0, <2>t, <3>1 DEF PollSound, Within
      <4> QED
        BY <2>0, <2>2, <2>t, <3>1, <4>1, <4>2 DEF PollSound
    <3> QED
      BY <2>1, <2>4, <3>1 DEF ReadEmpty
  <2>5. CASE ReadLog(c)
    <3>1. poll[c].pc = "log" /\ last[c].kind # "gone"
      BY <2>0, <2>5 DEF PollSound, ReadLog
    <3>2. PICK p, a :
             /\ p \in poll[c].todo
             /\ a = [got[c] EXCEPT !.log[p] = rec[poll[c].b].log[p]]
             /\ \/ UNCHANGED last
                \/ /\ poll[c].todo = {p}
                   /\ Answered(c, IF a.log["text"] = 0 THEN [a EXCEPT !.kind = "aborted"] ELSE a)
      BY <2>5 DEF ReadLog
    <3>3. got[c] \in Answers /\ got[c].log \in Words /\ p \in Parts
      BY <2>t, <3>2 DEF TypeOK, Answers
    <3>4. a = [got[c] EXCEPT !.log = [got[c].log EXCEPT ![p] = rec[poll[c].b].log[p]]]
      BY <3>2
    <3>5. /\ a.kind = got[c].kind /\ a.steps = got[c].steps /\ a.ended = got[c].ended
          /\ a.status = got[c].status /\ a.log = [got[c].log EXCEPT ![p] = rec[poll[c].b].log[p]]
      BY <3>3, <3>4 DEF Answers
    <3>6. CASE /\ poll[c].todo = {p}
               /\ Answered(c, IF a.log["text"] = 0 THEN [a EXCEPT !.kind = "aborted"] ELSE a)
      <4>1. PICK z : z = IF a.log["text"] = 0 THEN [a EXCEPT !.kind = "aborted"] ELSE a
        OBVIOUS
      <4>2. z.steps = a.steps /\ z.ended = a.ended /\ z.status = a.status /\ z.log = a.log
        BY <3>3, <3>4, <4>1 DEF Answers
      <4>3. \A q \in Parts : z.log[q] = IF q = p THEN rec[poll[c].b].log[q] ELSE got[c].log[q]
        BY <3>3, <3>5, <4>2 DEF Words
      <4>4. \A q \in Parts : last[c].log[q] <= z.log[q]
        BY <2>0, <2>t, <3>1, <3>3, <3>6, <4>3 DEF PollSound, Within
      <4> QED
        BY <2>0, <2>2, <2>t, <3>1, <3>5, <3>6, <4>1, <4>2, <4>4 DEF PollSound
    <3> QED
      BY <2>1, <3>2, <3>6
  <2>6. ASSUME NEW d \in Pollers, d # c, Lookup(d) \/ Encode(d) PROVE last'[c] = last[c]
    BY <2>6 DEF Lookup, Encode, ReadStatus, ReadEnded, ReadSteps, ReadEmpty, ReadLog, Answered, TypeOK
  <2>7. CASE ReadStatus(c) \/ ReadEnded(c) \/ ReadSteps(c)
    BY <2>1, <2>7 DEF ReadStatus, ReadEnded, ReadSteps
  <2>8. CASE Restart \/ \E b \in Builds : Run(b) \/ Work(b)
    BY <2>1, <2>8 DEF Restart, Run, Work, Enter, StoreRunning, StoreSteps, StoreLog, StoreCompleted,
                      StoreEnded
  <2>9. CASE UNCHANGED vars
    BY <2>1, <2>9 DEF vars
  <2> QED
    BY <2>1, <2>3, <2>4, <2>5, <2>6, <2>7, <2>8, <2>9 DEF Next, Encode
<1> QED
  BY <1>1, BuildTypeCorrect, RecordsStaySound, PollsStaySound, PTL DEF Spec, PollsNeverGoBack
=============================================================================
