--------------------------- MODULE OverrideProofs ---------------------------
(***************************************************************************)
(* Proofs about overrides: their tokens and those of the api-server        *)
(* (DeployTokens), for every set of workspaces, tokens and requests,       *)
(* however time passes and however often redis loses its keys; and their   *)
(* signatures (HmacNonce), for every set of calls and stamps and for a     *)
(* clock observed at any milliseconds.                                     *)
(***************************************************************************)
EXTENDS Overrides, Sequences, TLAPS


\* Every variable of the token store keeps its type; what a fetch tells is a
\* token, never the absence of one.
THEOREM DeployTypeCorrect == Spec => []TypeOK
<1> USE DeployAssumption
<1>1. Init => TypeOK
  <2> SUFFICES ASSUME Init PROVE TypeOK
    OBVIOUS
  <2>1. issue \in [Issues -> IssueState] /\ use \in [Uses -> UseState]
    BY DEF Init, IssueState, UseState
  <2> QED
    BY <2>1 DEF Init, TypeOK, Results, NoResult
<1>2. TypeOK /\ [Next]_vars => TypeOK'
  <2> SUFFICES ASSUME TypeOK, [Next]_vars PROVE TypeOK'
    OBVIOUS
  <2> USE DEF TypeOK
  <2>0. \A n \in Nat : n + 3 \in Nat /\ n + 30 \in Nat
    OBVIOUS
  <2>1. ASSUME NEW i \in Issues, IssueCheck(i) \/ IssueFails(i) PROVE TypeOK'
    <3>1. issue' \in [Issues -> IssueState]
      BY <2>1 DEF IssueCheck, IssueFails, IssueGoto, IssueState
    <3> QED
      BY <2>1, <3>1 DEF IssueCheck, IssueFails
  <2>2. ASSUME NEW i \in Issues, ReadSeal(i) PROVE TypeOK'
    <3>1. issue[i].ws \in Workspaces
      BY DEF IssueState
    <3>2. issue' \in [Issues -> IssueState]
      <4>1. PICK pc \in {"plant", "token"}, s \in Issues \cup {None} :
               issue' = [issue EXCEPT ![i] = [issue[i] EXCEPT !.pc = pc, !.mine = s]]
        BY <2>2, <3>1 DEF ReadSeal
      <4>2. [issue[i] EXCEPT !.pc = pc, !.mine = s] \in IssueState
        BY DEF IssueState
      <4> QED
        BY <4>1, <4>2
    <3> QED
      BY <2>2, <3>2 DEF ReadSeal
  <2>3. ASSUME NEW i \in Issues, PlantSeal(i) PROVE TypeOK'
    <3>1. issue' \in [Issues -> IssueState]
      BY <2>3 DEF PlantSeal, IssueGoto, IssueState
    <3> QED
      BY <2>3, <3>1 DEF PlantSeal
  <2>4. ASSUME NEW i \in Issues, StoreToken(i) PROVE TypeOK'
    <3> DEFINE next == IF issue[i].kind = "override" THEN "publish" ELSE "reply"
    <3>0. next \in {"publish", "reply"}
      OBVIOUS
    <3> HIDE DEF next
    <3>4. [issue[i] EXCEPT !.pc = next, !.stored = TRUE] \in IssueState
      BY <3>0 DEF IssueState
    <3>5. issue' = [issue EXCEPT ![i] = [issue[i] EXCEPT !.pc = next, !.stored = TRUE]]
      BY <2>4 DEF StoreToken, next
    <3>1. issue' \in [Issues -> IssueState]
      BY <3>4, <3>5
    <3>2. clock + Ttl[issue[i].kind] \in Nat
      BY <2>0 DEF Ttl, IssueState, Kinds
    <3> QED
      BY <2>4, <3>1, <3>2 DEF StoreToken
  <2>5. ASSUME NEW i \in Issues, Publish(i) PROVE TypeOK'
    <3>1. issue' \in [Issues -> IssueState]
      BY <2>5 DEF Publish, IssueGoto, IssueState
    <3>2. [of |-> i, until |-> clock + ResultTtl] \in Results
      BY <2>0 DEF Results, ResultTtl
    <3> QED
      BY <2>5, <3>1, <3>2 DEF Publish
  <2>6. ASSUME NEW i \in Issues, IssueReply(i) PROVE TypeOK'
    <3>1. issue' \in [Issues -> IssueState]
      BY <2>6 DEF IssueReply, IssueGoto, IssueState
    <3> QED
      BY <2>6, <3>1 DEF IssueReply
  <2>7. ASSUME NEW u \in Uses, UseBegin(u) \/ UseGet(u) \/ UseDel(u) \/ UseReply(u) \/ UseFails(u)
        PROVE  TypeOK'
    <3>1. use[u].token \in Issues
      BY DEF UseState
    <3>2. \/ \E pc \in {"seal", "get", "del", "reply"} : use' = [use EXCEPT ![u].pc = pc]
          \/ \E a \in {"valid", "404", "500"} :
                use' = [use EXCEPT ![u] = [@ EXCEPT !.pc = "done", !.answer = a]]
      BY <2>7 DEF UseBegin, UseGet, UseDel, UseReply, UseFails, UseGoto
    <3>3. use' \in [Uses -> UseState]
      <4>1. \A pc \in {"seal", "get", "del", "reply"} : [use[u] EXCEPT !.pc = pc] \in UseState
        BY DEF UseState
      <4>2. \A a \in {"valid", "404", "500"} : [use[u] EXCEPT !.pc = "done", !.answer = a] \in UseState
        BY DEF UseState
      <4> QED
        BY <3>2, <4>1, <4>2
    <3>4. until' \in [Issues -> Nat] /\ admitted' \subseteq Uses \X Issues
      BY <2>7, <3>1 DEF UseBegin, UseGet, UseDel, UseReply, UseFails
    <3> QED
      BY <2>7, <3>3, <3>4 DEF UseBegin, UseGet, UseDel, UseReply, UseFails
  <2>8. ASSUME NEW u \in Uses, UseSeal(u) PROVE TypeOK'
    <3>1. use[u].ws \in Workspaces
      BY DEF UseState
    <3>2. use' \in [Uses -> UseState]
      BY <2>8, <3>1 DEF UseSeal, UseState
    <3> QED
      BY <2>8, <3>2 DEF UseSeal
  <2>9. ASSUME NEW w \in Workspaces, FetchResult(w) PROVE TypeOK'
    <3>1. result[w].of \in Issues
      BY <2>9 DEF FetchResult, Results, NoResult
    <3> QED
      BY <2>9, <3>1 DEF FetchResult
  <2>10. CASE Flush
    <3>1. issue' \in [Issues -> IssueState]
      BY <2>10 DEF Flush, IssueState
    <3> QED
      BY <2>10, <3>1 DEF Flush, Results
  <2>11. CASE Tick
    BY <2>11 DEF Tick
  <2>12. CASE UNCHANGED vars
    BY <2>12 DEF vars
  <2> QED
    BY <2>1, <2>2, <2>3, <2>4, <2>5, <2>6, <2>7, <2>8, <2>9, <2>10, <2>11, <2>12
       DEF Next, IssueStep, UseStep
<1> QED
  BY <1>1, <1>2, PTL DEF Spec

-----------------------------------------------------------------------------
(* The inductive invariant.                                                 *)

InEngine(i) == issue[i].kind = "override" /\ issue[i].pc \in {"seal", "plant", "token", "publish"}

\* The engine serves one override at a time.
OneOverride == \A i, j \in Issues : InEngine(i) /\ InEngine(j) => i = j

\* Which tokens are stored, where a request is.
StoredByNow ==
    \A i \in Issues :
        /\ issue[i].pc \in {"idle", "seal", "plant", "token"} => ~issue[i].stored
        /\ issue[i].pc \in {"publish", "reply"} => issue[i].stored
        /\ issue[i].pc \in {"seal", "plant", "publish"} => issue[i].kind = "override"
        /\ until[i] # 0 => issue[i].stored

\* A token that was told is stored: by its own request, or in a result.
ToldIsStored ==
    /\ \A i \in known : issue[i].stored
    /\ \A w \in Workspaces :
          result[w].until # 0 => result[w].of \in Issues /\ issue[result[w].of].stored
    /\ \A u \in Uses : use[u].pc # "idle" => use[u].token \in known

\* As long as a token is in redis, so is the seal it goes with.
SealKept ==
    \A i \in Issues : issue[i].kind = "override" =>
        /\ issue[i].pc = "plant" => issue[i].mine = i /\ seal[issue[i].ws] = None
        /\ issue[i].pc = "token" \/ until[i] # 0 =>
              \/ issue[i].torn
              \/ issue[i].mine = seal[issue[i].ws] /\ issue[i].mine # None

\* A use has read the seal of its token, if the token is still there or it saw it.
SealRead ==
    \A u \in Uses :
        LET i == issue[use[u].token] IN
        use[u].action = "seal" /\ i.kind = "override" /\ ~i.torn =>
            /\ use[u].pc = "get" /\ Present(use[u].ws, use[u].token) => use[u].got = i.mine
            /\ use[u].pc \in {"del", "reply"} \/ use[u].answer = "valid" => use[u].got = i.mine

\* A use that is past DEL has left no token behind.
Spent ==
    \A u \in Uses :
        /\ use[u].answer # "none" => use[u].pc = "done"
        /\ use[u].pc = "reply" \/ use[u].answer = "valid" => until[use[u].token] = 0
        /\ use[u].pc \in {"del", "reply"} => <<u, use[u].token>> \in admitted

DInv == OneOverride /\ StoredByNow /\ ToldIsStored /\ SealKept /\ SealRead /\ Spent
-----------------------------------------------------------------------------
\* What any step of the request i leaves alone.
OnlyIssue(i) ==
    /\ \A j \in Issues : j # i => issue'[j] = issue[j]
    /\ issue'[i].kind = issue[i].kind /\ issue'[i].ws = issue[i].ws /\ issue'[i].torn = issue[i].torn
    /\ UNCHANGED <<clock, use, admitted, epoch>>

\* What any step of the use u leaves alone.
OnlyUse(u) ==
    /\ \A v \in Uses : v # u => use'[v] = use[v]
    /\ use'[u].token = use[u].token /\ use'[u].ws = use[u].ws /\ use'[u].action = use[u].action
    /\ UNCHANGED <<clock, seal, result, known, issue, epoch>>

\* The conjuncts of DInv support each other: the engine serves one override at a
\* time, so nobody plants a second seal while a token still goes with the first.
LEMMA DeployInvariant == Spec => []DInv
<1> USE DeployAssumption
<1>1. Init => DInv
  <2> SUFFICES ASSUME Init PROVE DInv
    OBVIOUS
  <2>1. \A i \in Issues : issue[i].pc = "idle" /\ ~issue[i].stored /\ until[i] = 0
    BY DEF Init
  <2>2. \A u \in Uses : use[u].pc = "idle" /\ use[u].answer = "none"
    BY DEF Init
  <2>3. known = {} /\ \A w \in Workspaces : result[w].until = 0
    BY DEF Init, NoResult
  <2> QED
    BY <2>1, <2>2, <2>3 DEF DInv, OneOverride, InEngine, StoredByNow, ToldIsStored, SealKept,
                            SealRead, Spent
<1>2. TypeOK /\ DInv /\ [Next]_vars => DInv'
  <2> SUFFICES ASSUME TypeOK, DInv, [Next]_vars PROVE DInv'
    OBVIOUS
  <2>0. /\ clock \in Nat /\ until \in [Issues -> Nat] /\ known \subseteq Issues
        /\ seal \in [Workspaces -> Issues \cup {None}] /\ result \in [Workspaces -> Results]
        /\ issue \in [Issues -> IssueState] /\ use \in [Uses -> UseState]
        /\ \A j \in Issues : issue[j].ws \in Workspaces /\ issue[j].stored \in BOOLEAN
        /\ \A v \in Uses : use[v].token \in Issues /\ use[v].ws \in Workspaces
    BY DEF TypeOK, IssueState, UseState
  <2> USE <2>0 DEF DInv
  <2>1. ASSUME NEW i \in Issues, IssueCheck(i) PROVE DInv'
    <3>0. /\ OnlyIssue(i) /\ UNCHANGED <<seal, until, result, known>>
          /\ issue'[i].pc \in {"done", "seal", "token"}
          /\ issue'[i].pc = "seal" => issue[i].kind = "override"
          /\ issue'[i].pc = "token" => issue[i].kind # "override"
          /\ issue'[i].mine = issue[i].mine /\ issue'[i].stored = issue[i].stored
          /\ issue[i].pc = "idle"
      BY <2>1 DEF IssueCheck, IssueGoto, OnlyIssue, IssueState
    <3>7. issue[i].kind = "override" => \A j \in Issues : ~InEngine(j)
      BY <2>1 DEF IssueCheck, Busy, InEngine
    <3> USE DEF OnlyIssue
    <3>1. OneOverride'
      BY <3>0, <3>7 DEF OneOverride, InEngine
    <3>2. StoredByNow'
      BY <3>0 DEF StoredByNow
    <3>3. ToldIsStored'
      BY <3>0 DEF ToldIsStored
    <3>4. SealKept'
      BY <3>0 DEF SealKept
    <3>5. SealRead'
      BY <3>0 DEF SealRead, Present
    <3>6. Spent'
      BY <3>0 DEF Spent
    <3> QED
      BY <3>1, <3>2, <3>3, <3>4, <3>5, <3>6 DEF DInv
  <2>2. ASSUME NEW i \in Issues, IssueFails(i) PROVE DInv'
    <3>0. /\ OnlyIssue(i) /\ UNCHANGED <<seal, until, result, known>>
          /\ issue'[i].pc = "done"
          /\ issue'[i].mine = issue[i].mine /\ issue'[i].stored = issue[i].stored
      BY <2>2 DEF IssueFails, IssueGoto, OnlyIssue, IssueState
    <3> USE DEF OnlyIssue
    <3>1. OneOverride'
      BY <3>0 DEF OneOverride, InEngine
    <3>2. StoredByNow'
      BY <3>0 DEF StoredByNow
    <3>3. ToldIsStored'
      BY <3>0 DEF ToldIsStored
    <3>4. SealKept'
      BY <3>0 DEF SealKept
    <3>5. SealRead'
      BY <3>0 DEF SealRead, Present
    <3>6. Spent'
      BY <3>0 DEF Spent
    <3> QED
      BY <3>1, <3>2, <3>3, <3>4, <3>5, <3>6 DEF DInv
  <2>3. ASSUME NEW i \in Issues, ReadSeal(i) PROVE DInv'
    <3>0. /\ OnlyIssue(i) /\ UNCHANGED <<seal, until, result, known>>
          /\ issue[i].pc = "seal" /\ issue'[i].stored = issue[i].stored
          /\ issue'[i].pc \in {"plant", "token"}
          /\ issue'[i].pc = "plant" => seal[issue[i].ws] = None /\ issue'[i].mine = i
          /\ issue'[i].pc = "token" => seal[issue[i].ws] # None /\ issue'[i].mine = seal[issue[i].ws]
      BY <2>3 DEF ReadSeal, OnlyIssue, IssueState
    <3>7. issue[i].kind = "override" /\ ~issue[i].stored /\ until[i] = 0
      BY <3>0 DEF StoredByNow
    <3> USE DEF OnlyIssue
    <3>1. OneOverride'
      BY <3>0, <3>7 DEF OneOverride, InEngine
    <3>2. StoredByNow'
      BY <3>0, <3>7 DEF StoredByNow
    <3>3. ToldIsStored'
      BY <3>0, <3>7 DEF ToldIsStored
    <3>4. SealKept'
      BY <3>0, <3>7 DEF SealKept
    <3>5. SealRead'
      <4>1. \A u \in Uses : use[u].pc # "idle" => use[u].token # i
        BY <3>7 DEF ToldIsStored
      <4>2. \A u \in Uses : use[u].answer # "none" => use[u].pc = "done"
        BY DEF Spent
      <4>3. \A u \in Uses : use[u].pc # "idle" => issue'[use[u].token] = issue[use[u].token]
        BY <3>0, <4>1
      <4> SUFFICES ASSUME NEW u \in Uses, use[u].action = "seal",
                          issue'[use[u].token].kind = "override", ~issue'[use[u].token].torn
                   PROVE  /\ use[u].pc = "get" /\ Present(use[u].ws, use[u].token)' =>
                                use[u].got = issue'[use[u].token].mine
                          /\ use[u].pc \in {"del", "reply"} \/ use[u].answer = "valid" =>
                                use[u].got = issue'[use[u].token].mine
        BY <3>0 DEF SealRead
      <4>4. CASE use[u].pc = "idle"
        BY <4>2, <4>4
      <4>5. CASE use[u].pc # "idle"
        BY <3>0, <4>3, <4>5 DEF SealRead, Present
      <4> QED
        BY <4>4, <4>5
    <3>6. Spent'
      BY <3>0, <3>7 DEF Spent
    <3> QED
      BY <3>1, <3>2, <3>3, <3>4, <3>5, <3>6 DEF DInv
  <2>4. ASSUME NEW i \in Issues, PlantSeal(i) PROVE DInv'
    <3>0. /\ OnlyIssue(i) /\ UNCHANGED <<until, result, known>>
          /\ issue[i].pc = "plant" /\ issue'[i].pc = "token"
          /\ issue'[i].mine = issue[i].mine /\ issue'[i].stored = issue[i].stored
          /\ seal' = [seal EXCEPT ![issue[i].ws] = i]
      BY <2>4 DEF PlantSeal, IssueGoto, OnlyIssue, IssueState
    <3>7. issue[i].kind = "override" /\ ~issue[i].stored /\ until[i] = 0
      BY <3>0 DEF StoredByNow
    <3>8. issue[i].mine = i /\ i # None /\ seal[issue[i].ws] = None
      BY <3>0, <3>7 DEF SealKept
    <3>9. \A j \in Issues : j # i => ~InEngine(j)
      BY <3>0, <3>7 DEF OneOverride, InEngine
    <3> USE DEF OnlyIssue
    <3>1. OneOverride'
      BY <3>0, <3>7 DEF OneOverride, InEngine
    <3>2. StoredByNow'
      BY <3>0, <3>7 DEF StoredByNow
    <3>3. ToldIsStored'
      BY <3>0, <3>7 DEF ToldIsStored
    <3>4. SealKept'
      BY <3>0, <3>7, <3>8, <3>9 DEF SealKept, InEngine
    <3>5. SealRead'
      BY <3>0, <3>7 DEF SealRead, Present
    <3>6. Spent'
      BY <3>0, <3>7 DEF Spent
    <3> QED
      BY <3>1, <3>2, <3>3, <3>4, <3>5, <3>6 DEF DInv
  <2>5. ASSUME NEW i \in Issues, StoreToken(i) PROVE DInv'
    <3>0. /\ OnlyIssue(i) /\ UNCHANGED <<seal, result, known>>
          /\ issue[i].pc = "token"
          /\ issue'[i].pc = IF issue[i].kind = "override" THEN "publish" ELSE "reply"
          /\ issue'[i].mine = issue[i].mine /\ issue'[i].stored
          /\ \A j \in Issues : j # i => until'[j] = until[j]
      BY <2>5 DEF StoreToken, OnlyIssue, IssueState
    <3>7. ~issue[i].stored /\ i \notin known
      BY <3>0 DEF StoredByNow, ToldIsStored
    <3>8. \A u \in Uses : use[u].pc # "idle" \/ use[u].answer # "none" => use[u].token # i
      BY <3>7 DEF ToldIsStored, Spent
    <3> USE DEF OnlyIssue
    <3>1. OneOverride'
      BY <3>0, <3>7 DEF OneOverride, InEngine
    <3>2. StoredByNow'
      BY <3>0, <3>7 DEF StoredByNow
    <3>3. ToldIsStored'
      BY <3>0, <3>7 DEF ToldIsStored
    <3>4. SealKept'
      BY <3>0, <3>7 DEF SealKept
    <3>5. SealRead'
      BY <3>0, <3>8 DEF SealRead, Present, Spent
    <3>6. Spent'
      BY <3>0, <3>8 DEF Spent
    <3> QED
      BY <3>1, <3>2, <3>3, <3>4, <3>5, <3>6 DEF DInv
  <2>6. ASSUME NEW i \in Issues, Publish(i) PROVE DInv'
    <3>0. /\ OnlyIssue(i) /\ UNCHANGED <<seal, until, known>>
          /\ issue[i].pc = "publish" /\ issue'[i].pc = "reply"
          /\ issue'[i].mine = issue[i].mine /\ issue'[i].stored = issue[i].stored
          /\ result'[issue[i].ws].of = i
          /\ \A w \in Workspaces : w # issue[i].ws => result'[w] = result[w]
      BY <2>6 DEF Publish, IssueGoto, OnlyIssue, IssueState
    <3>7. issue[i].stored
      BY <3>0 DEF StoredByNow
    <3> USE DEF OnlyIssue
    <3>1. OneOverride'
      BY <3>0, <3>7 DEF OneOverride, InEngine
    <3>2. StoredByNow'
      BY <3>0, <3>7 DEF StoredByNow
    <3>3. ToldIsStored'
      <4>1. \A j \in Issues : issue'[j].stored = issue[j].stored
        BY <3>0
      <4>2. \A j \in known : issue'[j].stored
        BY <4>1 DEF ToldIsStored
      <4>3. ASSUME NEW w \in Workspaces, result'[w].until # 0
            PROVE  result'[w].of \in Issues /\ issue'[result'[w].of].stored
        <5>1. CASE w = issue[i].ws
          BY <3>0, <3>7, <4>1, <5>1
        <5>2. CASE w # issue[i].ws
          <6>1. result'[w] = result[w]
            BY <3>0, <5>2
          <6> QED
            BY <4>1, <4>3, <6>1 DEF ToldIsStored
        <5> QED
          BY <5>1, <5>2
      <4>4. \A u \in Uses : use[u].pc # "idle" => use[u].token \in known
        BY DEF ToldIsStored
      <4> QED
        BY <3>0, <4>2, <4>3, <4>4 DEF ToldIsStored
    <3>4. SealKept'
      BY <3>0, <3>7 DEF SealKept
    <3>5. SealRead'
      BY <3>0, <3>7 DEF SealRead, Present
    <3>6. Spent'
      BY <3>0, <3>7 DEF Spent
    <3> QED
      BY <3>1, <3>2, <3>3, <3>4, <3>5, <3>6 DEF DInv
  <2>7. ASSUME NEW i \in Issues, IssueReply(i) PROVE DInv'
    <3>0. /\ OnlyIssue(i) /\ UNCHANGED <<seal, until, result>>
          /\ issue[i].pc = "reply" /\ issue'[i].pc = "done"
          /\ issue'[i].mine = issue[i].mine /\ issue'[i].stored = issue[i].stored
          /\ known' = known \cup {i}
      BY <2>7 DEF IssueReply, IssueGoto, OnlyIssue, IssueState
    <3>7. issue[i].stored
      BY <3>0 DEF StoredByNow
    <3> USE DEF OnlyIssue
    <3>1. OneOverride'
      BY <3>0, <3>7 DEF OneOverride, InEngine
    <3>2. StoredByNow'
      BY <3>0, <3>7 DEF StoredByNow
    <3>3. ToldIsStored'
      BY <3>0, <3>7 DEF ToldIsStored
    <3>4. SealKept'
      BY <3>0, <3>7 DEF SealKept
    <3>5. SealRead'
      BY <3>0, <3>7 DEF SealRead, Present
    <3>6. Spent'
      BY <3>0, <3>7 DEF Spent
    <3> QED
      BY <3>1, <3>2, <3>3, <3>4, <3>5, <3>6 DEF DInv
  <2>8. ASSUME NEW w \in Workspaces, FetchResult(w) PROVE DInv'
    <3>0. /\ UNCHANGED <<clock, seal, until, result, issue, use, admitted, epoch>>
          /\ known' = known \cup {result[w].of} /\ result[w].until # 0
      BY <2>8 DEF FetchResult, Results, NoResult
    <3>1. OneOverride'
      BY <3>0 DEF OneOverride, InEngine
    <3>2. StoredByNow'
      BY <3>0 DEF StoredByNow
    <3>3. ToldIsStored'
      BY <3>0 DEF ToldIsStored
    <3>4. SealKept'
      BY <3>0 DEF SealKept
    <3>5. SealRead'
      BY <3>0 DEF SealRead, Present
    <3>6. Spent'
      BY <3>0 DEF Spent
    <3> QED
      BY <3>1, <3>2, <3>3, <3>4, <3>5, <3>6 DEF DInv
  <2>9. ASSUME NEW u \in Uses, UseBegin(u) PROVE DInv'
    <3>0. /\ OnlyUse(u) /\ UNCHANGED <<until, admitted>>
          /\ use[u].pc = "idle" /\ use[u].token \in known
          /\ use'[u].pc = IF use[u].action = "seal" THEN "seal" ELSE "get"
          /\ use'[u].got = use[u].got /\ use'[u].answer = use[u].answer
      BY <2>9 DEF UseBegin, UseGoto, OnlyUse, UseState
    <3> USE DEF OnlyUse
    <3>1. OneOverride'
      BY <3>0 DEF OneOverride, InEngine
    <3>2. StoredByNow'
      BY <3>0 DEF StoredByNow
    <3>3. ToldIsStored'
      BY <3>0 DEF ToldIsStored
    <3>4. SealKept'
      BY <3>0 DEF SealKept
    <3>5. SealRead'
      BY <3>0 DEF SealRead, Present, Spent
    <3>6. Spent'
      BY <3>0 DEF Spent
    <3> QED
      BY <3>1, <3>2, <3>3, <3>4, <3>5, <3>6 DEF DInv
  <2>10. ASSUME NEW u \in Uses, UseSeal(u) PROVE DInv'
    <3>0. /\ OnlyUse(u) /\ UNCHANGED <<until, admitted>>
          /\ use[u].pc = "seal" /\ use'[u].pc = "get"
          /\ use'[u].got = seal[use[u].ws] /\ use'[u].answer = use[u].answer
      BY <2>10 DEF UseSeal, OnlyUse, UseState
    <3>7. LET i == issue[use[u].token] IN
          i.kind = "override" /\ ~i.torn /\ Present(use[u].ws, use[u].token) => i.mine = seal[use[u].ws]
      BY DEF SealKept, Present
    <3>8. use[u].answer = "none"
      BY <3>0 DEF Spent, UseState
    <3> USE DEF OnlyUse
    <3>1. OneOverride'
      BY <3>0 DEF OneOverride, InEngine
    <3>2. StoredByNow'
      BY <3>0 DEF StoredByNow
    <3>3. ToldIsStored'
      BY <3>0 DEF ToldIsStored
    <3>4. SealKept'
      BY <3>0 DEF SealKept
    <3>5. SealRead'
      BY <3>0, <3>7, <3>8 DEF SealRead, Present
    <3>6. Spent'
      BY <3>0 DEF Spent
    <3> QED
      BY <3>1, <3>2, <3>3, <3>4, <3>5, <3>6 DEF DInv
  <2>11. ASSUME NEW u \in Uses, UseGet(u) PROVE DInv'
    <3>0. /\ OnlyUse(u) /\ UNCHANGED until
          /\ use[u].pc = "get" /\ use'[u].got = use[u].got
          /\ \/ /\ Present(use[u].ws, use[u].token)
                /\ use'[u].pc = "del" /\ use'[u].answer = use[u].answer
                /\ admitted' = admitted \cup {<<u, use[u].token>>}
             \/ use'[u].pc = "done" /\ use'[u].answer = "404" /\ UNCHANGED admitted
      <4>1. use[u].pc = "get" /\ UNCHANGED <<clock, seal, until, result, known, issue, epoch>>
        BY <2>11 DEF UseGet
      <4>2. CASE Present(use[u].ws, use[u].token)
        <5>1. /\ use' = [use EXCEPT ![u].pc = "del"]
              /\ admitted' = admitted \cup {<<u, use[u].token>>}
          BY <2>11, <4>2 DEF UseGet, UseGoto
        <5> QED
          BY <4>1, <4>2, <5>1 DEF OnlyUse, UseState
      <4>3. CASE ~Present(use[u].ws, use[u].token)
        <5>1. /\ use' = [use EXCEPT ![u] = [use[u] EXCEPT !.pc = "done", !.answer = "404"]]
              /\ UNCHANGED admitted
          BY <2>11, <4>3 DEF UseGet
        <5> QED
          BY <4>1, <5>1 DEF OnlyUse, UseState
      <4> QED
        BY <4>2, <4>3
    <3>7. use[u].answer = "none"
      BY <3>0 DEF Spent, UseState
    <3> USE DEF OnlyUse
    <3>1. OneOverride'
      BY <3>0, <3>7 DEF OneOverride, InEngine
    <3>2. StoredByNow'
      BY <3>0, <3>7 DEF StoredByNow
    <3>3. ToldIsStored'
      BY <3>0, <3>7 DEF ToldIsStored
    <3>4. SealKept'
      BY <3>0, <3>7 DEF SealKept
    <3>5. SealRead'
      BY <3>0, <3>7 DEF SealRead, Present
    <3>6. Spent'
      BY <3>0, <3>7 DEF Spent
    <3> QED
      BY <3>1, <3>2, <3>3, <3>4, <3>5, <3>6 DEF DInv
  <2>12. ASSUME NEW u \in Uses, UseDel(u) PROVE DInv'
    <3>0. /\ OnlyUse(u) /\ UNCHANGED admitted
          /\ use[u].pc = "del" /\ use'[u].pc = "reply"
          /\ use'[u].got = use[u].got /\ use'[u].answer = use[u].answer
          /\ until' = [until EXCEPT ![use[u].token] = 0]
      BY <2>12 DEF UseDel, UseGoto, OnlyUse, UseState
    <3>7. use[u].answer = "none"
      BY <3>0 DEF Spent, UseState
    <3>8. \A j \in Issues : until'[j] \in {until[j], 0}
      BY <3>0
    <3>9. until'[use[u].token] = 0
      BY <3>0
    <3> USE DEF OnlyUse
    <3>1. OneOverride'
      BY <3>0, <3>7, <3>8, <3>9 DEF OneOverride, InEngine
    <3>2. StoredByNow'
      BY <3>0, <3>7, <3>8, <3>9 DEF StoredByNow
    <3>3. ToldIsStored'
      BY <3>0, <3>7, <3>8, <3>9 DEF ToldIsStored
    <3>4. SealKept'
      BY <3>0, <3>7, <3>8, <3>9 DEF SealKept
    <3>5. SealRead'
      BY <3>0, <3>7, <3>8, <3>9 DEF SealRead, Present
    <3>6. Spent'
      BY <3>0, <3>7, <3>8, <3>9 DEF Spent
    <3> QED
      BY <3>1, <3>2, <3>3, <3>4, <3>5, <3>6 DEF DInv
  <2>13. ASSUME NEW u \in Uses, UseReply(u) \/ UseFails(u) PROVE DInv'
    <3>0. /\ OnlyUse(u) /\ UNCHANGED <<until, admitted>>
          /\ use[u].pc \notin {"idle", "done"} /\ use'[u].pc = "done" /\ use'[u].got = use[u].got
          /\ \/ use[u].pc = "reply" /\ use'[u].answer = "valid"
             \/ use'[u].answer = "500"
      <4>1. CASE UseReply(u)
        <5>1. use' = [use EXCEPT ![u] = [use[u] EXCEPT !.pc = "done", !.answer = "valid"]]
          BY <4>1 DEF UseReply
        <5>2. use[u].pc = "reply" /\ UNCHANGED <<clock, seal, until, result, known, issue, admitted, epoch>>
          BY <4>1 DEF UseReply
        <5> QED
          BY <5>1, <5>2 DEF OnlyUse, UseState
      <4>2. CASE UseFails(u)
        <5>1. use' = [use EXCEPT ![u] = [use[u] EXCEPT !.pc = "done", !.answer = "500"]]
          BY <4>2 DEF UseFails
        <5>2. /\ use[u].pc \notin {"idle", "done"}
              /\ UNCHANGED <<clock, seal, until, result, known, issue, admitted, epoch>>
          BY <4>2 DEF UseFails
        <5> QED
          BY <5>1, <5>2 DEF OnlyUse, UseState
      <4> QED
        BY <2>13, <4>1, <4>2
    <3> USE DEF OnlyUse
    <3>1. OneOverride'
      BY <3>0 DEF OneOverride, InEngine
    <3>2. StoredByNow'
      BY <3>0 DEF StoredByNow
    <3>3. ToldIsStored'
      BY <3>0 DEF ToldIsStored
    <3>4. SealKept'
      BY <3>0 DEF SealKept
    <3>5. SealRead'
      BY <3>0 DEF SealRead, Present
    <3>6. Spent'
      BY <3>0 DEF Spent
    <3> QED
      BY <3>1, <3>2, <3>3, <3>4, <3>5, <3>6 DEF DInv
  <2>14. CASE Flush
    <3>0. /\ UNCHANGED <<clock, known, use, admitted>>
          /\ \A w \in Workspaces : seal'[w] = None /\ result'[w].until = 0
          /\ \A j \in Issues :
                /\ until'[j] = 0
                /\ issue'[j].kind = issue[j].kind /\ issue'[j].ws = issue[j].ws
                /\ issue'[j].pc = issue[j].pc /\ issue'[j].mine = issue[j].mine
                /\ issue'[j].stored = issue[j].stored
                /\ issue'[j].torn = (issue[j].torn \/ issue[j].pc = "token")
      BY <2>14 DEF Flush, NoResult, IssueState
    <3>7. \A u \in Uses : use[u].pc # "idle" \/ use[u].answer # "none" =>
             issue[use[u].token].pc # "token"
      BY DEF ToldIsStored, Spent, StoredByNow
    <3>1. OneOverride'
      BY <3>0 DEF OneOverride, InEngine
    <3>2. StoredByNow'
      BY <3>0 DEF StoredByNow
    <3>3. ToldIsStored'
      BY <3>0 DEF ToldIsStored
    <3>4. SealKept'
      BY <3>0 DEF SealKept
    <3>5. SealRead'
      <4>1. \A u \in Uses : ~Present(use[u].ws, use[u].token)'
        BY <3>0 DEF Present
      <4>2. \A u \in Uses : use[u].pc # "idle" \/ use[u].answer # "none" =>
               /\ issue'[use[u].token].torn = issue[use[u].token].torn
               /\ issue'[use[u].token].kind = issue[use[u].token].kind
               /\ issue'[use[u].token].mine = issue[use[u].token].mine
        <5> SUFFICES ASSUME NEW u \in Uses, use[u].pc # "idle" \/ use[u].answer # "none"
                     PROVE  /\ issue'[use[u].token].torn = issue[use[u].token].torn
                            /\ issue'[use[u].token].kind = issue[use[u].token].kind
                            /\ issue'[use[u].token].mine = issue[use[u].token].mine
          OBVIOUS
        <5>1. use[u].token \in Issues /\ issue[use[u].token].torn \in BOOLEAN
          BY DEF IssueState
        <5>2. issue[use[u].token].pc # "token"
          BY <3>7
        <5> QED
          BY <3>0, <5>1, <5>2
      <4> QED
        BY <3>0, <4>1, <4>2 DEF SealRead
    <3>6. Spent'
      BY <3>0 DEF Spent
    <3> QED
      BY <3>1, <3>2, <3>3, <3>4, <3>5, <3>6 DEF DInv
  <2>15. CASE Tick
    <3>0. /\ UNCHANGED <<seal, until, result, known, issue, use, admitted, epoch>>
          /\ clock' \in Nat /\ clock < clock'
      BY <2>15 DEF Tick
    <3>1. OneOverride'
      BY <3>0 DEF OneOverride, InEngine
    <3>2. StoredByNow'
      BY <3>0 DEF StoredByNow
    <3>3. ToldIsStored'
      BY <3>0 DEF ToldIsStored
    <3>4. SealKept'
      BY <3>0 DEF SealKept
    <3>5. SealRead'
      BY <3>0 DEF SealRead, Present
    <3>6. Spent'
      BY <3>0 DEF Spent
    <3> QED
      BY <3>1, <3>2, <3>3, <3>4, <3>5, <3>6 DEF DInv
  <2>16. CASE UNCHANGED vars
    BY <2>16 DEF vars, OneOverride, InEngine, StoredByNow, ToldIsStored, SealKept, SealRead, Present, Spent
  <2> QED
    BY <2>1, <2>2, <2>3, <2>4, <2>5, <2>6, <2>7, <2>8, <2>9, <2>10, <2>11, <2>12, <2>13, <2>14, <2>15, <2>16
       DEF Next, IssueStep, UseStep
<1> QED
  BY <1>1, <1>2, DeployTypeCorrect, PTL DEF Spec

-----------------------------------------------------------------------------
(* The theorems.                                                            *)

\* What use-token hands out with the token of an override opens its secret.
THEOREM SealFits == Spec => []SealOpensSecret
<1>1. DInv => SealOpensSecret
  BY DEF DInv, SealRead, SealOpensSecret
<1> QED
  BY <1>1, DeployInvariant, PTL

\* A token that was answered valid is found by no later request.
THEOREM ValidStaysSpent == Spec => ValidIsSpent
<1>1. TypeOK /\ DInv /\ [Next]_vars =>
        [\A u, v \in Uses :
            use[u].answer = "valid" /\ use[u].token = use[v].token =>
               ~(use[v].pc = "get" /\ use'[v].pc = "del")]_vars
  <2> SUFFICES ASSUME TypeOK, DInv, Next, NEW u \in Uses, NEW v \in Uses,
                      use[u].answer = "valid", use[u].token = use[v].token,
                      use[v].pc = "get", use'[v].pc = "del"
               PROVE  FALSE
    BY DEF vars
  <2>0. use \in [Uses -> UseState]
    BY DEF TypeOK
  <2>1. until[use[v].token] = 0
    BY DEF DInv, Spent
  <2>2. ~Present(use[v].ws, use[v].token)
    BY <2>1 DEF TypeOK, Present
  <2>3. UseGet(v)
    <3>1. use' # use
      OBVIOUS
    <3>2. PICK x \in Uses : UseStep(x)
      BY <3>1 DEF Next, IssueStep, IssueCheck, ReadSeal, PlantSeal, StoreToken, Publish, IssueReply,
                  IssueFails, FetchResult, Flush, Tick
    <3>3. x = v
      BY <3>2, <2>0 DEF UseStep, UseBegin, UseSeal, UseGet, UseDel, UseReply, UseFails, UseGoto
    <3> QED
      <4>1. ~UseFails(v)
        <5> SUFFICES ASSUME UseFails(v) PROVE FALSE
          OBVIOUS
        <5>1. use'[v] = [use[v] EXCEPT !.pc = "done", !.answer = "500"]
          BY <2>0 DEF UseFails
        <5> QED
          BY <2>0, <5>1 DEF UseState
      <4> QED
        BY <3>2, <3>3, <4>1 DEF UseStep, UseBegin, UseSeal, UseDel, UseReply
  <2>4. use'[v] = [use[v] EXCEPT !.pc = "done", !.answer = "404"]
    BY <2>0, <2>2, <2>3 DEF UseGet
  <2> QED
    BY <2>0, <2>4 DEF UseState
<1> QED
  BY <1>1, DeployTypeCorrect, DeployInvariant, PTL DEF ValidIsSpent, Spec

\* DeployTokens implements TicketPromise, with tokens for tickets: stored once and
\* gone once, and valid only to a use that found it.
THEOREM DeployKeepsPromise == Spec => KeepsPromise
<1> USE DeployAssumption
<1>1. Init => Promise!Init
  <2> SUFFICES ASSUME Init PROVE Promise!Init
    OBVIOUS
  <2>1. \A i \in Issues : Ticket(i) = "none"
    <3>1. \A i \in Issues : clock = 0 /\ until[i] = 0 /\ issue[i].stored = FALSE
      BY DEF Init
    <3>2. ~(0 < 0)
      OBVIOUS
    <3> QED
      BY <3>1, <3>2, Zenon DEF Ticket
  <2>2. Told = {} /\ admitted = {}
    BY DEF Init, Told
  <2> QED
    BY <2>1, <2>2 DEF Promise!Init
<1>2. TypeOK /\ DInv /\ [Next]_vars => [Promise!Next]_(Promise!vars)
  <2> SUFFICES ASSUME TypeOK, DInv, [Next]_vars PROVE [Promise!Next]_(Promise!vars)
    OBVIOUS
  <2>0. /\ clock \in Nat /\ until \in [Issues -> Nat]
        /\ issue \in [Issues -> IssueState] /\ use \in [Uses -> UseState]
        /\ \A v \in Uses : use[v].token \in Issues
    BY DEF TypeOK, UseState
  <2> USE <2>0
  <2>1. ASSUME NEW i \in Issues,
               \/ IssueCheck(i) \/ IssueFails(i) \/ ReadSeal(i) \/ PlantSeal(i) \/ Publish(i) \/ IssueReply(i)
        PROVE  UNCHANGED Promise!vars
    <3>1. \A j \in Issues : issue'[j].stored = issue[j].stored
      <4>1. CASE ReadSeal(i)
        <5>1. PICK p, m : issue' = [issue EXCEPT ![i] = [issue[i] EXCEPT !.pc = p, !.mine = m]]
          BY <4>1 DEF ReadSeal
        <5> QED
          BY <5>1 DEF IssueState
      <4>2. CASE ~ReadSeal(i)
        <5>1. PICK p : IssueGoto(i, p)
          BY <2>1, <4>2 DEF IssueCheck, IssueFails, PlantSeal, Publish, IssueReply
        <5> QED
          BY <5>1 DEF IssueGoto, IssueState
      <4> QED
        BY <4>1, <4>2
    <3>2. UNCHANGED <<clock, until, use, admitted>>
      BY <2>1 DEF IssueCheck, IssueFails, ReadSeal, PlantSeal, Publish, IssueReply
    <3> QED
      BY <3>1, <3>2 DEF Promise!vars, Ticket, Told
  <2>2. ASSUME NEW i \in Issues, StoreToken(i) PROVE Promise!Open(i)
    <3>1. ~issue[i].stored /\ until[i] = 0
      BY <2>2 DEF StoreToken, DInv, StoredByNow
    <3>2. issue[i].kind \in Kinds
      BY DEF IssueState
    <3>3. clock < until'[i]
      BY <2>2, <3>2 DEF StoreToken, Ttl, Kinds
    <3>4. Ticket(i) = "none" /\ Ticket(i)' = "open"
      BY <2>2, <3>1, <3>3 DEF StoreToken, Ticket
    <3>5. \A j \in Issues : j # i => Ticket(j)' = Ticket(j)
      BY <2>2 DEF StoreToken, Ticket
    <3>6. UNCHANGED <<Told, admitted>>
      BY <2>2 DEF StoreToken, Told
    <3> QED
      BY <3>4, <3>5, <3>6 DEF Promise!Open
  <2>3. ASSUME NEW u \in Uses, UseBegin(u) \/ UseSeal(u) \/ UseFails(u) PROVE UNCHANGED Promise!vars
    <3>1. \A v \in Uses : use'[v].answer = "valid" <=> use[v].answer = "valid"
      <4>1. use[u].answer = "none"
        BY <2>3 DEF UseBegin, UseSeal, UseFails, DInv, Spent, UseState
      <4> QED
        BY <2>3, <4>1 DEF UseBegin, UseSeal, UseFails, UseGoto, UseState
    <3>2. UNCHANGED <<clock, until, issue, admitted>>
      BY <2>3 DEF UseBegin, UseSeal, UseFails
    <3> QED
      BY <3>1, <3>2 DEF Promise!vars, Ticket, Told
  <2>4. ASSUME NEW u \in Uses, UseGet(u) PROVE Promise!Admit(u, use[u].token) \/ UNCHANGED Promise!vars
    <3>1. \A v \in Uses : use'[v].answer = "valid" <=> use[v].answer = "valid"
      <4>1. use[u].answer = "none"
        BY <2>4 DEF UseGet, DInv, Spent, UseState
      <4> QED
        BY <2>4, <4>1 DEF UseGet, UseGoto, UseState
    <3>2. UNCHANGED <<clock, until, issue>>
      BY <2>4 DEF UseGet
    <3>3. UNCHANGED <<Told, [j \in Issues |-> Ticket(j)]>>
      BY <3>1, <3>2 DEF Ticket, Told
    <3>4. CASE UNCHANGED admitted
      BY <3>3, <3>4 DEF Promise!vars
    <3>5. CASE /\ Present(use[u].ws, use[u].token)
               /\ admitted' = admitted \cup {<<u, use[u].token>>}
      BY <3>3, <3>5 DEF Promise!Admit, Present, Ticket
    <3> QED
      BY <2>4, <3>4, <3>5 DEF UseGet
  <2>5. ASSUME NEW u \in Uses, UseDel(u) PROVE \E T \in SUBSET Issues : Promise!Close(T)
    <3>0. PICK t \in Issues : t = use[u].token
      OBVIOUS
    <3> DEFINE T == {j \in {t} : clock < until[j]}
    <3>1. \A v \in Uses : use'[v].answer = use[v].answer
      BY <2>5 DEF UseDel, UseGoto, UseState
    <3>2. UNCHANGED <<clock, issue, admitted>> /\ until' = [until EXCEPT ![t] = 0]
      BY <2>5, <3>0 DEF UseDel
    <3>3. \A j \in Issues : j # t => Ticket(j)' = Ticket(j)
      BY <3>2 DEF Ticket
    <3>4. issue[t].stored
      BY <2>5, <3>0 DEF UseDel, DInv, ToldIsStored
    <3>5. Ticket(t)' = "closed" /\ Ticket(t) = IF t \in T THEN "open" ELSE "closed"
      <4>1. t \in Issues /\ until'[t] = 0 /\ clock' = clock /\ issue'[t] = issue[t]
        BY <3>2
      <4>2. Ticket(t)' = "closed"
        BY <3>4, <4>1 DEF Ticket
      <4>3. Ticket(t) = IF t \in T THEN "open" ELSE "closed"
        BY <3>4 DEF Ticket
      <4> QED
        BY <4>2, <4>3
    <3>6. T \in SUBSET Issues
      OBVIOUS
    <3>7. \A j \in Issues : Ticket(j)' = IF j \in T THEN "closed" ELSE Ticket(j)
      <4> SUFFICES ASSUME NEW j \in Issues
                   PROVE  Ticket(j)' = IF j \in T THEN "closed" ELSE Ticket(j)
        OBVIOUS
      <4>1. CASE j = t
        BY <3>5, <4>1
      <4>2. CASE j # t
        <5>1. j \notin T
          BY <4>2
        <5> QED
          BY <3>3, <4>2, <5>1
      <4> QED
        BY <4>1, <4>2
    <3>8. \A j \in T : Ticket(j) = "open"
      BY DEF Ticket
    <3> HIDE DEF T
    <3>9. Promise!Close(T)
      BY <3>1, <3>2, <3>6, <3>7, <3>8 DEF Promise!Close, Told
    <3> QED
      BY <3>6, <3>9
  <2>6. ASSUME NEW u \in Uses, UseReply(u) PROVE Promise!Use(u)
    <3>1. <<u, use[u].token>> \in admitted
      BY <2>6 DEF UseReply, DInv, Spent
    <3>2. u \notin Told
      BY <2>6 DEF UseReply, DInv, Spent, Told
    <3>3. Told' = Told \cup {u}
      BY <2>6 DEF UseReply, Told, UseState
    <3>4. UNCHANGED <<admitted, [j \in Issues |-> Ticket(j)]>>
      BY <2>6 DEF UseReply, Ticket
    <3> QED
      BY <3>1, <3>2, <3>3, <3>4 DEF Promise!Use
  <2>7. ASSUME NEW w \in Workspaces, FetchResult(w) PROVE UNCHANGED Promise!vars
    BY <2>7 DEF FetchResult, Promise!vars, Ticket, Told
  <2>8. CASE Flush \/ Tick
    <3> DEFINE T == {j \in Issues : Ticket(j) = "open" /\ Ticket(j)' # "open"}
    <3>1. \A j \in Issues : /\ issue'[j].stored = issue[j].stored
                            /\ clock <= clock' /\ clock' \in Nat /\ until'[j] \in {until[j], 0}
                            /\ until[j] # 0 => issue[j].stored
      BY <2>8 DEF Flush, Tick, IssueState, DInv, StoredByNow
    <3>2. \A j \in Issues : Ticket(j)' = IF j \in T THEN "closed" ELSE Ticket(j)
      BY <3>1 DEF Ticket
    <3>3. UNCHANGED <<Told, admitted>>
      BY <2>8 DEF Flush, Tick, Told
    <3>4. Promise!Close(T)
      BY <3>2, <3>3 DEF Promise!Close
    <3>5. T \in SUBSET Issues
      OBVIOUS
    <3> QED
      BY <3>4, <3>5 DEF Promise!Next
  <2>9. CASE UNCHANGED vars
    BY <2>9 DEF vars, Promise!vars, Ticket, Told
  <2> QED
    BY <2>1, <2>2, <2>3, <2>4, <2>5, <2>6, <2>7, <2>8, <2>9 DEF Next, IssueStep, UseStep, Promise!Next
<1> QED
  BY <1>1, <1>2, DeployTypeCorrect, DeployInvariant, PTL DEF Spec, KeepsPromise, Promise!Spec

-----------------------------------------------------------------------------
(* The signatures                                                          *)

\* What an answer adds to the history comes after everything in it.
LEMMA Remembers ==
    ASSUME NEW S, acc \in Seq(S), NEW e \in S, acc' = Append(acc, e)
    PROVE  /\ Len(acc) \in Nat
           /\ acc' \in Seq(S)
           /\ DOMAIN acc = 1..Len(acc)
           /\ DOMAIN acc' = 1..(Len(acc) + 1)
           /\ \A i \in 1..Len(acc) : acc'[i] = acc[i]
           /\ acc'[Len(acc) + 1] = e
  OBVIOUS

\* The fields of an entry of the history.
Entry(a) ==
    /\ a.by \in Calls /\ a.stamp \in Stamps /\ a.read \in Int
    /\ a.at \in Nat /\ a.epoch \in Nat /\ a.asked \in BOOLEAN /\ a.kept \in BOOLEAN

\* A typed history holds typed entries.
LEMMA EntriesTyped == ASSUME acc \in Seq(Hmac!Accepted) PROVE \A i \in DOMAIN acc : Entry(acc[i])
<1> SUFFICES ASSUME NEW i \in DOMAIN acc PROVE Entry(acc[i])
  OBVIOUS
<1>1. acc[i] \in Hmac!Accepted
  OBVIOUS
<1> HIDE DEF Hmac!Accepted
<1> QED
  BY <1>1 DEF Entry, Hmac!Accepted

\* Every variable of the validation stays typed, and exactly the calls that are
\* done have an answer.
THEOREM HmacTypeCorrect == ASSUME Hmac!HmacAssumption PROVE Hmac!Spec => []Hmac!TypeOK
<1>1. Hmac!Init => Hmac!TypeOK
  BY DEF Hmac!Init, Hmac!TypeOK
<1>2. Hmac!TypeOK /\ [Hmac!Next]_(Hmac!vars) => Hmac!TypeOK'
  <2> SUFFICES ASSUME Hmac!TypeOK, [Hmac!Next]_(Hmac!vars) PROVE Hmac!TypeOK'
    OBVIOUS
  <2> USE DEF Hmac!TypeOK, Hmac!HmacAssumption
  <2>0. ASSUME NEW r \in Calls, NEW asked \in BOOLEAN, NEW kept \in BOOLEAN, Hmac!Accept(r, asked, kept)
        PROVE  acc' \in Seq(Hmac!Accepted)
    <3> DEFINE e == [by |-> r, stamp |-> head[r].stamp, read |-> read[r], at |-> ms,
                     epoch |-> losses, asked |-> asked, kept |-> kept]
    <3>1. e \in Hmac!Accepted
      BY DEF Hmac!Accepted, Hmac!Headers
    <3>2. acc' = Append(acc, e)
      BY <2>0 DEF Hmac!Accept
    <3> HIDE DEF e
    <3> QED
      BY <3>1, <3>2
  <2>1. CASE Hmac!Tick
    BY <2>1 DEF Hmac!Tick
  <2>2. CASE Hmac!Flush
    BY <2>2 DEF Hmac!Flush
  <2>3. ASSUME NEW r \in Calls, Hmac!Arrive(r) PROVE Hmac!TypeOK'
    <3>1. Hmac!Now \in Int
      <4>1. ms \in Int
        OBVIOUS
      <4> QED
        BY <4>1 DEF Hmac!Now
    <3> QED
      BY <2>3, <3>1 DEF Hmac!Arrive, Hmac!Done
  <2>4. ASSUME NEW r \in Calls, Hmac!Exists(r) PROVE Hmac!TypeOK'
    BY <2>4 DEF Hmac!Exists, Hmac!Done
  <2>5. ASSUME NEW r \in Calls, Hmac!Setex(r) PROVE Hmac!TypeOK'
    <3>1. acc' \in Seq(Hmac!Accepted)
      BY <2>0, <2>5 DEF Hmac!Setex
    <3>2. nonce' \in [Stamps -> Nat]
      <4>1. ms + 1000 * Hmac!Ttl \in Nat
        BY DEF Hmac!Ttl
      <4> QED
        BY <2>5, <4>1 DEF Hmac!Setex
    <3> QED
      BY <2>5, <3>1, <3>2 DEF Hmac!Setex, Hmac!Accept, Hmac!Done
  <2>6. ASSUME NEW r \in Calls, Hmac!RedisError(r) PROVE Hmac!TypeOK'
    <3>1. acc' \in Seq(Hmac!Accepted)
      BY <2>0, <2>6 DEF Hmac!RedisError
    <3> QED
      BY <2>6, <3>1 DEF Hmac!RedisError, Hmac!Accept, Hmac!Done
  <2>7. CASE UNCHANGED Hmac!vars
    BY <2>7 DEF Hmac!vars
  <2> QED
    BY <2>1, <2>2, <2>3, <2>4, <2>5, <2>6, <2>7 DEF Hmac!Next
<1> QED
  BY <1>1, <1>2, PTL DEF Hmac!Spec

-----------------------------------------------------------------------------
(* The inductive invariant: what an accepted call and a call in progress    *)
(* know of the clock and of redis.                                       *)

Inside(r) == call[r] \in {"exists", "setex"}

\* The event loop runs one call at a time.
OneInside == \A r, q \in Calls : Inside(r) /\ Inside(q) => r = q

\* A call that passed the window check read a clock within it, no later than now.
ReadInWindow ==
    \A r \in Calls : Inside(r) =>
        /\ 1000 * read[r] <= ms
        /\ read[r] - head[r].stamp <= Hmac!Window
        /\ head[r].stamp - read[r] <= Hmac!Window

\* So did the accepted call a; and in its epoch the nonce it stored, if it stored
\* one, is still to expire Ttl seconds after that, or later.
SoundAnswer(a) ==
    /\ 1000 * a.read <= a.at
    /\ a.at <= ms
    /\ a.read - a.stamp <= Hmac!Window
    /\ a.stamp - a.read <= Hmac!Window
    /\ a.epoch <= losses
    /\ a.epoch = losses /\ a.kept => nonce[a.stamp] >= a.at + 1000 * Hmac!Ttl

AcceptedInWindow == \A i \in DOMAIN acc : SoundAnswer(acc[i])

\* A call past EXISTS saw every nonce of its stamp expire.
PastExists ==
    \A r \in Calls : call[r] = "setex" =>
        \A i \in DOMAIN acc :
            acc[i].stamp = head[r].stamp /\ acc[i].epoch = losses /\ acc[i].kept =>
                ms >= acc[i].at + 1000 * Hmac!Ttl

HInv == OneInside /\ ReadInWindow /\ AcceptedInWindow /\ PastExists /\ Spaced

\* The conjuncts of HInv support each other: acceptances are Ttl apart because a
\* call past EXISTS saw the nonces expire, and no other call is inside with it.
LEMMA HmacInvariant == ASSUME Hmac!HmacAssumption PROVE Hmac!Spec => []HInv
<1>1. Hmac!Init => HInv
  BY DEF Hmac!Init, HInv, OneInside, ReadInWindow, AcceptedInWindow, PastExists, Spaced, Inside, Hmac!Spaced
<1>2. Hmac!TypeOK /\ HInv /\ [Hmac!Next]_(Hmac!vars) => HInv'
  <2> SUFFICES ASSUME Hmac!TypeOK, HInv, [Hmac!Next]_(Hmac!vars) PROVE HInv'
    OBVIOUS
  <2>0. /\ ms \in Nat /\ nonce \in [Stamps -> Nat] /\ losses \in Nat
        /\ head \in [Calls -> Hmac!Headers] /\ read \in [Calls -> Int]
        /\ call = [r \in Calls |-> call[r]] /\ Stamps \subseteq Int
        /\ \A i \in DOMAIN acc : Entry(acc[i])
    BY EntriesTyped DEF Hmac!TypeOK, Hmac!HmacAssumption
  <2>s. acc \in Seq(Hmac!Accepted)
    BY DEF Hmac!TypeOK
  <2> USE <2>0 DEF HInv
  \* Every answer adds to the history an entry that is sound, and, if EXISTS was
  \* answered, far enough from every nonce stored before it.
  <2>a. ASSUME NEW r \in Calls, NEW asked \in BOOLEAN, NEW kept \in BOOLEAN, Hmac!Accept(r, asked, kept),
               Inside(r), asked => call[r] = "setex", ms' = ms, losses' = losses, nonce' \in [Stamps -> Nat],
               \A s \in Stamps : nonce'[s] = nonce[s] \/ nonce'[s] = ms + 1000 * Hmac!Ttl,
               kept => nonce'[head[r].stamp] = ms + 1000 * Hmac!Ttl
        PROVE  AcceptedInWindow' /\ PastExists' /\ Spaced'
    <3> DEFINE e == [by |-> r, stamp |-> head[r].stamp, read |-> read[r], at |-> ms,
                     epoch |-> losses, asked |-> asked, kept |-> kept]
    <3>1. e \in Hmac!Accepted
      BY DEF Hmac!Accepted, Hmac!Headers
    <3>2. acc' = Append(acc, e)
      BY <2>a DEF Hmac!Accept
    <3>3. /\ e.stamp = head[r].stamp /\ e.read = read[r] /\ e.at = ms /\ e.epoch = losses
          /\ e.asked = asked /\ e.kept = kept /\ e.stamp \in Stamps
      BY DEF Hmac!Headers
    <3> HIDE DEF e
    <3>4. /\ Len(acc) \in Nat
          /\ DOMAIN acc = 1..Len(acc)
          /\ DOMAIN acc' = 1..(Len(acc) + 1)
          /\ \A i \in 1..Len(acc) : acc'[i] = acc[i]
          /\ acc'[Len(acc) + 1] = e
      BY <2>s, <3>1, <3>2, Remembers
    <3>5. AcceptedInWindow'
      <4> SUFFICES ASSUME NEW i \in DOMAIN acc' PROVE SoundAnswer(acc[i])'
        BY DEF AcceptedInWindow
      <4>1. CASE i = Len(acc) + 1
        <5>1. /\ 1000 * read[r] <= ms /\ read[r] - head[r].stamp <= Hmac!Window
              /\ head[r].stamp - read[r] <= Hmac!Window
          BY <2>a DEF ReadInWindow
        <5>2. acc'[i] = e
          BY <3>4, <4>1
        <5> QED
          BY <2>a, <3>3, <5>1, <5>2 DEF SoundAnswer, Hmac!Ttl
      <4>2. CASE i \in DOMAIN acc
        <5>1. acc'[i] = acc[i] /\ SoundAnswer(acc[i]) /\ Entry(acc[i])
          BY <3>4, <4>2 DEF AcceptedInWindow
        <5>2. nonce'[acc[i].stamp] = nonce[acc[i].stamp] \/ nonce'[acc[i].stamp] = ms + 60000
          BY <2>a, <5>1 DEF Entry, Hmac!Ttl
        <5> QED
          BY <2>a, <5>1, <5>2 DEF SoundAnswer, Entry, Hmac!Ttl
      <4> QED
        BY <3>4, <4>1, <4>2
    <3>6. PastExists'
      BY <2>a DEF Hmac!Accept, Hmac!Done, PastExists, OneInside, Inside
    <3>7. Spaced'
      <4> SUFFICES ASSUME NEW i \in DOMAIN acc', NEW j \in DOMAIN acc', i < j,
                          Hmac!Remembered(acc'[i], acc'[j])
                   PROVE  acc'[j].at - acc'[i].at >= 1000 * Hmac!Ttl
        BY DEF Spaced, Hmac!Spaced, Hmac!Remembered
      <4>0. i \in DOMAIN acc /\ acc'[i] = acc[i] /\ acc[i].at \in Nat /\ acc[i].kept
        BY <3>4 DEF Hmac!Remembered, Entry
      <4>1. CASE j = Len(acc) + 1
        <5>1. acc'[j] = e
          BY <3>4, <4>1
        <5>2. call[r] = "setex" /\ acc[i].stamp = head[r].stamp /\ acc[i].epoch = losses
          BY <2>a, <3>3, <4>0, <5>1 DEF Hmac!Remembered
        <5>3. ms >= acc[i].at + 1000 * Hmac!Ttl
          BY <4>0, <5>2 DEF PastExists
        <5> QED
          BY <3>3, <4>0, <5>1, <5>3 DEF Hmac!Ttl
      <4>2. CASE j \in DOMAIN acc
        BY <3>4, <4>0, <4>2 DEF Spaced, Hmac!Spaced
      <4> QED
        BY <3>4, <4>1, <4>2
    <3> QED
      BY <3>5, <3>6, <3>7
  <2>1. CASE Hmac!Tick
    <3>1. ms' \in Nat /\ ms < ms'
      BY <2>1 DEF Hmac!Tick, Hmac!HmacAssumption
    <3>2. OneInside'
      BY <2>1 DEF Hmac!Tick, OneInside, Inside
    <3>3. ReadInWindow'
      BY <2>1, <3>1 DEF Hmac!Tick, ReadInWindow, Inside
    <3>4. AcceptedInWindow'
      BY <2>1, <3>1 DEF Hmac!Tick, AcceptedInWindow, SoundAnswer, Entry
    <3>5. PastExists'
      BY <2>1, <3>1 DEF Hmac!Tick, PastExists, Entry, Hmac!Ttl
    <3>6. Spaced'
      BY <2>1 DEF Hmac!Tick, Spaced, Hmac!Spaced, Hmac!Remembered
    <3> QED
      BY <3>2, <3>3, <3>4, <3>5, <3>6
  <2>2. CASE Hmac!Flush
    <3>1. OneInside' /\ ReadInWindow' /\ Spaced'
      BY <2>2 DEF Hmac!Flush, OneInside, ReadInWindow, Spaced, Inside, Hmac!Spaced, Hmac!Remembered
    <3>2. AcceptedInWindow' /\ PastExists'
      BY <2>2 DEF Hmac!Flush, AcceptedInWindow, SoundAnswer, PastExists, Entry
    <3> QED
      BY <3>1, <3>2
  <2>3. ASSUME NEW r \in Calls, Hmac!Arrive(r) PROVE HInv'
    <3>0. 1000 * Hmac!Now <= ms /\ Hmac!Now \in Int
      BY DEF Hmac!Now
    <3>1. OneInside'
      BY <2>3 DEF Hmac!Arrive, Hmac!Done, OneInside, Inside, Hmac!Busy
    <3>2. ReadInWindow'
      BY <2>3, <3>0 DEF Hmac!Arrive, Hmac!Done, ReadInWindow, Inside, Hmac!MayProceed, Hmac!InWindow, Hmac!Headers
    <3>3. AcceptedInWindow' /\ Spaced'
      BY <2>3 DEF Hmac!Arrive, AcceptedInWindow, SoundAnswer, Spaced, Hmac!Spaced, Hmac!Remembered
    <3>4. PastExists'
      BY <2>3 DEF Hmac!Arrive, Hmac!Done, PastExists
    <3> QED
      BY <3>1, <3>2, <3>3, <3>4
  <2>4. ASSUME NEW r \in Calls, Hmac!Exists(r) PROVE HInv'
    <3>1. OneInside' /\ ReadInWindow'
      BY <2>4 DEF Hmac!Exists, Hmac!Done, OneInside, ReadInWindow, Inside
    <3>2. AcceptedInWindow' /\ Spaced'
      BY <2>4 DEF Hmac!Exists, AcceptedInWindow, SoundAnswer, Spaced, Hmac!Spaced, Hmac!Remembered
    <3>3. PastExists'
      <4> SUFFICES ASSUME NEW q \in Calls, call'[q] = "setex", NEW i \in DOMAIN acc,
                          acc[i].stamp = head[q].stamp, acc[i].epoch = losses, acc[i].kept
                   PROVE  ms >= acc[i].at + 1000 * Hmac!Ttl
        BY <2>4 DEF Hmac!Exists, PastExists
      <4>1. CASE q # r
        BY <2>4, <4>1 DEF Hmac!Exists, Hmac!Done, PastExists
      <4>2. CASE q = r
        BY <2>4, <4>2 DEF Hmac!Exists, Hmac!Done, Hmac!Present, AcceptedInWindow, SoundAnswer, Entry,
           Hmac!Ttl, Hmac!Headers
      <4> QED
        BY <4>1, <4>2
    <3> QED
      BY <3>1, <3>2, <3>3
  <2>5. ASSUME NEW r \in Calls, Hmac!Setex(r) PROVE HInv'
    <3>1. OneInside' /\ ReadInWindow'
      BY <2>5 DEF Hmac!Setex, Hmac!Accept, Hmac!Done, OneInside, ReadInWindow, Inside
    <3>2. /\ Hmac!Accept(r, TRUE, TRUE) /\ call[r] = "setex" /\ ms' = ms /\ losses' = losses
          /\ head[r].stamp \in Stamps /\ ms + 1000 * Hmac!Ttl \in Nat
          /\ nonce' = [nonce EXCEPT ![head[r].stamp] = ms + 1000 * Hmac!Ttl]
      <4>1. head[r].stamp \in Stamps
        BY DEF Hmac!Headers
      <4>2. ms + 1000 * Hmac!Ttl \in Nat
        BY DEF Hmac!Ttl
      <4> QED
        BY <2>5, <4>1, <4>2 DEF Hmac!Setex
    <3>3. /\ nonce' \in [Stamps -> Nat] /\ nonce'[head[r].stamp] = ms + 1000 * Hmac!Ttl
          /\ \A s \in Stamps : nonce'[s] = nonce[s] \/ nonce'[s] = ms + 1000 * Hmac!Ttl
      BY <3>2
    <3> QED
      BY <2>a, <3>1, <3>2, <3>3 DEF Inside
  <2>6. ASSUME NEW r \in Calls, Hmac!RedisError(r) PROVE HInv'
    <3>1. OneInside' /\ ReadInWindow'
      BY <2>6 DEF Hmac!RedisError, Hmac!Accept, Hmac!Done, OneInside, ReadInWindow, Inside
    <3>2. /\ Hmac!Accept(r, call[r] = "setex", FALSE) /\ Inside(r)
          /\ ms' = ms /\ losses' = losses /\ nonce' = nonce
      BY <2>6 DEF Hmac!RedisError, Inside
    <3>3. CASE call[r] = "setex"
      <4>1. Hmac!Accept(r, TRUE, FALSE)
        BY <3>2, <3>3
      <4> QED
        BY <2>a, <3>1, <3>2, <3>3, <4>1
    <3>4. CASE call[r] # "setex"
      <4>1. Hmac!Accept(r, FALSE, FALSE)
        BY <3>2, <3>4
      <4> QED
        BY <2>a, <3>1, <3>2, <4>1
    <3> QED
      BY <3>3, <3>4
  <2>7. CASE UNCHANGED Hmac!vars
    BY <2>7 DEF Hmac!vars, OneInside, ReadInWindow, AcceptedInWindow, SoundAnswer, PastExists, Spaced, Inside,
       Hmac!Spaced, Hmac!Remembered
  <2> QED
    BY <2>1, <2>2, <2>3, <2>4, <2>5, <2>6, <2>7 DEF Hmac!Next
<1> QED
  BY <1>1, <1>2, HmacTypeCorrect, PTL DEF Hmac!Spec

\* Of two valid answers to one stamp the second comes at least Ttl seconds after
\* the first, unless the SETEX of the first or the EXISTS of the second failed, or
\* redis lost its keys in between.
THEOREM AcceptancesSpaced == ASSUME Hmac!HmacAssumption PROVE Hmac!Spec => []Spaced
  BY HmacInvariant, PTL DEF HInv

\* With a nonce of 60 seconds and a window of 61, a stamp whose nonce redis stored
\* and was asked for is accepted twice only from the first second of the window to
\* the last, unless the second call is held up between reading the clock and redis.
THEOREM EdgeOnly == ASSUME Hmac!HmacAssumption PROVE Hmac!Spec => []OnlyAtTheEdge
<1>1. Hmac!TypeOK /\ HInv => OnlyAtTheEdge
  <2> SUFFICES ASSUME Hmac!TypeOK, HInv, NEW i \in DOMAIN acc, NEW j \in DOMAIN acc, i < j,
                      Hmac!Remembered(acc[i], acc[j])
               PROVE  \/ acc[i].read = acc[i].stamp - Hmac!Window /\ acc[j].read = acc[j].stamp + Hmac!Window
                      \/ acc[j].at >= 1000 * (acc[j].read + 1)
    BY DEF OnlyAtTheEdge, Hmac!OnlyAtTheEdge, Hmac!Remembered
  <2>1. /\ acc[i].at \in Nat /\ acc[j].at \in Nat /\ acc[i].read \in Int /\ acc[j].read \in Int
        /\ acc[i].stamp \in Int /\ acc[j].stamp = acc[i].stamp
    <3>1. Entry(acc[i]) /\ Entry(acc[j]) /\ Stamps \subseteq Int
      BY EntriesTyped DEF Hmac!TypeOK, Hmac!HmacAssumption
    <3> QED
      BY <3>1 DEF Entry, Hmac!Remembered
  <2>2. acc[j].at - acc[i].at >= 60000
    BY DEF HInv, Spaced, Hmac!Ttl, Hmac!Spaced
  <2>3. /\ 1000 * acc[i].read <= acc[i].at /\ acc[i].stamp - acc[i].read <= 30
        /\ acc[j].read - acc[j].stamp <= 30
    BY DEF HInv, AcceptedInWindow, SoundAnswer, Hmac!Window
  <2>4. PICK x, y, z \in Int, t, u \in Nat :
           /\ x = acc[i].read /\ y = acc[j].read /\ z = acc[i].stamp
           /\ t = acc[i].at /\ u = acc[j].at /\ z = acc[j].stamp
    BY <2>1
  <2>5. u - t >= 60000 /\ 1000 * x <= t /\ z - x <= 30 /\ y - z <= 30
    BY <2>2, <2>3, <2>4
  <2>6. (x = z - 30 /\ y = z + 30) \/ u >= 1000 * (y + 1)
    <3> HIDE <2>4
    <3> QED
      BY <2>5
  <2> QED
    BY <2>4, <2>6 DEF Hmac!Window
<1> QED
  BY <1>1, HmacTypeCorrect, HmacInvariant, PTL

-----------------------------------------------------------------------------
\* Calls inside carry a good signature, accepted calls have answered valid, and every
\* nonce that redis holds is one that an accepted call of this epoch stored.
NoncesSound ==
    /\ \A r \in Calls : Inside(r) => head[r].good
    /\ \A i \in DOMAIN acc :
          call[acc[i].by] = "done" /\ verdict[acc[i].by] = "valid" /\ head[acc[i].by].good
    /\ \A s \in Stamps : nonce[s] # 0 =>
          \E i \in DOMAIN acc : acc[i].stamp = s /\ acc[i].epoch = losses /\ acc[i].kept

\* A nonce in redis was put there by the SETEX of a call that was accepted with a
\* good signature, since redis last lost its keys.
THEOREM NoncesAreAccepted == ASSUME Hmac!HmacAssumption PROVE Hmac!Spec => []NonceMeansAccepted
<1>1. Hmac!Init => NoncesSound
  BY DEF Hmac!Init, NoncesSound, Inside
<1>2. Hmac!TypeOK /\ NoncesSound /\ [Hmac!Next]_(Hmac!vars) => NoncesSound'
  <2> SUFFICES ASSUME Hmac!TypeOK, NoncesSound, [Hmac!Next]_(Hmac!vars) PROVE NoncesSound'
    OBVIOUS
  <2> USE DEF NoncesSound, Inside
  <2>0. /\ call \in [Calls -> {"idle", "exists", "setex", "done"}]
        /\ verdict \in [Calls -> {"none", "valid", "refused"}]
        /\ acc \in Seq(Hmac!Accepted) /\ \A i \in DOMAIN acc : acc[i].by \in Calls
        /\ nonce \in [Stamps -> Nat] /\ \A r \in Calls : head[r].stamp \in Stamps
    BY EntriesTyped DEF Entry, Hmac!TypeOK, Hmac!Headers
  \* An answer: all that was in the history is still in it, and the new entry is of
  \* a call that was inside.
  <2>a. ASSUME NEW r \in Calls, NEW asked \in BOOLEAN, NEW kept \in BOOLEAN, Hmac!Accept(r, asked, kept),
               Inside(r), UNCHANGED <<head, losses>>,
               \A s \in Stamps : nonce'[s] = nonce[s] \/ (kept /\ s = head[r].stamp)
        PROVE  NoncesSound'
    <3> DEFINE e == [by |-> r, stamp |-> head[r].stamp, read |-> read[r], at |-> ms,
                     epoch |-> losses, asked |-> asked, kept |-> kept]
    <3>1. e \in Hmac!Accepted
      BY DEF Hmac!TypeOK, Hmac!Accepted, Hmac!Headers
    <3>2. acc' = Append(acc, e)
      BY <2>a DEF Hmac!Accept
    <3>3. e.by = r /\ e.stamp = head[r].stamp /\ e.epoch = losses /\ e.kept = kept
      OBVIOUS
    <3> HIDE DEF e
    <3>4. /\ Len(acc) \in Nat
          /\ DOMAIN acc = 1..Len(acc)
          /\ DOMAIN acc' = 1..(Len(acc) + 1)
          /\ \A i \in 1..Len(acc) : acc'[i] = acc[i]
          /\ acc'[Len(acc) + 1] = e
      BY <2>0, <3>1, <3>2, Remembers
    <3>5. /\ call'[r] = "done" /\ verdict'[r] = "valid" /\ head'[r].good
          /\ \A q \in Calls \ {r} : call'[q] = call[q] /\ verdict'[q] = verdict[q]
      BY <2>0, <2>a DEF Hmac!Accept, Hmac!Done
    <3>6. \A i \in DOMAIN acc : i \in DOMAIN acc' /\ acc'[i] = acc[i]
      BY <3>4
    <3>7. \A i \in DOMAIN acc' : i \in DOMAIN acc \/ acc'[i] = e
      BY <3>4
    <3>8. \A i \in DOMAIN acc' :
             call'[acc'[i].by] = "done" /\ verdict'[acc'[i].by] = "valid" /\ head'[acc'[i].by].good
      <4> SUFFICES ASSUME NEW i \in DOMAIN acc'
                   PROVE  call'[acc'[i].by] = "done" /\ verdict'[acc'[i].by] = "valid" /\ head'[acc'[i].by].good
        OBVIOUS
      <4>1. CASE acc'[i] = e
        BY <3>3, <3>5, <4>1
      <4>2. CASE i \in DOMAIN acc
        BY <2>0, <2>a, <3>5, <3>6, <4>2
      <4> QED
        BY <3>7, <4>1, <4>2
    <3>9. \A s \in Stamps : nonce'[s] # 0 =>
             \E i \in DOMAIN acc' : acc'[i].stamp = s /\ acc'[i].epoch = losses' /\ acc'[i].kept
      <4> SUFFICES ASSUME NEW s \in Stamps, nonce'[s] # 0
                   PROVE  \E i \in DOMAIN acc' : acc'[i].stamp = s /\ acc'[i].epoch = losses' /\ acc'[i].kept
        OBVIOUS
      <4>1. CASE nonce'[s] = nonce[s]
        BY <2>a, <3>6, <4>1
      <4>2. CASE kept /\ s = head[r].stamp
        <5>1. Len(acc) + 1 \in DOMAIN acc'
          BY <3>4
        <5> QED
          BY <2>a, <3>3, <3>4, <4>2, <5>1
      <4> QED
        BY <2>a, <4>1, <4>2
    <3> QED
      BY <2>a, <3>5, <3>8, <3>9
  <2>1. CASE Hmac!Tick
    BY <2>1 DEF Hmac!Tick
  <2>2. CASE Hmac!Flush
    BY <2>2 DEF Hmac!Flush
  <2>3. ASSUME NEW r \in Calls, Hmac!Arrive(r) \/ Hmac!Exists(r) PROVE NoncesSound'
    <3>1. /\ call[r] # "done" /\ UNCHANGED <<nonce, losses, head, acc>>
          /\ \A q \in Calls \ {r} : call'[q] = call[q] /\ verdict'[q] = verdict[q]
      BY <2>0, <2>3 DEF Hmac!Arrive, Hmac!Exists, Hmac!Done
    <3>2. call'[r] \in {"exists", "setex"} => head[r].good
      BY <2>0, <2>3 DEF Hmac!Arrive, Hmac!Exists, Hmac!Done, Hmac!MayProceed
    <3> QED
      BY <2>0, <3>1, <3>2
  <2>4. ASSUME NEW r \in Calls, Hmac!Setex(r) PROVE NoncesSound'
    <3>1. /\ Hmac!Accept(r, TRUE, TRUE) /\ call[r] = "setex" /\ UNCHANGED <<head, losses>>
          /\ \A s \in Stamps : s # head[r].stamp => nonce'[s] = nonce[s]
      BY <2>0, <2>4 DEF Hmac!Setex
    <3> QED
      BY <2>a, <3>1
  <2>5. ASSUME NEW r \in Calls, Hmac!RedisError(r) PROVE NoncesSound'
    <3>1. /\ Hmac!Accept(r, call[r] = "setex", FALSE) /\ Inside(r) /\ UNCHANGED <<head, losses, nonce>>
      BY <2>5 DEF Hmac!RedisError
    <3>2. (call[r] = "setex") \in BOOLEAN
      OBVIOUS
    <3> QED
      BY <2>a, <3>1, <3>2
  <2>6. CASE UNCHANGED Hmac!vars
    BY <2>6 DEF Hmac!vars
  <2> QED
    BY <2>1, <2>2, <2>3, <2>4, <2>5, <2>6 DEF Hmac!Next
<1>3. NoncesSound => NonceMeansAccepted
  BY DEF NoncesSound, NonceMeansAccepted, Hmac!NonceMeansAccepted
<1> QED
  BY <1>1, <1>2, <1>3, HmacTypeCorrect, PTL DEF Hmac!Spec

-----------------------------------------------------------------------------
\* A behaviour of the overrides, which drives one of the sides, is one of both: so
\* whatever is proved of either holds of overrides.
THEOREM BothSides == OverridesSpec => Hmac!Spec /\ Spec
<1>1. OverridesInit => Hmac!Init /\ Init
  BY DEF OverridesInit
<1>2. [OverridesNext]_<<side, hmacVars, vars>> => [Hmac!Next]_(Hmac!vars) /\ [Next]_vars
  BY DEF OverridesNext, hmacVars, Hmac!vars, vars
<1> QED
  BY <1>1, <1>2, PTL DEF OverridesSpec, Hmac!Spec, Spec
=============================================================================
