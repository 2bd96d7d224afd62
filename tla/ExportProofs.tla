---------------------------- MODULE ExportProofs ----------------------------
(***************************************************************************)
(* Proofs about ExportTokens, for any requests, artifacts and instants.    *)
(*                                                                         *)
(* A token is paid with once because its handler is alone: whoever is past *)
(* GET deletes the token before anyone else can GET it, and a deleted      *)
(* token is stored by nobody again. EInv says that one handler runs at a   *)
(* time (Alone), what a token in redis says of the verification it names   *)
(* (TokensSound), what an export that is past GET knows of its token       *)
(* (ExportsSound), and that such an export shares it with no other that    *)
(* was paid for (Exclusive).                                               *)
(***************************************************************************)
EXTENDS ExportTokens, TLAPS

Verifying(v) == verify[v].pc \in {"store", "reply"}
Exporting(e) == export[e].pc \in {"delete", "answer"}

\* One handler runs at a time.
Alone ==
    /\ \A v, w \in Verifies : Verifying(v) /\ Verifying(w) => v = w
    /\ \A d, e \in Exports : Exporting(d) /\ Exporting(e) => d = e
    /\ \A v \in Verifies, e \in Exports : ~(Verifying(v) /\ Exporting(e))

\* A token in redis is of a verification that stored it, and lives from then on.
TokensSound ==
    \A v \in Verifies :
        /\ verify[v].pc \in {"idle", "store"} => verify[v].at = None
        /\ verify[v].at = None => vtok[v].until = 0
        /\ vtok[v].until # 0 => /\ vtok[v].id = verify[v].id
                                /\ vtok[v].until = verify[v].at + Ttl

\* An export that found its token was admitted with it, in its time.
ExportsSound ==
    \A e \in Exports : LET t == export[e].token IN
        /\ export[e].pc # "done" => export[e].answer = "none"
        /\ Exporting(e) \/ Spends(e) =>
              /\ t \in Verifies
              /\ <<e, t>> \in admitted
              /\ verify[t].at \in Nat
              /\ verify[t].id = export[e].id
              /\ export[e].found < verify[t].at + Ttl

\* Once an export has deleted its token no other is past GET with it.
Exclusive ==
    \A e \in Exports : export[e].pc = "answer" \/ Spends(e) =>
        /\ vtok[export[e].token].until = 0
        /\ \A d \in Exports :
              (Exporting(d) \/ Spends(d)) /\ export[d].token = export[e].token => d = e

EInv == Alone /\ TokensSound /\ ExportsSound /\ Exclusive

-----------------------------------------------------------------------------
VerifyRecord == [pc : {"idle", "store", "reply", "told", "done"}, id : Ids \cup {None}, at : Nat \cup {None}]

ExportRecord == [pc     : {"idle", "delete", "answer", "done"},
                 token  : Verifies \cup {None},
                 id     : Ids \cup {None},
                 format : Formats,
                 found  : Nat,
                 answer : {"none", "401", "403", "400", "500", "exported"}]

\* What the type of an export says of the values its fields are given.
LEMMA ExportFields ==
    ASSUME NEW r \in ExportRecord
    PROVE  /\ \A pc \in {"idle", "delete", "answer", "done"}, answer \in {"none", "401", "403", "400", "500", "exported"} :
                 [r EXCEPT !.pc = pc, !.answer = answer] \in ExportRecord
           /\ \A t \in Verifies, id \in Ids, format \in Formats, found \in Nat :
                 [pc |-> "delete", token |-> t, id |-> id, format |-> format, found |-> found, answer |-> "none"]
                     \in ExportRecord
  BY DEF ExportRecord

\* What is about to be stored is an artifact.
StoresIds == \A v \in Verifies : verify[v].pc = "store" => verify[v].id # None

\* Rows of redis, requests and the clock keep their types.
THEOREM ExportTypeCorrect == ASSUME ExportAssumption PROVE Spec => []TypeOK
<1> USE DEF TypeOK, StoresIds
<1>1. Init => TypeOK /\ StoresIds
  BY DEF Init, NewVerify, NewExport, NoToken, Formats
<1>2. TypeOK /\ StoresIds /\ [Next]_vars => TypeOK' /\ StoresIds'
  <2> SUFFICES ASSUME TypeOK, StoresIds, [Next]_vars PROVE TypeOK' /\ StoresIds'
    OBVIOUS
  <2>1. ASSUME NEW v \in Verifies, Judge(v) PROVE TypeOK' /\ StoresIds'
    <3>1. Accepted \subseteq Ids
      BY DEF Accepted, ArtifactId, Submissions, Ids
    <3> QED
      BY <2>1, <3>1 DEF Judge
  <2>2. ASSUME NEW v \in Verifies, Store(v) PROVE TypeOK' /\ StoresIds'
    <3>1. verify[v].id \in Ids /\ clock + Ttl \in Nat
      BY <2>2 DEF Store, Ttl
    <3>2. [id |-> verify[v].id, until |-> clock + Ttl] \in [id : Ids, until : Nat]
      BY <3>1
    <3>3. vtok' \in [Verifies -> [id : Ids, until : Nat] \cup {NoToken}]
      BY <2>2, <3>2 DEF Store
    <3>4. [verify[v] EXCEPT !.pc = "reply", !.at = clock] \in VerifyRecord
      BY DEF VerifyRecord
    <3>5. verify' \in [Verifies -> VerifyRecord]
      BY <2>2, <3>4 DEF Store, VerifyRecord
    <3>6. StoresIds'
      BY <2>2 DEF Store
    <3> QED
      BY <2>2, <3>3, <3>5, <3>6 DEF Store, VerifyRecord
  <2>3. ASSUME NEW v \in Verifies, Reply(v) \/ VerifyFails(v) PROVE TypeOK' /\ StoresIds'
    BY <2>3 DEF Reply, VerifyFails
  <2>4. ASSUME NEW e \in Exports, Get(e) PROVE TypeOK' /\ StoresIds'
    <3>1. PICK t \in Verifies, id \in Ids, format \in Formats :
             \/ /\ export' = [export EXCEPT ![e] = [pc |-> "delete", token |-> t, id |-> id, format |-> format,
                                                   found |-> clock, answer |-> "none"]]
                /\ admitted' = admitted \cup {<<e, t>>}
             \/ /\ export' = [export EXCEPT ![e] = [@ EXCEPT !.pc = "done",
                                                   !.answer = IF Present(t) THEN "403" ELSE "401"]]
                /\ UNCHANGED admitted
      BY <2>4 DEF Get
    <3>2. UNCHANGED <<clock, vtok, verify>>
      BY <2>4 DEF Get
    <3> DEFINE answer == IF Present(t) THEN "403" ELSE "401"
    <3>3. answer \in {"401", "403"}
      BY Zenon
    <3> HIDE DEF answer
    <3>4. \/ /\ export' = [export EXCEPT ![e] = [pc |-> "delete", token |-> t, id |-> id, format |-> format,
                                                   found |-> clock, answer |-> "none"]]
             /\ admitted' = admitted \cup {<<e, t>>}
          \/ /\ export' = [export EXCEPT ![e] = [@ EXCEPT !.pc = "done", !.answer = answer]]
             /\ UNCHANGED admitted
      BY <3>1, Zenon DEF answer
    <3>5. export \in [Exports -> ExportRecord]
      BY DEF ExportRecord
    <3>6. /\ [pc |-> "delete", token |-> t, id |-> id, format |-> format, found |-> clock, answer |-> "none"]
                 \in ExportRecord
          /\ [export[e] EXCEPT !.pc = "done", !.answer = answer] \in ExportRecord
      BY <3>3, <3>5, ExportFields
    <3>7. export' \in [Exports -> ExportRecord]
      BY <3>4, <3>5, <3>6
    <3>8. admitted' \subseteq Exports \X Verifies
      BY <3>4
    <3> QED
      BY <3>2, <3>7, <3>8 DEF ExportRecord
  <2>5. ASSUME NEW e \in Exports, Delete(e) PROVE TypeOK' /\ StoresIds'
    BY <2>5 DEF Delete
  <2>6. ASSUME NEW e \in Exports, Answer(e) PROVE TypeOK' /\ StoresIds'
    <3> DEFINE answer == IF export[e].format = "other" THEN "400" ELSE "exported"
    <3>1. answer \in {"400", "exported"}
      BY Zenon
    <3>2. export' = [export EXCEPT ![e] = [@ EXCEPT !.pc = "done", !.answer = answer]]
      BY <2>6, Zenon DEF Answer
    <3> HIDE DEF answer
    <3>3. export \in [Exports -> ExportRecord]
      BY DEF ExportRecord
    <3>4. [export[e] EXCEPT !.pc = "done", !.answer = answer] \in ExportRecord
      BY <3>1, <3>3, ExportFields
    <3>5. export' \in [Exports -> ExportRecord]
      BY <3>2, <3>3, <3>4
    <3> QED
      BY <2>6, <3>5 DEF Answer, ExportRecord
  <2>7. ASSUME NEW e \in Exports, ExportFails(e) PROVE TypeOK' /\ StoresIds'
    BY <2>7 DEF ExportFails
  <2>8. CASE Tick
    BY <2>8 DEF Tick, ExportAssumption
  <2>9. CASE Flush
    BY <2>9 DEF Flush
  <2>10. CASE UNCHANGED vars
    BY <2>10 DEF vars
  <2> QED
    BY <2>1, <2>2, <2>3, <2>4, <2>5, <2>6, <2>7, <2>8, <2>9, <2>10 DEF Next
<1> QED
  BY <1>1, <1>2, PTL DEF Spec

-----------------------------------------------------------------------------
\* A GET that goes on to DELETE found its token.
LEMMA GetFinds ==
    ASSUME TypeOK, NEW e \in Exports, Get(e), export'[e].pc = "delete"
    PROVE  \E t \in Verifies : /\ Present(t) /\ vtok[t].id = export'[e].id
                              /\ export'[e].token = t /\ export'[e].found = clock
                              /\ export'[e].answer = "none"
                              /\ admitted' = admitted \cup {<<e, t>>}
<1>1. PICK t \in Verifies, id \in Ids, format \in Formats :
         IF Present(t) /\ vtok[t].id = id
         THEN /\ export' = [export EXCEPT ![e] = [pc |-> "delete", token |-> t, id |-> id, format |-> format,
                                                 found |-> clock, answer |-> "none"]]
              /\ admitted' = admitted \cup {<<e, t>>}
         ELSE /\ export' = [export EXCEPT ![e] = [@ EXCEPT !.pc = "done",
                                                 !.answer = IF Present(t) THEN "403" ELSE "401"]]
              /\ UNCHANGED admitted
  BY DEF Get
<1> DEFINE answer == IF Present(t) THEN "403" ELSE "401"
<1>2. \/ /\ Present(t) /\ vtok[t].id = id
         /\ export' = [export EXCEPT ![e] = [pc |-> "delete", token |-> t, id |-> id, format |-> format,
                                            found |-> clock, answer |-> "none"]]
         /\ admitted' = admitted \cup {<<e, t>>}
      \/ export' = [export EXCEPT ![e] = [@ EXCEPT !.pc = "done", !.answer = answer]]
  BY <1>1, Zenon
<1> HIDE DEF answer
<1>3. export \in [Exports -> ExportRecord]
  BY DEF TypeOK, ExportRecord
<1>4. export' = [export EXCEPT ![e] = [@ EXCEPT !.pc = "done", !.answer = answer]] => export'[e].pc = "done"
  BY <1>3 DEF ExportRecord
<1>5. /\ Present(t) /\ vtok[t].id = id
      /\ export' = [export EXCEPT ![e] = [pc |-> "delete", token |-> t, id |-> id, format |-> format,
                                         found |-> clock, answer |-> "none"]]
      /\ admitted' = admitted \cup {<<e, t>>}
  BY <1>2, <1>4
<1>6. export'[e] = [pc |-> "delete", token |-> t, id |-> id, format |-> format, found |-> clock, answer |-> "none"]
  BY <1>3, <1>5
<1>7. export'[e].token = t /\ export'[e].id = id /\ export'[e].found = clock /\ export'[e].answer = "none"
  BY <1>6
<1> QED
  BY <1>5, <1>7

\* Any other ends at once with a refusal.
LEMMA GetRefuses ==
    ASSUME TypeOK, NEW e \in Exports, Get(e), export'[e].pc # "delete"
    PROVE  export'[e].pc = "done" /\ export'[e].answer \in {"401", "403"} /\ UNCHANGED admitted
<1>1. PICK t \in Verifies, id \in Ids, format \in Formats :
         IF Present(t) /\ vtok[t].id = id
         THEN export' = [export EXCEPT ![e] = [pc |-> "delete", token |-> t, id |-> id, format |-> format,
                                              found |-> clock, answer |-> "none"]]
         ELSE /\ export' = [export EXCEPT ![e] = [@ EXCEPT !.pc = "done",
                                                 !.answer = IF Present(t) THEN "403" ELSE "401"]]
              /\ UNCHANGED admitted
  BY DEF Get
<1> DEFINE answer == IF Present(t) THEN "403" ELSE "401"
<1>2. answer \in {"401", "403"}
  BY Zenon
<1>3. \/ export' = [export EXCEPT ![e] = [pc |-> "delete", token |-> t, id |-> id, format |-> format,
                                         found |-> clock, answer |-> "none"]]
      \/ export' = [export EXCEPT ![e] = [@ EXCEPT !.pc = "done", !.answer = answer]] /\ UNCHANGED admitted
  BY <1>1, Zenon
<1> HIDE DEF answer
<1>4. export \in [Exports -> ExportRecord]
  BY DEF TypeOK, ExportRecord
<1>5. export' # [export EXCEPT ![e] = [pc |-> "delete", token |-> t, id |-> id, format |-> format,
                                     found |-> clock, answer |-> "none"]]
  BY <1>4
<1>6. export' = [export EXCEPT ![e] = [@ EXCEPT !.pc = "done", !.answer = answer]] /\ UNCHANGED admitted
  BY <1>3, <1>5
<1>7. export'[e] = [export[e] EXCEPT !.pc = "done", !.answer = answer] /\ export[e] \in ExportRecord
  BY <1>4, <1>6
<1>8. export'[e].pc = "done" /\ export'[e].answer = answer
  BY <1>7 DEF ExportRecord
<1> QED
  BY <1>2, <1>6, <1>8

\* One handler at a time, what a token in redis says, what an export past GET knows, and
\* that it shares its token with none that was paid for.
THEOREM ExportInvariant == ASSUME ExportAssumption PROVE Spec => []EInv
<1>1. Init => EInv
  BY DEF Init, EInv, Alone, TokensSound, ExportsSound, Exclusive, Verifying, Exporting, Spends,
         NewVerify, NewExport, NoToken
<1>2. TypeOK /\ EInv /\ [Next]_vars => EInv'
  <2> SUFFICES ASSUME TypeOK, EInv, [Next]_vars PROVE EInv'
    OBVIOUS
  <2> USE DEF EInv, Verifying, Exporting, Spends
  <2>0. /\ \A v \in Verifies : vtok[v].until \in Nat
        /\ clock \in Nat /\ None \notin Nat
    BY DEF TypeOK, NoToken, ExportAssumption
  <2>1. ASSUME NEW v \in Verifies, Judge(v) PROVE EInv'
    <3>1. /\ verify[v].pc = "idle" /\ ~Busy
          /\ \A w \in Verifies \ {v} : verify'[w] = verify[w]
          /\ verify'[v].pc \in {"store", "done"} /\ verify'[v].at = None
          /\ UNCHANGED <<clock, vtok, export, admitted>>
      BY <2>1 DEF Judge, TypeOK
    <3>2. Alone'
      BY <3>1 DEF Alone, Busy
    <3>3. TokensSound'
      BY <2>0, <3>1 DEF TokensSound
    <3>4. ExportsSound'
      BY <2>0, <3>1 DEF ExportsSound, TokensSound
    <3>5. Exclusive'
      BY <3>1 DEF Exclusive
    <3> QED
      BY <3>2, <3>3, <3>4, <3>5
  <2>2. ASSUME NEW v \in Verifies, Store(v) PROVE EInv'
    <3>1. /\ verify[v].pc = "store" /\ verify'[v].pc = "reply"
          /\ verify'[v].id = verify[v].id /\ verify'[v].at = clock
          /\ vtok'[v].id = verify[v].id /\ vtok'[v].until = clock + Ttl
          /\ \A w \in Verifies \ {v} : verify'[w] = verify[w] /\ vtok'[w] = vtok[w]
          /\ UNCHANGED <<clock, export, admitted>>
      BY <2>2 DEF Store, TypeOK
    <3>2. Alone'
      BY <3>1 DEF Alone
    <3>3. TokensSound'
      BY <2>0, <3>1 DEF TokensSound, Ttl
    <3>4. ExportsSound'
      BY <2>0, <3>1 DEF ExportsSound, TokensSound
    <3>5. \A e \in Exports : export[e].pc = "answer" \/ Spends(e) => export[e].token \in Verifies \ {v}
      BY <2>0, <3>1 DEF ExportsSound, TokensSound
    <3>6. Exclusive'
      BY <3>1, <3>5 DEF Exclusive
    <3> QED
      BY <3>2, <3>3, <3>4, <3>6
  <2>3. ASSUME NEW v \in Verifies, Reply(v) \/ VerifyFails(v) PROVE EInv'
    <3>1. /\ verify[v].pc \in {"store", "reply"} /\ verify'[v].pc \in {"told", "done"}
          /\ verify'[v].id = verify[v].id /\ verify'[v].at = verify[v].at
          /\ \A w \in Verifies \ {v} : verify'[w] = verify[w]
          /\ UNCHANGED <<clock, vtok, export, admitted>>
      BY <2>3 DEF Reply, VerifyFails, TypeOK
    <3>2. Alone'
      BY <3>1 DEF Alone
    <3>3. TokensSound'
      BY <3>1 DEF TokensSound
    <3>4. ExportsSound'
      BY <3>1 DEF ExportsSound
    <3>5. Exclusive'
      BY <3>1 DEF Exclusive
    <3> QED
      BY <3>2, <3>3, <3>4, <3>5
  <2>4. ASSUME NEW e \in Exports, Get(e) PROVE EInv'
    <3>1. /\ export[e].pc = "idle" /\ ~Busy
          /\ \A d \in Exports \ {e} : export'[d] = export[d]
          /\ UNCHANGED <<clock, vtok, verify>>
      BY <2>4 DEF Get, TypeOK
    <3>2. CASE export'[e].pc = "delete"
      <4>1. PICK t \in Verifies : /\ Present(t) /\ vtok[t].id = export'[e].id
                                  /\ export'[e].token = t /\ export'[e].found = clock
                                  /\ export'[e].answer = "none"
                                  /\ admitted' = admitted \cup {<<e, t>>}
        BY <2>4, <3>2, GetFinds
      <4>2. vtok[t].until # 0 /\ verify[t].at # None /\ verify[t].at \in Nat
        BY <2>0, <4>1 DEF Present, TokensSound, TypeOK
      <4>3. Alone'
        BY <3>1 DEF Alone, Busy
      <4>4. TokensSound'
        BY <3>1 DEF TokensSound
      <4>5. ExportsSound'
        BY <2>0, <3>1, <3>2, <4>1, <4>2 DEF ExportsSound, TokensSound, Present
      <4>6. Exclusive'
        BY <3>1, <3>2, <4>1, <4>2 DEF Exclusive
      <4> QED
        BY <4>3, <4>4, <4>5, <4>6
    <3>3. CASE export'[e].pc # "delete"
      <4>1. /\ export'[e].pc = "done" /\ export'[e].answer \in {"401", "403"}
            /\ UNCHANGED admitted
        BY <2>4, <3>3, GetRefuses
      <4>2. Alone' /\ TokensSound'
        BY <3>1, <4>1 DEF Alone, TokensSound
      <4>3. ExportsSound'
        BY <3>1, <4>1 DEF ExportsSound
      <4>4. Exclusive'
        BY <3>1, <4>1 DEF Exclusive
      <4> QED
        BY <4>2, <4>3, <4>4
    <3> QED
      BY <3>2, <3>3
  <2>5. ASSUME NEW e \in Exports, Delete(e) PROVE EInv'
    <3> DEFINE t == export[e].token
    <3>1. /\ export[e].pc = "delete" /\ export'[e].pc = "answer"
          /\ export'[e].token = t /\ export'[e].id = export[e].id
          /\ export'[e].found = export[e].found /\ export'[e].answer = export[e].answer
          /\ \A d \in Exports \ {e} : export'[d] = export[d]
          /\ vtok' = [vtok EXCEPT ![t] = NoToken]
          /\ UNCHANGED <<clock, verify, admitted>>
      BY <2>5 DEF Delete, TypeOK
    <3>2. \A w \in Verifies : vtok'[w] = IF w = t THEN NoToken ELSE vtok[w]
      BY <3>1 DEF TypeOK
    <3>3. t \in Verifies
      BY <3>1 DEF ExportsSound
    <3>4. Alone'
      BY <3>1 DEF Alone
    <3>5. TokensSound'
      BY <3>1, <3>2 DEF TokensSound, NoToken
    <3>6. ExportsSound'
      BY <3>1 DEF ExportsSound
    <3>7. Exclusive'
      <4> SUFFICES ASSUME NEW d \in Exports, export'[d].pc = "answer" \/ Spends(d)'
                   PROVE  /\ vtok'[export'[d].token].until = 0
                          /\ \A x \in Exports :
                                (Exporting(x) \/ Spends(x))' /\ export'[x].token = export'[d].token => x = d
        BY DEF Exclusive
      <4>1. CASE d = e
        BY <3>1, <3>2, <3>3, <4>1 DEF Exclusive, NoToken, Alone
      <4>2. CASE d # e
        <5>1. export[d].pc = "answer" \/ Spends(d)
          BY <3>1, <4>2
        <5>2. export[d].token \in Verifies /\ vtok[export[d].token].until = 0
          BY <5>1 DEF Exclusive, ExportsSound
        <5> QED
          BY <3>1, <3>2, <4>2, <5>1, <5>2 DEF Exclusive, NoToken
      <4> QED
        BY <4>1, <4>2
    <3> QED
      BY <3>4, <3>5, <3>6, <3>7
  <2>6. ASSUME NEW e \in Exports, Answer(e) \/ ExportFails(e) PROVE EInv'
    <3>1. /\ export[e].pc \in {"delete", "answer"} /\ export'[e].pc = "done"
          /\ export[e].pc = "delete" => export'[e].answer = "500"
          /\ export'[e].token = export[e].token /\ export'[e].id = export[e].id
          /\ export'[e].found = export[e].found
          /\ \A d \in Exports \ {e} : export'[d] = export[d]
          /\ UNCHANGED <<clock, vtok, verify, admitted>>
      <4>1. CASE Answer(e)
        <5> DEFINE answer == IF export[e].format = "other" THEN "400" ELSE "exported"
        <5>1. export' = [export EXCEPT ![e] = [@ EXCEPT !.pc = "done", !.answer = answer]]
          BY <4>1, Zenon DEF Answer
        <5> HIDE DEF answer
        <5> QED
          BY <4>1, <5>1 DEF Answer, TypeOK
      <4>2. CASE ExportFails(e)
        BY <4>2 DEF ExportFails, TypeOK
      <4> QED
        BY <2>6, <4>1, <4>2
    <3>2. Alone' /\ TokensSound'
      BY <3>1 DEF Alone, TokensSound
    <3>3. ExportsSound'
      BY <3>1 DEF ExportsSound
    <3>4. Exclusive'
      BY <3>1 DEF Exclusive
    <3> QED
      BY <3>2, <3>3, <3>4
  <2>7. CASE Tick
    BY <2>7 DEF Tick, Alone, TokensSound, ExportsSound, Exclusive
  <2>8. CASE Flush
    <3>1. /\ \A w \in Verifies : vtok'[w] = NoToken
          /\ UNCHANGED <<clock, verify, export, admitted>>
      BY <2>8 DEF Flush
    <3>2. Alone' /\ ExportsSound'
      BY <3>1 DEF Alone, ExportsSound
    <3>3. TokensSound'
      BY <3>1 DEF TokensSound, NoToken
    <3>4. \A e \in Exports : export[e].pc = "answer" \/ Spends(e) => export[e].token \in Verifies
      BY DEF ExportsSound
    <3>5. Exclusive'
      BY <3>1, <3>4 DEF Exclusive, NoToken
    <3> QED
      BY <3>2, <3>3, <3>5
  <2>9. CASE UNCHANGED vars
    BY <2>9 DEF vars, Alone, TokensSound, ExportsSound, Exclusive
  <2> QED
    BY <2>1, <2>2, <2>3, <2>4, <2>5, <2>6, <2>7, <2>8, <2>9 DEF Next
<1> QED
  BY <1>1, <1>2, ExportTypeCorrect, PTL DEF Spec

\* A token pays for one answer, however many requests name it and whatever fails.
THEOREM ExportsOnce == ASSUME ExportAssumption PROVE Spec => []ExportedOnce
<1>1. EInv => ExportedOnce
  BY DEF EInv, Exclusive, ExportedOnce
<1> QED
  BY <1>1, ExportInvariant, PTL

\* What is exported was verified, within the 300 seconds before its token was found.
THEOREM ExportsVerified == ASSUME ExportAssumption PROVE Spec => []VerifiedRecently
<1>1. EInv => VerifiedRecently
  BY DEF EInv, ExportsSound, VerifiedRecently, Spends
<1> QED
  BY <1>1, ExportInvariant, PTL

-----------------------------------------------------------------------------
Ticket == [v \in Verifies |-> IF Present(v) THEN "open"
                             ELSE IF verify[v].at = None THEN "none" ELSE "closed"]
Paid == {e \in Exports : Spends(e)}
There == {v \in Verifies : Present(v)}

\* Tokens that are no longer there have closed, if nothing was stored or paid meanwhile.
LEMMA TokensClose ==
    ASSUME TypeOK, TokensSound, ExportAssumption,
           UNCHANGED <<verify, admitted>>, Paid' = Paid, There' \subseteq There
    PROVE  \E T \in SUBSET Verifies : Promise!Close(T)
<1> DEFINE T == There \ There'
<1>1. \A v \in T : Ticket[v] = "open"
  BY DEF Ticket, There
<1>2. \A v \in There : verify[v].at # None
  BY DEF TokensSound, There, Present, TypeOK, NoToken
<1>3. /\ Ticket = [v \in Verifies |-> IF v \in There THEN "open"
                                     ELSE IF verify[v].at = None THEN "none" ELSE "closed"]
      /\ Ticket' = [v \in Verifies |-> IF v \in There' THEN "open"
                                      ELSE IF verify'[v].at = None THEN "none" ELSE "closed"]
  BY DEF Ticket, There
<1>4. Ticket' = [v \in Verifies |-> IF v \in T THEN "closed" ELSE Ticket[v]]
  BY <1>2, <1>3
<1>5. T \in SUBSET Verifies
  BY DEF There
<1> HIDE DEF T
<1> QED
  BY <1>1, <1>4, <1>5 DEF Promise!Close, Ticket, Paid

\* ExportTokens implements TicketPromise: a token opens when it is stored, admits the
\* requests that find it, and closes when it is deleted, expires or is lost.
THEOREM ExportKeepsPromise == ASSUME ExportAssumption PROVE Spec => KeepsPromise
<1>1. Init => Promise!Init
  <2> SUFFICES ASSUME Init PROVE Promise!Init
    OBVIOUS
  <2>1. Ticket = [v \in Verifies |-> "none"]
    BY DEF Init, Ticket, Present, NewVerify, NoToken
  <2>2. Paid = {}
    BY DEF Init, Paid, Spends, NewExport
  <2> QED
    BY <2>1, <2>2 DEF Init, Promise!Init, Ticket, Paid
<1>2. TypeOK /\ TypeOK' /\ EInv /\ [Next]_vars => [Promise!Next]_(Promise!vars)
  <2> SUFFICES ASSUME TypeOK, TypeOK', EInv, [Next]_vars PROVE [Promise!Next]_(Promise!vars)
    OBVIOUS
  <2>0. \A v \in Verifies : vtok[v].until \in Nat /\ vtok'[v].until \in Nat
    BY DEF TypeOK, NoToken
  <2>1. ASSUME NEW v \in Verifies, Judge(v) \/ Reply(v) \/ VerifyFails(v) PROVE UNCHANGED Promise!vars
    <3>1. \A w \in Verifies : verify'[w].at = verify[w].at
      BY <2>1 DEF Judge, Reply, VerifyFails, TypeOK, EInv, TokensSound
    <3>2. UNCHANGED <<clock, vtok, export, admitted>>
      BY <2>1 DEF Judge, Reply, VerifyFails
    <3>3. Ticket' = Ticket /\ Paid' = Paid
      BY <3>1, <3>2 DEF Ticket, Paid, Present, Spends
    <3> QED
      BY <3>2, <3>3 DEF Promise!vars, Ticket, Paid
  <2>2. ASSUME NEW v \in Verifies, Store(v) PROVE Promise!Open(v)
    <3>1. /\ verify[v].pc = "store" /\ verify'[v].at = clock /\ vtok'[v].until = clock + Ttl
          /\ \A w \in Verifies \ {v} : verify'[w] = verify[w] /\ vtok'[w] = vtok[w]
          /\ UNCHANGED <<clock, export, admitted>>
      BY <2>2 DEF Store, TypeOK
    <3>2. verify[v].at = None /\ vtok[v].until = 0 /\ clock \in Nat
      BY <3>1 DEF EInv, TokensSound, TypeOK
    <3>3. ~(vtok[v].until > clock) /\ vtok'[v].until > clock'
      BY <3>1, <3>2 DEF Ttl
    <3>4. Ticket[v] = "none"
      BY <3>2, <3>3 DEF Ticket, Present
    <3>5. Ticket' = [Ticket EXCEPT ![v] = "open"]
      BY <3>1, <3>3 DEF Ticket, Present
    <3>6. Paid' = Paid
      BY <3>1 DEF Paid, Spends
    <3> QED
      BY <3>1, <3>4, <3>5, <3>6 DEF Promise!Open, Ticket, Paid
  <2>3. ASSUME NEW e \in Exports, Get(e) PROVE (\E t \in Verifies : Promise!Admit(e, t)) \/ UNCHANGED Promise!vars
    <3>1. /\ export[e].pc = "idle"
          /\ \A d \in Exports \ {e} : export'[d] = export[d]
          /\ UNCHANGED <<clock, vtok, verify>>
      BY <2>3 DEF Get, TypeOK
    <3>2. Ticket' = Ticket
      BY <3>1 DEF Ticket, Present
    <3>3. ~Spends(e)
      BY <3>1 DEF EInv, ExportsSound, Spends
    <3>4. CASE export'[e].pc = "delete"
      <4>1. PICK t \in Verifies : Present(t) /\ export'[e].answer = "none" /\ admitted' = admitted \cup {<<e, t>>}
        BY <2>3, <3>4, GetFinds
      <4>2. Paid' = Paid
        BY <3>1, <3>3, <4>1 DEF Paid, Spends
      <4>3. Promise!Admit(e, t)
        BY <3>2, <4>1, <4>2 DEF Promise!Admit, Ticket, Paid
      <4> QED
        BY <4>3
    <3>5. CASE export'[e].pc # "delete"
      <4>1. export'[e].answer \in {"401", "403"} /\ UNCHANGED admitted
        BY <2>3, <3>5, GetRefuses
      <4>2. Paid' = Paid
        BY <3>1, <3>3, <4>1 DEF Paid, Spends
      <4> QED
        BY <3>2, <4>1, <4>2 DEF Promise!vars, Ticket, Paid
    <3> QED
      BY <3>4, <3>5
  <2>4. ASSUME NEW e \in Exports, Delete(e) PROVE \E T \in SUBSET Verifies : Promise!Close(T)
    <3>1. /\ \A d \in Exports : export'[d].answer = export[d].answer
          /\ \A w \in Verifies : vtok'[w] = vtok[w] \/ vtok'[w] = NoToken
          /\ UNCHANGED <<clock, verify, admitted>>
      BY <2>4 DEF Delete, TypeOK
    <3>2. Paid' = Paid
      BY <3>1 DEF Paid, Spends
    <3>3. There' \subseteq There
      BY <3>1 DEF There, Present, NoToken, TypeOK
    <3> QED
      BY <3>1, <3>2, <3>3, TokensClose DEF EInv
  <2>5. ASSUME NEW e \in Exports, Answer(e) PROVE Promise!Use(e)
    <3>1. /\ export[e].pc = "answer" /\ export'[e].answer \in {"400", "exported"}
          /\ \A d \in Exports \ {e} : export'[d] = export[d]
          /\ UNCHANGED <<clock, vtok, verify, admitted>>
      <4> DEFINE answer == IF export[e].format = "other" THEN "400" ELSE "exported"
      <4>1. answer \in {"400", "exported"}
        BY Zenon
      <4>2. export' = [export EXCEPT ![e] = [@ EXCEPT !.pc = "done", !.answer = answer]]
        BY <2>5, Zenon DEF Answer
      <4> HIDE DEF answer
      <4> QED
        BY <2>5, <4>1, <4>2 DEF Answer, TypeOK
    <3>2. ~Spends(e) /\ export[e].token \in Verifies /\ <<e, export[e].token>> \in admitted
      BY <3>1 DEF EInv, ExportsSound, Exporting, Spends
    <3>3. Paid' = Paid \cup {e}
      BY <3>1 DEF Paid, Spends
    <3>4. Ticket' = Ticket
      BY <3>1 DEF Ticket, Present
    <3> QED
      BY <3>1, <3>2, <3>3, <3>4 DEF Promise!Use, Ticket, Paid
  <2>6. ASSUME NEW e \in Exports, ExportFails(e) PROVE UNCHANGED Promise!vars
    <3>1. /\ export[e].pc \in {"delete", "answer"} /\ export'[e].answer = "500"
          /\ \A d \in Exports \ {e} : export'[d] = export[d]
          /\ UNCHANGED <<clock, vtok, verify, admitted>>
      BY <2>6 DEF ExportFails, TypeOK
    <3>2. ~Spends(e)
      BY <3>1 DEF EInv, ExportsSound, Spends
    <3>3. Paid' = Paid /\ Ticket' = Ticket
      BY <3>1, <3>2 DEF Paid, Spends, Ticket, Present
    <3> QED
      BY <3>1, <3>3 DEF Promise!vars, Ticket, Paid
  <2>7. CASE Tick \/ Flush
    <3>1. UNCHANGED <<verify, export, admitted>>
      BY <2>7 DEF Tick, Flush
    <3>2. There' \subseteq There
      BY <2>0, <2>7 DEF Tick, Flush, There, Present, NoToken, TypeOK, ExportAssumption
    <3>3. Paid' = Paid
      BY <3>1 DEF Paid, Spends
    <3>4. \E T \in SUBSET Verifies : Promise!Close(T)
      BY <3>1, <3>2, <3>3, TokensClose DEF EInv
    <3> QED
      BY <3>4 DEF Promise!Next
  <2>8. CASE UNCHANGED vars
    BY <2>8 DEF vars, Promise!vars, Present, Spends
  <2> QED
    BY <2>1, <2>2, <2>3, <2>4, <2>5, <2>6, <2>7, <2>8 DEF Next, Promise!Next
<1> QED
  BY <1>1, <1>2, ExportTypeCorrect, ExportInvariant, PTL DEF Spec, KeepsPromise, Promise!Spec
=============================================================================
