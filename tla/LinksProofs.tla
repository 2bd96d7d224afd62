----------------------------- MODULE LinksProofs -----------------------------
(***************************************************************************)
(* Proofs about both editions of the password links, for any names,        *)
(* requests, time to live and clock.                                       *)
(*                                                                         *)
(* LinksV2: a row is inserted by one request, once, and its owner and      *)
(* expiry never change (RowsSound); so what a request read of a link stays *)
(* true while time passes (RequestsSound), and an account that was         *)
(* announced keeps its password until a link of its own is used            *)
(* (AccountsSound).                                                        *)
(*                                                                         *)
(* LinksV1: a request stores its link once, and whoever succeeds with a    *)
(* link has taken it out of the dictionary (FirstSound), where nobody puts *)
(* it again; so a second request for it does not succeed (SuccessApart).   *)
(***************************************************************************)
EXTENDS Links, TLAPS

Pcs == {"idle", "check", "insert", "post", "judge", "update", "mark", "done"}

\* A request keeps its type when it goes on.
LEMMA Goes ==
    ASSUME TypeOK, NEW r \in Reqs, NEW pc \in Pcs, Goto(r, pc)
    PROVE  req' \in [Reqs -> ReqState]
<1>1. [req[r] EXCEPT !.pc = pc] \in ReqState
  BY DEF TypeOK, ReqState, Pcs
<1> QED
  BY <1>1 DEF Goto, TypeOK

\* A signup or an ask has a name, a change has a link with a row, and so has an ask that
\* is to be delivered.
RequestsNamed ==
    \A r \in Reqs :
        /\ req[r].pc # "idle" /\ req[r].kind # "change" => req[r].name # None
        /\ req[r].pc # "idle" /\ req[r].kind = "change" =>
              req[r].link \in Reqs /\ rows[req[r].link].owner # None
        /\ req[r].pc = "post" => rows[r].owner # None

\* What a request that goes on leaves alone.
LEMMA GoesAlone ==
    ASSUME TypeOK, NEW r \in Reqs, NEW pc \in Pcs, Goto(r, pc)
    PROVE  /\ req'[r] = [req[r] EXCEPT !.pc = pc]
           /\ req'[r].kind = req[r].kind /\ req'[r].name = req[r].name /\ req'[r].link = req[r].link
           /\ req'[r].used = req[r].used /\ req'[r].judged = req[r].judged
           /\ req'[r].created = req[r].created /\ req'[r].pc = pc
           /\ \A q \in Reqs \ {r} : req'[q] = req[q]
<1>1. req'[r] = [req[r] EXCEPT !.pc = pc] /\ req[r] \in ReqState
  BY DEF Goto, TypeOK
<1>2. \A q \in Reqs \ {r} : req'[q] = req[q]
  BY DEF Goto, TypeOK
<1> QED
  BY <1>1, <1>2 DEF ReqState

\* A request that goes on keeps its name and its link, and rows keep their owners.
LEMMA NamedStays ==
    ASSUME TypeOK, RequestsNamed, NEW r \in Reqs, NEW pc \in Pcs, Goto(r, pc),
           req[r].pc # "idle",
           pc = "post" => rows'[r].owner # None,
           \A t \in Reqs : rows[t].owner # None => rows'[t].owner # None
    PROVE  RequestsNamed'
<1>1. /\ req'[r].kind = req[r].kind /\ req'[r].name = req[r].name /\ req'[r].link = req[r].link
      /\ req'[r].pc = pc
      /\ \A q \in Reqs \ {r} : req'[q] = req[q]
  BY GoesAlone
<1> SUFFICES ASSUME NEW q \in Reqs
             PROVE  /\ req'[q].pc # "idle" /\ req'[q].kind # "change" => req'[q].name # None
                    /\ req'[q].pc # "idle" /\ req'[q].kind = "change" =>
                          req'[q].link \in Reqs /\ rows'[req'[q].link].owner # None
                    /\ req'[q].pc = "post" => rows'[q].owner # None
  BY DEF RequestsNamed
<1>2. CASE q = r
  BY <1>1, <1>2 DEF RequestsNamed
<1>3. CASE q # r
  BY <1>1, <1>3 DEF RequestsNamed
<1> QED
  BY <1>2, <1>3

\* The clock, the tables, the inbox and the requests keep their types.
LEMMA LinksTyped == ASSUME LinksAssumption PROVE Spec => [](TypeOK /\ RequestsNamed)
<1>1. Init => TypeOK /\ RequestsNamed
  <2> SUFFICES ASSUME Init PROVE TypeOK /\ RequestsNamed
    OBVIOUS
  <2>1. [kind |-> "ask", name |-> None, link |-> None, pc |-> "idle",
         used |-> FALSE, judged |-> 0, created |-> FALSE] \in ReqState
    BY DEF ReqState, Kinds
  <2>2. NoRow \in Rows
    BY DEF NoRow, Rows
  <2>3. req \in [Reqs -> ReqState] /\ rows \in [Reqs -> Rows]
    BY <2>1, <2>2 DEF Init
  <2>4. RequestsNamed
    BY DEF Init, RequestsNamed
  <2> QED
    BY <2>3, <2>4 DEF Init, TypeOK, LinksAssumption
<1>2. TypeOK /\ RequestsNamed /\ [Next]_vars => TypeOK' /\ RequestsNamed'
  <2> SUFFICES ASSUME TypeOK, RequestsNamed, [Next]_vars PROVE TypeOK' /\ RequestsNamed'
    OBVIOUS
  <2>1. ASSUME NEW r \in Reqs, Arrive(r) PROVE TypeOK' /\ RequestsNamed'
    <3>1. PICK kind \in Kinds, n \in Names \cup {None}, t \in inbox \cup {None} :
             /\ (kind = "change") <=> (t # None)
             /\ (kind = "change") <=> (n = None)
             /\ req' = [req EXCEPT ![r] = [@ EXCEPT !.kind = kind, !.name = n, !.link = t, !.pc = "check"]]
      BY <2>1 DEF Arrive
    <3>2. /\ t \in Reqs \cup {None}
          /\ t # None => t \in Reqs /\ rows[t].owner # None
      BY DEF TypeOK
    <3>3. [req[r] EXCEPT !.kind = kind, !.name = n, !.link = t, !.pc = "check"] \in ReqState
      BY <3>2 DEF TypeOK, ReqState
    <3>4. req' \in [Reqs -> ReqState]
      BY <3>1, <3>3 DEF TypeOK
    <3>5. req'[r].kind = kind /\ req'[r].name = n /\ req'[r].link = t /\ req'[r].pc = "check"
      BY <3>1, <3>3 DEF TypeOK, ReqState
    <3>6. \A q \in Reqs \ {r} : req'[q] = req[q]
      BY <3>1 DEF TypeOK
    <3>7. RequestsNamed'
      BY <2>1, <3>1, <3>2, <3>5, <3>6 DEF RequestsNamed, Arrive
    <3> QED
      BY <2>1, <3>4, <3>7 DEF Arrive, TypeOK
  <2>2. ASSUME NEW r \in Reqs, Fails(r) \/ SignupCheck(r) \/ AskCheck(r) PROVE TypeOK' /\ RequestsNamed'
    <3>1. PICK pc \in {"done", "insert"} : Goto(r, pc)
      BY <2>2 DEF Fails, SignupCheck, AskCheck, Done
    <3>2. req' \in [Reqs -> ReqState]
      BY <3>1, Goes DEF Pcs
    <3>3. req[r].pc # "idle" /\ UNCHANGED <<now, users, rows, inbox, admitted, changed>>
      BY <2>2 DEF Fails, SignupCheck, AskCheck, At
    <3>4. RequestsNamed'
      BY <3>1, <3>3, NamedStays DEF Pcs
    <3> QED
      BY <3>2, <3>3, <3>4 DEF TypeOK
  <2>3. ASSUME NEW r \in Reqs, SignupInsert(r) PROVE TypeOK' /\ RequestsNamed'
    <3>1. PICK ok \in BOOLEAN : req' = [req EXCEPT ![r] = [@ EXCEPT !.pc = "done", !.created = ok]]
      BY <2>3 DEF SignupInsert
    <3>2. [req[r] EXCEPT !.pc = "done", !.created = ok] \in ReqState
      BY DEF TypeOK, ReqState
    <3>3. req' \in [Reqs -> ReqState]
      BY <3>1, <3>2 DEF TypeOK
    <3>4. users' \in [Names -> Reqs \cup {"initial", None}]
      BY <2>3 DEF SignupInsert, TypeOK
    <3>5. /\ req'[r].kind = req[r].kind /\ req'[r].name = req[r].name /\ req'[r].pc = "done"
          /\ req'[r].link = req[r].link
          /\ \A q \in Reqs \ {r} : req'[q] = req[q]
      BY <3>1 DEF TypeOK, ReqState
    <3>6. RequestsNamed'
      BY <2>3, <3>5 DEF RequestsNamed, SignupInsert, At
    <3> QED
      BY <2>3, <3>3, <3>4, <3>6 DEF SignupInsert, TypeOK
  <2>4. ASSUME NEW r \in Reqs, AskInsert(r) PROVE TypeOK' /\ RequestsNamed'
    <3>1. PICK pc \in {"done", "post"} : Goto(r, pc)
      BY <2>4 DEF AskInsert
    <3>2. req' \in [Reqs -> ReqState]
      BY <3>1, Goes DEF Pcs
    <3>3. rows' \in [Reqs -> Rows]
      BY <2>4 DEF AskInsert, Rows, TypeOK, LinksAssumption, ReqState
    <3>4. req[r].name # None /\ req[r].kind = "ask" /\ req[r].pc = "insert"
      BY <2>4 DEF AskInsert, At, RequestsNamed
    <3>5. rows'[r].owner # None /\ \A t \in Reqs \ {r} : rows'[t] = rows[t]
      BY <2>4, <3>4 DEF AskInsert, TypeOK
    <3>6. RequestsNamed'
      BY <3>1, <3>4, <3>5, NamedStays DEF Pcs
    <3>7. inbox' \subseteq {t \in Reqs : rows'[t].owner # None}
      BY <2>4, <3>5 DEF AskInsert, TypeOK
    <3> QED
      BY <2>4, <3>2, <3>3, <3>6, <3>7 DEF AskInsert, TypeOK
  <2>5. ASSUME NEW r \in Reqs, AskPost(r) PROVE TypeOK' /\ RequestsNamed'
    <3>1. req' \in [Reqs -> ReqState]
      BY <2>5, Goes DEF AskPost, Done, Pcs
    <3>2. req[r].pc = "post" /\ req[r].kind = "ask" /\ UNCHANGED <<now, users, rows, admitted, changed>>
      BY <2>5 DEF AskPost, At
    <3>3. RequestsNamed'
      BY <2>5, <3>2, NamedStays DEF AskPost, Done, Pcs, RequestsNamed
    <3>4. inbox' \subseteq {t \in Reqs : rows'[t].owner # None}
      BY <2>5, <3>2 DEF AskPost, TypeOK, RequestsNamed
    <3> QED
      BY <3>1, <3>2, <3>3, <3>4 DEF TypeOK
  <2>6. ASSUME NEW r \in Reqs, ChangeSelect(r) PROVE TypeOK' /\ RequestsNamed'
    <3>1. /\ req[r].kind = "change" /\ req[r].pc = "check"
          /\ req[r].link \in Reqs /\ rows[req[r].link] \in Rows /\ rows[req[r].link].owner # None
      BY <2>6 DEF ChangeSelect, At, RequestsNamed, TypeOK
    <3>2. PICK n \in Names \cup {None}, used \in BOOLEAN :
             req' = [req EXCEPT ![r] = [@ EXCEPT !.pc = "judge", !.name = n, !.used = used]]
      BY <2>6, <3>1 DEF ChangeSelect, Rows
    <3>3. [req[r] EXCEPT !.pc = "judge", !.name = n, !.used = used] \in ReqState
      BY DEF TypeOK, ReqState
    <3>4. req' \in [Reqs -> ReqState]
      BY <3>2, <3>3 DEF TypeOK
    <3>5. /\ req'[r].kind = req[r].kind /\ req'[r].link = req[r].link /\ req'[r].pc = "judge"
          /\ \A q \in Reqs \ {r} : req'[q] = req[q]
      BY <3>2 DEF TypeOK, ReqState
    <3>6. UNCHANGED <<now, users, rows, inbox, changed>>
      BY <2>6 DEF ChangeSelect
    <3>7. RequestsNamed'
      BY <3>1, <3>5, <3>6 DEF RequestsNamed
    <3>8. admitted' \subseteq Reqs \X Reqs
      BY <2>6, <3>1 DEF ChangeSelect, TypeOK
    <3> QED
      BY <3>4, <3>6, <3>7, <3>8 DEF TypeOK
  <2>7. ASSUME NEW r \in Reqs, ChangeJudge(r) PROVE TypeOK' /\ RequestsNamed'
    <3>1. PICK pc \in {"update", "done"} :
             req' = [req EXCEPT ![r] = [@ EXCEPT !.pc = pc, !.judged = now]]
      BY <2>7, Zenon DEF ChangeJudge
    <3>2. [req[r] EXCEPT !.pc = pc, !.judged = now] \in ReqState
      BY DEF TypeOK, ReqState
    <3>3. req' \in [Reqs -> ReqState]
      BY <3>1, <3>2 DEF TypeOK
    <3>4. /\ req'[r].kind = req[r].kind /\ req'[r].name = req[r].name
          /\ req'[r].link = req[r].link /\ req'[r].pc = pc
          /\ \A q \in Reqs \ {r} : req'[q] = req[q]
      BY <3>1 DEF TypeOK, ReqState
    <3>5. req[r].pc = "judge" /\ UNCHANGED <<now, users, rows, inbox, admitted, changed>>
      BY <2>7 DEF ChangeJudge, At
    <3>6. RequestsNamed'
      BY <3>4, <3>5 DEF RequestsNamed
    <3> QED
      BY <3>3, <3>5, <3>6 DEF TypeOK
  <2>8. ASSUME NEW r \in Reqs, ChangeUpdate(r) PROVE TypeOK' /\ RequestsNamed'
    <3>1. PICK pc \in {"mark", "done"} : Goto(r, pc)
      BY <2>8 DEF ChangeUpdate
    <3>2. req' \in [Reqs -> ReqState]
      BY <3>1, Goes DEF Pcs
    <3>3. req[r].pc = "update" /\ UNCHANGED <<now, rows, inbox, admitted>>
      BY <2>8 DEF ChangeUpdate, At
    <3>4. RequestsNamed'
      BY <3>1, <3>3, NamedStays DEF Pcs
    <3>5. users' \in [Names -> Reqs \cup {"initial", None}] /\ changed' \subseteq Reqs
      BY <2>8 DEF ChangeUpdate, TypeOK
    <3> QED
      BY <3>2, <3>3, <3>4, <3>5 DEF TypeOK
  <2>9. ASSUME NEW r \in Reqs, ChangeMark(r) PROVE TypeOK' /\ RequestsNamed'
    <3>1. req' \in [Reqs -> ReqState] /\ Goto(r, "done")
      BY <2>9, Goes DEF ChangeMark, Done, Pcs
    <3>2. req[r].pc = "mark" /\ UNCHANGED <<now, users, inbox, admitted, changed>>
      BY <2>9 DEF ChangeMark, At
    <3>3. \A t \in Reqs : [rows[t] EXCEPT !.used = TRUE] \in Rows /\ [rows[t] EXCEPT !.used = TRUE].owner = rows[t].owner
      BY DEF TypeOK, Rows
    <3>4. /\ rows' \in [Reqs -> Rows]
          /\ \A t \in Reqs : rows'[t].owner = rows[t].owner
      BY <2>9, <3>3 DEF ChangeMark, TypeOK
    <3>5. RequestsNamed'
      BY <3>1, <3>2, <3>4, NamedStays DEF Pcs
    <3> QED
      BY <3>1, <3>2, <3>4, <3>5 DEF TypeOK
  <2>10. CASE Restart
    <3>1. \A r \in Reqs : [req[r] EXCEPT !.pc = "done"] \in ReqState
      BY DEF TypeOK, ReqState
    <3>2. req' \in [Reqs -> ReqState]
      BY <2>10, <3>1 DEF Restart, TypeOK
    <3>3. \A r \in Reqs : /\ req'[r].kind = req[r].kind /\ req'[r].name = req[r].name /\ req'[r].link = req[r].link
                          /\ req'[r].pc # "idle" => req[r].pc # "idle"
                          /\ req'[r].pc # "post"
      BY <2>10 DEF Restart, TypeOK, ReqState
    <3>4. RequestsNamed'
      BY <2>10, <3>3 DEF Restart, RequestsNamed
    <3> QED
      BY <2>10, <3>2, <3>4 DEF Restart, TypeOK
  <2>11. CASE Tick
    BY <2>11 DEF Tick, TypeOK, RequestsNamed
  <2>12. CASE UNCHANGED vars
    BY <2>12 DEF vars, TypeOK, RequestsNamed
  <2> QED
    BY <2>1, <2>2, <2>3, <2>4, <2>5, <2>6, <2>7, <2>8, <2>9, <2>10, <2>11, <2>12 DEF Next, Request
<1> QED
  BY <1>1, <1>2, PTL DEF Spec

\* The clock, the tables, the inbox and the requests keep their types.
THEOREM LinksTypeCorrect == ASSUME LinksAssumption PROVE Spec => []TypeOK
  BY LinksTyped, PTL

-----------------------------------------------------------------------------
\* A row is inserted by its own request, which is past inserting from then on.
RowsSound == \A t \in Reqs : rows[t].owner # None => req[t].pc \in {"post", "done"}

\* What a change request read of its link, and what it was judged by.
RequestSound(r) ==
    /\ req[r].pc \in {"judge", "update", "mark"} =>
          req[r].kind = "change" /\ req[r].name = rows[req[r].link].owner
    /\ req[r].pc = "judge" /\ ~req[r].used =>
          <<r, req[r].link>> \in admitted \/ now > rows[req[r].link].expires
    /\ req[r].pc = "update" => <<r, req[r].link>> \in admitted
    /\ req[r].pc \in {"update", "mark"} => req[r].judged <= rows[req[r].link].expires
    /\ r \in changed => /\ req[r].pc \in {"mark", "done"} /\ req[r].kind = "change"
                        /\ req[r].judged <= rows[req[r].link].expires
                        /\ req[r].name = rows[req[r].link].owner
RequestsSound == \A r \in Reqs : RequestSound(r)

\* An account that was announced has its password, or one that a link of its own set.
AccountsSound ==
    \A r \in Reqs : req[r].created =>
        /\ req[r].pc = "done" /\ req[r].kind = "signup"
        /\ \/ users[req[r].name] = r
           \/ users[req[r].name] \in changed /\ req[users[req[r].name]].name = req[r].name

LInv == RowsSound /\ RequestsSound /\ AccountsSound

\* The rows that there are keep their owner and their expiry, and admissions, changes and
\* time are only added to.
LEMMA RowsStay ==
    ASSUME LinksAssumption, TypeOK, RequestsNamed, RowsSound, [Next]_vars
    PROVE  \A t \in Reqs : rows[t].owner # None =>
              rows'[t].owner = rows[t].owner /\ rows'[t].expires = rows[t].expires
<1>1. ASSUME NEW r \in Reqs, AskInsert(r)
      PROVE  rows[r].owner = None /\ \A t \in Reqs \ {r} : rows'[t] = rows[t]
  BY <1>1 DEF AskInsert, At, RowsSound, TypeOK
<1>2. ASSUME NEW r \in Reqs, ChangeMark(r)
      PROVE  \A t \in Reqs : rows'[t].owner = rows[t].owner /\ rows'[t].expires = rows[t].expires
  <2>1. \A t \in Reqs : /\ [rows[t] EXCEPT !.used = TRUE].owner = rows[t].owner
                        /\ [rows[t] EXCEPT !.used = TRUE].expires = rows[t].expires
    BY DEF TypeOK, Rows
  <2> QED
    BY <1>2, <2>1 DEF ChangeMark, TypeOK
<1>3. (\E r \in Reqs : AskInsert(r) \/ ChangeMark(r)) \/ rows' = rows
  BY Zenon DEF Next, Request, Arrive, Fails, SignupCheck, SignupInsert, AskCheck, AskPost, ChangeSelect,
               ChangeJudge, ChangeUpdate, Restart, Tick, vars
<1> QED
  BY <1>1, <1>2, <1>3

\* A step in which one request goes on, without reading its link or setting a password.
LEMMA OnlyGoes ==
    ASSUME LinksAssumption, TypeOK, TypeOK', RequestsNamed, LInv, NEW r \in Reqs, NEW pc \in Pcs, Goto(r, pc),
           req[r].pc \notin {"idle", "judge"}, pc \in {"insert", "post", "done"},
           pc = "insert" => req[r].pc = "check",
           pc = "post" => req[r].pc = "insert",
           UNCHANGED <<now, users, admitted, changed>>,
           \A t \in Reqs \ {r} : rows[t].owner = None => rows'[t].owner = None,
           pc \in {"check", "insert"} => rows'[r] = rows[r],
           \A t \in Reqs : rows[t].owner # None =>
              rows'[t].owner = rows[t].owner /\ rows'[t].expires = rows[t].expires
    PROVE  LInv'
<1>1. /\ req'[r].kind = req[r].kind /\ req'[r].name = req[r].name /\ req'[r].link = req[r].link
      /\ req'[r].used = req[r].used /\ req'[r].judged = req[r].judged
      /\ req'[r].created = req[r].created /\ req'[r].pc = pc
      /\ \A q \in Reqs \ {r} : req'[q] = req[q]
  BY GoesAlone
<1>2. RowsSound'
  BY <1>1 DEF LInv, RowsSound
<1>3. RequestsSound'
  <2> SUFFICES ASSUME NEW q \in Reqs PROVE RequestSound(q)'
    BY DEF RequestsSound
  <2>1. req'[q].kind = req[q].kind /\ req'[q].name = req[q].name /\ req'[q].link = req[q].link
        /\ req'[q].judged = req[q].judged /\ req'[q].used = req[q].used
    BY <1>1
  <2>2. req[q].pc # "idle" /\ req[q].kind = "change" =>
           /\ rows'[req[q].link].owner = rows[req[q].link].owner
           /\ rows'[req[q].link].expires = rows[req[q].link].expires
    BY DEF RequestsNamed
  <2>3. CASE q = r
    BY <1>1, <2>1, <2>2, <2>3 DEF LInv, RequestsSound, RequestSound
  <2>4. CASE q # r
    BY <1>1, <2>1, <2>2, <2>4 DEF LInv, RequestsSound, RequestSound
  <2> QED
    BY <2>3, <2>4
<1>4. AccountsSound'
  <2>1. \A q \in Reqs : /\ req'[q].created = req[q].created /\ req'[q].name = req[q].name
                        /\ req'[q].kind = req[q].kind /\ (req[q].pc = "done" => req'[q].pc = "done")
    BY <1>1
  <2>2. changed \subseteq Reqs
    BY DEF TypeOK
  <2> QED
    BY <2>1, <2>2 DEF LInv, AccountsSound
<1> QED
  BY <1>2, <1>3, <1>4 DEF LInv

\* What a request knew of its link it still knows after a step that is not its own.
LEMMA OthersStaySound ==
    ASSUME LinksAssumption, TypeOK, TypeOK', RequestsNamed, LInv, NEW q \in Reqs,
           req'[q] = req[q], now <= now', admitted \subseteq admitted', q \in changed' => q \in changed,
           \A t \in Reqs : rows[t].owner # None =>
              rows'[t].owner = rows[t].owner /\ rows'[t].expires = rows[t].expires
    PROVE  RequestSound(q)'
<1>1. req[q].pc # "idle" /\ req[q].kind = "change" =>
         /\ req[q].link \in Reqs
         /\ rows'[req[q].link].owner = rows[req[q].link].owner
         /\ rows'[req[q].link].expires = rows[req[q].link].expires
  BY DEF RequestsNamed
<1>2. now \in Nat /\ now' \in Nat /\ \A t \in Reqs : rows[t].expires \in Nat
  BY DEF TypeOK, Rows
<1> QED
  BY <1>1, <1>2 DEF LInv, RequestsSound, RequestSound

\* Rows, requests and accounts stay sound.
LEMMA LinksInvariant == ASSUME LinksAssumption PROVE Spec => []LInv
<1>1. Init => LInv
  <2> SUFFICES ASSUME Init PROVE LInv
    OBVIOUS
  <2>1. \A r \in Reqs : req[r].pc = "idle" /\ ~req[r].created /\ r \notin changed /\ rows[r].owner = None
    BY DEF Init, NoRow
  <2> QED
    BY <2>1 DEF LInv, RowsSound, RequestsSound, RequestSound, AccountsSound
<1>2. TypeOK /\ TypeOK' /\ RequestsNamed /\ LInv /\ [Next]_vars => LInv'
  <2> SUFFICES ASSUME TypeOK, TypeOK', RequestsNamed, LInv, [Next]_vars PROVE LInv'
    OBVIOUS
  <2>0. /\ \A t \in Reqs : rows[t].owner # None =>
              rows'[t].owner = rows[t].owner /\ rows'[t].expires = rows[t].expires
        /\ now \in Nat /\ changed \subseteq Reqs
    BY RowsStay DEF LInv, TypeOK
  <2>1. ASSUME NEW r \in Reqs, Arrive(r) PROVE LInv'
    <3>1. PICK kind \in Kinds, n \in Names \cup {None}, t \in inbox \cup {None} :
             req' = [req EXCEPT ![r] = [@ EXCEPT !.kind = kind, !.name = n, !.link = t, !.pc = "check"]]
      BY <2>1 DEF Arrive
    <3>2. /\ req[r].pc = "idle" /\ req'[r].pc = "check" /\ req'[r].created = req[r].created
          /\ \A q \in Reqs \ {r} : req'[q] = req[q]
          /\ UNCHANGED <<now, users, rows, inbox, admitted, changed>>
      BY <2>1, <3>1 DEF Arrive, TypeOK, ReqState
    <3>3. r \notin changed /\ ~req[r].created
      BY <3>2 DEF LInv, RequestsSound, RequestSound, AccountsSound
    <3>4. RowsSound'
      BY <3>2 DEF LInv, RowsSound
    <3>5. ASSUME NEW q \in Reqs
          PROVE  RequestSound(q)'
      <4>1. CASE q = r
        BY <3>2, <3>3, <4>1 DEF RequestSound
      <4>2. CASE q # r
        BY <2>0, <3>2, <4>2, OthersStaySound
      <4> QED
        BY <4>1, <4>2
    <3>6. RequestsSound'
      BY <3>5 DEF RequestsSound
    <3>7. AccountsSound'
      BY <2>0, <3>2, <3>3 DEF LInv, AccountsSound
    <3> QED
      BY <3>4, <3>6, <3>7 DEF LInv
  <2>2. ASSUME NEW r \in Reqs, Fails(r) \/ SignupCheck(r) \/ AskCheck(r) \/ AskPost(r) PROVE LInv'
    <3>1. PICK pc \in {"done", "insert"} : Goto(r, pc) /\ (pc = "insert" => req[r].pc = "check")
      BY <2>2 DEF Fails, SignupCheck, AskCheck, AskPost, Done, At
    <3>2. /\ req[r].pc \notin {"idle", "judge"}
          /\ UNCHANGED <<now, users, rows, admitted, changed>>
      BY <2>2 DEF Fails, SignupCheck, AskCheck, AskPost, At
    <3> QED
      BY <2>0, <3>1, <3>2, OnlyGoes DEF Pcs
  <2>3. ASSUME NEW r \in Reqs, AskInsert(r) PROVE LInv'
    <3>1. PICK pc \in {"done", "post"} : Goto(r, pc)
      BY <2>3 DEF AskInsert
    <3>2. /\ req[r].pc = "insert" /\ UNCHANGED <<now, users, admitted, changed>>
          /\ \A t \in Reqs \ {r} : rows'[t] = rows[t]
      BY <2>3 DEF AskInsert, At, TypeOK
    <3> QED
      BY <2>0, <3>1, <3>2, OnlyGoes DEF Pcs
  <2>4. ASSUME NEW r \in Reqs, SignupInsert(r) PROVE LInv'
    <3>1. PICK ok \in BOOLEAN : req' = [req EXCEPT ![r] = [@ EXCEPT !.pc = "done", !.created = ok]]
      BY <2>4 DEF SignupInsert
    <3>2. /\ req[r].pc = "insert" /\ req[r].kind = "signup" /\ req'[r].pc = "done" /\ req'[r].kind = "signup"
          /\ req'[r].name = req[r].name /\ req[r].name \in Names /\ users[req[r].name] = None
          /\ users' = [users EXCEPT ![req[r].name] = r]
          /\ \A q \in Reqs \ {r} : req'[q] = req[q]
          /\ UNCHANGED <<now, rows, inbox, admitted, changed>>
      BY <2>4, <3>1 DEF SignupInsert, At, Free, TypeOK, ReqState, RequestsNamed
    <3>3. r \notin changed
      BY <3>2 DEF LInv, RequestsSound, RequestSound
    <3>4. RowsSound'
      BY <3>2 DEF LInv, RowsSound
    <3>5. ASSUME NEW q \in Reqs
          PROVE  RequestSound(q)'
      <4>1. CASE q = r
        BY <3>2, <3>3, <4>1 DEF RequestSound
      <4>2. CASE q # r
        BY <2>0, <3>2, <4>2, OthersStaySound
      <4> QED
        BY <4>1, <4>2
    <3>6. RequestsSound'
      BY <3>5 DEF RequestsSound
    <3>7. AccountsSound'
      <4> SUFFICES ASSUME NEW q \in Reqs, req'[q].created
                   PROVE  /\ req'[q].pc = "done" /\ req'[q].kind = "signup"
                          /\ \/ users'[req'[q].name] = q
                             \/ /\ users'[req'[q].name] \in changed'
                                /\ req'[users'[req'[q].name]].name = req'[q].name
        BY DEF AccountsSound
      <4>1. CASE q = r
        BY <3>2, <4>1 DEF TypeOK
      <4>2. CASE q # r
        <5>1. req[q].created /\ req[q].kind = "signup" /\ req[q].pc = "done"
          BY <3>2, <4>2 DEF LInv, AccountsSound
        <5>2. req[q].name \in Names /\ users[req[q].name] # None
          BY <2>0, <5>1 DEF LInv, AccountsSound, TypeOK, ReqState, RequestsNamed, LinksAssumption
        <5>3. users'[req[q].name] = users[req[q].name]
          BY <3>2, <5>2 DEF TypeOK
        <5> QED
          BY <2>0, <3>2, <3>3, <4>2, <5>1, <5>3 DEF LInv, AccountsSound
      <4> QED
        BY <4>1, <4>2
    <3> QED
      BY <3>4, <3>6, <3>7 DEF LInv
  <2>5. ASSUME NEW r \in Reqs, ChangeSelect(r) PROVE LInv'
    <3>1. /\ req[r].kind = "change" /\ req[r].pc = "check"
          /\ req[r].link \in Reqs /\ rows[req[r].link] \in Rows
      BY <2>5 DEF ChangeSelect, At, RequestsNamed, TypeOK
    <3>2. PICK n \in Names \cup {None}, used \in BOOLEAN :
             /\ n = rows[req[r].link].owner /\ used = rows[req[r].link].used
             /\ req' = [req EXCEPT ![r] = [@ EXCEPT !.pc = "judge", !.name = n, !.used = used]]
      BY <2>5, <3>1 DEF ChangeSelect, Rows
    <3>3. /\ req'[r].kind = "change" /\ req'[r].link = req[r].link /\ req'[r].pc = "judge"
          /\ req'[r].name = n /\ req'[r].used = used /\ req'[r].created = req[r].created
          /\ \A q \in Reqs \ {r} : req'[q] = req[q]
      BY <3>1, <3>2 DEF TypeOK, ReqState
    <3>4. /\ UNCHANGED <<now, users, rows, inbox, changed>>
          /\ ~used => <<r, req[r].link>> \in admitted' \/ ~(now <= rows[req[r].link].expires)
          /\ admitted \subseteq admitted'
      BY <2>5, <3>2 DEF ChangeSelect
    <3>5. r \notin changed /\ ~req[r].created
      BY <3>1 DEF LInv, RequestsSound, RequestSound, AccountsSound
    <3>6. RowsSound'
      BY <3>1, <3>3, <3>4 DEF LInv, RowsSound
    <3>7. ASSUME NEW q \in Reqs PROVE RequestSound(q)'
      <4>1. CASE q = r
        <5>1. ~used => <<r, req[r].link>> \in admitted' \/ now > rows[req[r].link].expires
          BY <2>0, <3>1, <3>4 DEF Rows
        <5> QED
          BY <3>2, <3>3, <3>4, <3>5, <4>1, <5>1 DEF RequestSound
      <4>2. CASE q # r
        BY <2>0, <3>3, <3>4, <4>2, OthersStaySound
      <4> QED
        BY <4>1, <4>2
    <3>8. RequestsSound'
      BY <3>7 DEF RequestsSound
    <3>9. AccountsSound'
      <4> SUFFICES ASSUME NEW q \in Reqs, req'[q].created
                   PROVE  /\ req'[q].pc = "done" /\ req'[q].kind = "signup"
                          /\ \/ users'[req'[q].name] = q
                             \/ /\ users'[req'[q].name] \in changed'
                                /\ req'[users'[req'[q].name]].name = req'[q].name
        BY DEF AccountsSound
      <4>1. q # r
        BY <3>3, <3>5
      <4> QED
        BY <2>0, <3>3, <3>4, <3>5, <4>1 DEF LInv, AccountsSound
    <3> QED
      BY <3>6, <3>8, <3>9 DEF LInv
  <2>6. ASSUME NEW r \in Reqs, ChangeJudge(r) PROVE LInv'
    <3>1. PICK pc \in {"update", "done"} :
             /\ req' = [req EXCEPT ![r] = [@ EXCEPT !.pc = pc, !.judged = now]]
             /\ pc = "update" => ~req[r].used /\ ~Expired(req[r].link)
      BY <2>6, Zenon DEF ChangeJudge
    <3>2. /\ req[r].pc = "judge" /\ req[r].kind = "change"
          /\ UNCHANGED <<now, users, rows, inbox, admitted, changed>>
      BY <2>6 DEF ChangeJudge, At
    <3>3. /\ req'[r].kind = req[r].kind /\ req'[r].link = req[r].link /\ req'[r].pc = pc
          /\ req'[r].name = req[r].name /\ req'[r].judged = now /\ req'[r].created = req[r].created
          /\ \A q \in Reqs \ {r} : req'[q] = req[q]
      BY <3>1 DEF TypeOK, ReqState
    <3>4. r \notin changed /\ ~req[r].created /\ req[r].name = rows[req[r].link].owner
      BY <3>2 DEF LInv, RequestsSound, RequestSound, AccountsSound
    <3>5. /\ req[r].link \in Reqs /\ rows[req[r].link].expires \in Nat
          /\ ~req[r].used => <<r, req[r].link>> \in admitted \/ now > rows[req[r].link].expires
      BY <3>2 DEF LInv, RequestsSound, RequestSound, RequestsNamed, TypeOK, Rows
    <3>6. RowsSound'
      BY <3>2, <3>3 DEF LInv, RowsSound
    <3>7. ASSUME NEW q \in Reqs PROVE RequestSound(q)'
      <4>1. CASE q = r
        <5>1. pc = "update" => <<r, req[r].link>> \in admitted /\ now <= rows[req[r].link].expires
          BY <2>0, <3>1, <3>5 DEF Expired
        <5> QED
          BY <3>1, <3>2, <3>3, <3>4, <4>1, <5>1 DEF RequestSound
      <4>2. CASE q # r
        BY <2>0, <3>2, <3>3, <4>2, OthersStaySound
      <4> QED
        BY <4>1, <4>2
    <3>8. RequestsSound'
      BY <3>7 DEF RequestsSound
    <3>9. AccountsSound'
      <4> SUFFICES ASSUME NEW q \in Reqs, req'[q].created
                   PROVE  /\ req'[q].pc = "done" /\ req'[q].kind = "signup"
                          /\ \/ users'[req'[q].name] = q
                             \/ /\ users'[req'[q].name] \in changed'
                                /\ req'[users'[req'[q].name]].name = req'[q].name
        BY DEF AccountsSound
      <4>1. q # r
        BY <3>3, <3>4
      <4> QED
        BY <2>0, <3>2, <3>3, <3>4, <4>1 DEF LInv, AccountsSound
    <3> QED
      BY <3>6, <3>8, <3>9 DEF LInv
  <2>7. ASSUME NEW r \in Reqs, ChangeUpdate(r) PROVE LInv'
    <3>1. PICK pc \in {"mark", "done"} : Goto(r, pc)
      BY <2>7 DEF ChangeUpdate
    <3>2. /\ req[r].pc = "update" /\ req[r].kind = "change"
          /\ users' = [users EXCEPT ![req[r].name] = r] /\ changed' = changed \cup {r}
          /\ UNCHANGED <<now, rows, inbox, admitted>>
      BY <2>7 DEF ChangeUpdate, At
    <3>3. /\ req'[r].kind = req[r].kind /\ req'[r].link = req[r].link /\ req'[r].pc = pc
          /\ req'[r].name = req[r].name /\ req'[r].judged = req[r].judged
          /\ req'[r].created = req[r].created
          /\ \A q \in Reqs \ {r} : req'[q] = req[q]
      BY <3>1, GoesAlone DEF Pcs
    <3>4. /\ ~req[r].created /\ r \notin changed
          /\ req[r].name = rows[req[r].link].owner /\ req[r].judged <= rows[req[r].link].expires
      BY <3>2 DEF LInv, RequestsSound, RequestSound, AccountsSound
    <3>5. RowsSound'
      BY <3>2, <3>3 DEF LInv, RowsSound
    <3>6. ASSUME NEW q \in Reqs PROVE RequestSound(q)'
      <4>1. CASE q = r
        BY <3>2, <3>3, <3>4, <4>1 DEF RequestSound
      <4>2. CASE q # r
        BY <2>0, <3>2, <3>3, <4>2, OthersStaySound
      <4> QED
        BY <4>1, <4>2
    <3>7. RequestsSound'
      BY <3>6 DEF RequestsSound
    <3>8. AccountsSound'
      <4> SUFFICES ASSUME NEW q \in Reqs, req'[q].created
                   PROVE  /\ req'[q].pc = "done" /\ req'[q].kind = "signup"
                          /\ \/ users'[req'[q].name] = q
                             \/ /\ users'[req'[q].name] \in changed'
                                /\ req'[users'[req'[q].name]].name = req'[q].name
        BY DEF AccountsSound
      <4>1. q # r /\ req'[q] = req[q]
        BY <3>3, <3>4
      <4>2. /\ req[q].created /\ req[q].pc = "done" /\ req[q].kind = "signup"
            /\ \/ users[req[q].name] = q
               \/ users[req[q].name] \in changed /\ req[users[req[q].name]].name = req[q].name
        BY <4>1 DEF LInv, AccountsSound
      <4>3. req[q].name \in Names
        BY <4>2 DEF RequestsNamed, TypeOK, ReqState
      <4>4. CASE req[q].name = req[r].name
        BY <3>2, <3>3, <4>1, <4>2, <4>3, <4>4 DEF TypeOK
      <4>5. CASE req[q].name # req[r].name
        <5>1. users'[req[q].name] = users[req[q].name]
          BY <3>2, <4>3, <4>5 DEF TypeOK
        <5> QED
          BY <2>0, <3>2, <3>3, <4>1, <4>2, <5>1
      <4> QED
        BY <4>4, <4>5
    <3> QED
      BY <3>5, <3>7, <3>8 DEF LInv
  <2>8. ASSUME NEW r \in Reqs, ChangeMark(r) PROVE LInv'
    <3>1. /\ req[r].pc = "mark" /\ Goto(r, "done")
          /\ req[r].link \in Reqs /\ rows[req[r].link].owner # None
          /\ UNCHANGED <<now, users, admitted, changed>>
      BY <2>8 DEF ChangeMark, At, Done, RequestsNamed
    <3>2. \A t \in Reqs : rows[t].owner = None => rows'[t].owner = None
      BY <2>8, <3>1 DEF ChangeMark, TypeOK
    <3> QED
      BY <2>0, <3>1, <3>2, OnlyGoes DEF Pcs
  <2>9. CASE Restart
    <3>1. \A q \in Reqs : /\ req'[q].kind = req[q].kind /\ req'[q].name = req[q].name
                          /\ req'[q].link = req[q].link /\ req'[q].judged = req[q].judged
                          /\ req'[q].created = req[q].created
                          /\ req'[q].pc = IF req[q].pc = "idle" THEN "idle" ELSE "done"
      BY <2>9 DEF Restart, TypeOK, ReqState
    <3>2. UNCHANGED <<now, users, rows, admitted, changed>>
      BY <2>9 DEF Restart
    <3>3. RowsSound'
      BY <3>1, <3>2 DEF LInv, RowsSound
    <3>4. \A q \in Reqs : RequestSound(q)'
      BY <3>1, <3>2 DEF LInv, RequestsSound, RequestSound
    <3>5. AccountsSound'
      BY <2>0, <3>1, <3>2 DEF LInv, AccountsSound
    <3> QED
      BY <3>3, <3>4, <3>5 DEF LInv, RequestsSound
  <2>10. CASE Tick
    <3>1. now' = now + 1 /\ UNCHANGED <<users, rows, inbox, req, admitted, changed>>
      BY <2>10 DEF Tick
    <3>2. \A q \in Reqs : RequestSound(q)'
      BY <2>0, <3>1, OthersStaySound
    <3> QED
      BY <3>1, <3>2 DEF LInv, RowsSound, RequestsSound, AccountsSound
  <2>11. CASE UNCHANGED vars
    BY <2>11 DEF vars, LInv, RowsSound, RequestsSound, RequestSound, AccountsSound
  <2> QED
    BY <2>1, <2>2, <2>3, <2>4, <2>5, <2>6, <2>7, <2>8, <2>9, <2>10, <2>11 DEF Next, Request
<1> QED
  BY <1>1, <1>2, LinksTyped, LinksTypeCorrect, PTL DEF Spec

\* A password changed with a link belongs to the account the link was made for, and
\* the link had not expired when the request was judged (change_password, read before
\* the account is updated, in statements of their own).
THEOREM ChangesInTime == ASSUME LinksAssumption PROVE Spec => []ChangedInTime
<1>1. TypeOK /\ LInv => ChangedInTime
  BY DEF TypeOK, LInv, RequestsSound, RequestSound, ChangedInTime
<1> QED
  BY <1>1, LinksInvariant, LinksTypeCorrect, PTL

\* Whoever was told that an account was created has its password, until a link made for
\* that account changes it (signup's INSERT is the check, and nothing else sets passwords).
THEOREM AnnouncedCanLogin == ASSUME LinksAssumption PROVE Spec => []CreatedCanLogin
<1>1. LInv => CreatedCanLogin
  BY DEF LInv, AccountsSound, CreatedCanLogin
<1> QED
  BY <1>1, LinksInvariant, PTL

-----------------------------------------------------------------------------
\* The state of every link, and the links that are open.
Ticket == [t \in Reqs |-> IF rows[t].owner = None THEN "none"
                         ELSE IF rows[t].used \/ Expired(t) THEN "closed" ELSE "open"]
Opened == {t \in Reqs : rows[t].owner # None /\ ~(rows[t].used \/ Expired(t))}

\* When links are only marked or time passes, those that were open close together.
LEMMA LinksClose ==
    ASSUME TypeOK, UNCHANGED <<admitted, changed>>, Opened' \subseteq Opened,
           \A t \in Reqs : rows'[t].owner = rows[t].owner
    PROVE  \E T \in SUBSET Reqs : Promise!Close(T)
<1> DEFINE T == Opened \ Opened'
<1>1. \A t \in T : Ticket[t] = "open"
  BY DEF Ticket, Opened
<1>2. /\ Ticket = [t \in Reqs |-> IF t \in Opened THEN "open"
                                 ELSE IF rows[t].owner = None THEN "none" ELSE "closed"]
      /\ Ticket' = [t \in Reqs |-> IF t \in Opened' THEN "open"
                                  ELSE IF rows[t].owner = None THEN "none" ELSE "closed"]
  BY DEF Ticket, Opened
<1>3. \A t \in Opened : rows[t].owner # None
  BY DEF Opened
<1>4. Ticket' = [t \in Reqs |-> IF t \in T THEN "closed" ELSE Ticket[t]]
  BY <1>2, <1>3
<1>5. T \in SUBSET Reqs
  BY DEF Opened
<1> HIDE DEF T
<1> QED
  BY <1>1, <1>4, <1>5 DEF Promise!Close, Ticket

\* LinksV2 implements TicketPromise: a link opens when its row is inserted, admits the
\* requests that read it open, and closes when it is marked or expires.
THEOREM RowsKeepPromise == ASSUME LinksAssumption PROVE Spec => KeepsPromise
<1>1. Init => Promise!Init
  <2> SUFFICES ASSUME Init PROVE Promise!Init
    OBVIOUS
  <2>1. Ticket = [t \in Reqs |-> "none"]
    BY DEF Init, Ticket, NoRow
  <2> QED
    BY <2>1 DEF Init, Promise!Init, Ticket
<1>2. TypeOK /\ TypeOK' /\ RequestsNamed /\ LInv /\ [Next]_vars => [Promise!Next]_(Promise!vars)
  <2> SUFFICES ASSUME TypeOK, TypeOK', RequestsNamed, LInv, [Next]_vars PROVE [Promise!Next]_(Promise!vars)
    OBVIOUS
  <2>0. /\ now \in Nat /\ now' \in Nat
        /\ \A t \in Reqs : rows[t].expires \in Nat /\ rows'[t].expires \in Nat
    BY DEF TypeOK, Rows
  <2>1. ASSUME UNCHANGED <<now, rows, admitted, changed>> PROVE UNCHANGED Promise!vars
    BY <2>1 DEF Promise!vars, Expired
  <2>2. ASSUME NEW r \in Reqs, AskInsert(r) PROVE Promise!Open(r)
    <3>1. /\ rows' = [rows EXCEPT ![r] = [owner |-> req[r].name, used |-> FALSE, expires |-> now + Ttl]]
          /\ req[r].pc = "insert" /\ req[r].name # None
          /\ UNCHANGED <<now, admitted, changed>>
      BY <2>2 DEF AskInsert, At, RequestsNamed
    <3>2. /\ rows[r].owner = None
          /\ rows'[r].owner # None /\ rows'[r].used = FALSE /\ rows'[r].expires = now + Ttl
          /\ \A t \in Reqs \ {r} : rows'[t] = rows[t]
      BY <3>1 DEF LInv, RowsSound, TypeOK
    <3>3. ~(now' > rows'[r].expires)
      BY <2>0, <3>1, <3>2 DEF LinksAssumption
    <3>4. Ticket[r] = "none" /\ Ticket'[r] = "open" /\ \A t \in Reqs \ {r} : Ticket'[t] = Ticket[t]
      BY <3>1, <3>2, <3>3 DEF Ticket, Expired
    <3>5. Ticket' = [Ticket EXCEPT ![r] = "open"]
      BY <3>4 DEF Ticket
    <3> QED
      BY <3>1, <3>4, <3>5 DEF Promise!Open, Ticket
  <2>3. ASSUME NEW r \in Reqs, ChangeSelect(r)
        PROVE  (\E t \in Reqs : Promise!Admit(r, t)) \/ UNCHANGED Promise!vars
    <3>1. /\ req[r].link \in Reqs /\ rows[req[r].link].owner # None
          /\ UNCHANGED <<now, rows, changed>>
          /\ admitted' = IF ~rows[req[r].link].used /\ now <= rows[req[r].link].expires
                         THEN admitted \cup {<<r, req[r].link>>} ELSE admitted
      BY <2>3 DEF ChangeSelect, At, RequestsNamed
    <3>2. CASE ~rows[req[r].link].used /\ now <= rows[req[r].link].expires
      <4>1. ~Expired(req[r].link)
        BY <2>0, <3>1, <3>2 DEF Expired
      <4>2. Ticket[req[r].link] = "open"
        BY <3>1, <3>2, <4>1 DEF Ticket
      <4>3. Ticket' = Ticket
        BY <3>1 DEF Ticket, Expired
      <4>4. Promise!Admit(r, req[r].link)
        BY <3>1, <3>2, <4>2, <4>3 DEF Promise!Admit, Ticket
      <4> QED
        BY <3>1, <4>4
    <3>3. CASE ~(~rows[req[r].link].used /\ now <= rows[req[r].link].expires)
      BY <2>1, <3>1, <3>3
    <3> QED
      BY <3>2, <3>3
  <2>4. ASSUME NEW r \in Reqs, ChangeUpdate(r) PROVE Promise!Use(r)
    <3>1. /\ req[r].pc = "update" /\ changed' = changed \cup {r}
          /\ UNCHANGED <<now, rows, admitted>>
      BY <2>4 DEF ChangeUpdate, At
    <3>2. r \notin changed /\ <<r, req[r].link>> \in admitted
      BY <3>1 DEF LInv, RequestsSound, RequestSound
    <3>3. req[r].link \in Reqs
      BY <3>2 DEF TypeOK
    <3>4. Ticket' = Ticket
      BY <3>1 DEF Ticket, Expired
    <3> QED
      BY <3>1, <3>2, <3>3, <3>4 DEF Promise!Use, Ticket
  <2>5. ASSUME NEW r \in Reqs, ChangeMark(r) PROVE \E T \in SUBSET Reqs : Promise!Close(T)
    <3>1. UNCHANGED <<now, admitted, changed>>
      BY <2>5 DEF ChangeMark
    <3>2. \A t \in Reqs : /\ [rows[t] EXCEPT !.used = TRUE].owner = rows[t].owner
                          /\ [rows[t] EXCEPT !.used = TRUE].expires = rows[t].expires
                          /\ [rows[t] EXCEPT !.used = TRUE].used
      BY DEF TypeOK, Rows
    <3>3. \A t \in Reqs : /\ rows'[t].owner = rows[t].owner /\ rows'[t].expires = rows[t].expires
                          /\ rows[t].used => rows'[t].used
      BY <2>5, <3>2 DEF ChangeMark, TypeOK
    <3>4. Opened' \subseteq Opened
      BY <3>1, <3>3 DEF Opened, Expired
    <3> QED
      BY <3>1, <3>3, <3>4, LinksClose
  <2>6. ASSUME Tick PROVE \E T \in SUBSET Reqs : Promise!Close(T)
    <3>1. now' = now + 1 /\ UNCHANGED <<rows, admitted, changed>>
      BY <2>6 DEF Tick
    <3>2. Opened' \subseteq Opened
      BY <2>0, <3>1 DEF Opened, Expired
    <3> QED
      BY <3>1, <3>2, LinksClose
  <2>7. ASSUME NEW r \in Reqs,
               Arrive(r) \/ Fails(r) \/ SignupCheck(r) \/ SignupInsert(r) \/ AskCheck(r) \/ AskPost(r)
               \/ ChangeJudge(r)
        PROVE  UNCHANGED Promise!vars
    <3>1. UNCHANGED <<now, rows, admitted, changed>>
      BY <2>7 DEF Arrive, Fails, SignupCheck, SignupInsert, AskCheck, AskPost, ChangeJudge
    <3> QED
      BY <2>1, <3>1
  <2>8. CASE Restart \/ UNCHANGED vars
    <3>1. UNCHANGED <<now, rows, admitted, changed>>
      BY <2>8 DEF Restart, vars
    <3> QED
      BY <2>1, <3>1
  <2> QED
    BY <2>2, <2>3, <2>4, <2>5, <2>6, <2>7, <2>8 DEF Next, Request, Promise!Next
<1> QED
  BY <1>1, <1>2, LinksTyped, LinksTypeCorrect, LinksInvariant, PTL DEF Spec, KeepsPromise, Promise!Spec

-----------------------------------------------------------------------------
(* The first edition                                                       *)

\* What the requests of the first edition have done so far: a link is stored once, by the
\* request it is named after; a change follows a stored link, was admitted with it before
\* it looks for the owner, set a password before it deletes the link, and succeeds only
\* when the link was still there to delete.
FirstSound(r) ==
    /\ req1[r].pc = "idle" => req1[r].reply = "none"
    /\ req1[r].pc # "idle" /\ req1[r].kind # "change" => req1[r].name \in Names
    /\ req1[r].pc # "idle" /\ req1[r].kind = "change" => req1[r].link \in issued1
    /\ req1[r].pc = "post" => r \in issued1
    /\ r \in issued1 => req1[r].kind = "ask" /\ req1[r].pc \in {"post", "done"}
    /\ req1[r].pc \in {"owner", "set"} => <<r, req1[r].link>> \in admitted1
    /\ req1[r].pc = "set" => req1[r].kind = "change" /\ req1[r].name \in Names
    /\ req1[r].pc = "del" => req1[r].kind = "change" /\ r \in changed1
    /\ r \in changed1 => req1[r].kind = "change" /\ req1[r].pc \in {"del", "done"}
    /\ req1[r].reply = "success" => /\ req1[r].pc = "done" /\ req1[r].kind = "change"
                                   /\ r \in changed1
                                   /\ tokens1[req1[r].link] = None

\* The dictionary holds only links that were stored.
TokensIssued == \A t \in Reqs : tokens1[t] # None => t \in issued1

\* No two requests succeed with one link.
SuccessApart ==
    \A r, s \in Reqs :
        req1[r].reply = "success" /\ req1[s].reply = "success" /\ req1[s].link = req1[r].link => s = r

FInv == (\A r \in Reqs : FirstSound(r)) /\ TokensIssued /\ SuccessApart

FirstPcs == {"idle", "check", "write", "store", "post", "owner", "set", "del", "done"}

\* A request of the first edition that goes on keeps everything but its place.
LEMMA FirstGoes ==
    ASSUME V1!TypeOK, NEW r \in Reqs, NEW pc \in FirstPcs, V1!Goto(r, pc)
    PROVE  /\ req1' \in [Reqs -> V1!ReqState]
           /\ req1'[r].kind = req1[r].kind /\ req1'[r].name = req1[r].name
           /\ req1'[r].link = req1[r].link /\ req1'[r].reply = req1[r].reply /\ req1'[r].pc = pc
           /\ \A q \in Reqs \ {r} : req1'[q] = req1[q]
<1>1. req1[r] \in V1!ReqState
  BY DEF V1!TypeOK
<1>2. [req1[r] EXCEPT !.pc = pc] \in V1!ReqState
  BY <1>1 DEF V1!ReqState, FirstPcs
<1>3. req1' = [req1 EXCEPT ![r] = [req1[r] EXCEPT !.pc = pc]]
  BY DEF V1!Goto, V1!TypeOK
<1> QED
  BY <1>1, <1>2, <1>3 DEF V1!TypeOK, V1!ReqState

\* A request of the first edition that is answered keeps everything but its place.
LEMMA FirstReplies ==
    ASSUME V1!TypeOK, NEW r \in Reqs, NEW answer \in V1!Replies, V1!Reply(r, answer)
    PROVE  /\ req1' \in [Reqs -> V1!ReqState]
           /\ req1'[r].kind = req1[r].kind /\ req1'[r].name = req1[r].name
           /\ req1'[r].link = req1[r].link /\ req1'[r].reply = answer /\ req1'[r].pc = "done"
           /\ \A q \in Reqs \ {r} : req1'[q] = req1[q]
<1>1. req1[r] \in V1!ReqState
  BY DEF V1!TypeOK
<1>2. [req1[r] EXCEPT !.pc = "done", !.reply = answer] \in V1!ReqState
  BY <1>1 DEF V1!ReqState
<1> QED
  BY <1>1, <1>2 DEF V1!Reply, V1!TypeOK, V1!ReqState

\* A step of request r keeps what is known of all requests, when it keeps what is known of
\* r, puts no link back that was issued, and lets r succeed only with a link that is there.
LEMMA FirstStep ==
    ASSUME V1!TypeOK, FInv, NEW r \in Reqs,
           \A q \in Reqs \ {r} : req1'[q] = req1[q],
           issued1 \subseteq issued1', issued1' \subseteq issued1 \cup {r},
           changed1 \subseteq changed1', changed1' \subseteq changed1 \cup {r},
           admitted1 \subseteq admitted1',
           \A t \in Reqs : t \in issued1 /\ tokens1[t] = None => tokens1'[t] = None,
           \A t \in Reqs : tokens1'[t] # None => tokens1[t] # None \/ t \in issued1',
           FirstSound(r)',
           req1'[r].reply = "success" /\ req1[r].reply # "success" => tokens1[req1'[r].link] # None,
           req1[r].reply = "success" => req1'[r] = req1[r]
    PROVE  FInv'
<1>1. issued1 \subseteq Reqs
  BY DEF V1!TypeOK
<1>2. ASSUME NEW q \in Reqs PROVE FirstSound(q)'
  <2>1. CASE q # r
    <3>1. FirstSound(q) /\ req1'[q] = req1[q]
      BY <2>1 DEF FInv
    <3> QED
      BY <1>1, <2>1, <3>1 DEF FirstSound
  <2> QED
    BY <2>1
<1>3. TokensIssued'
  BY DEF FInv, TokensIssued
<1>4. SuccessApart'
  <2> SUFFICES ASSUME NEW p \in Reqs, NEW q \in Reqs, p # q,
                      req1'[p].reply = "success", req1'[q].reply = "success",
                      req1'[q].link = req1'[p].link
               PROVE  FALSE
    BY DEF SuccessApart
  <2>1. CASE req1[p].reply = "success" /\ req1[q].reply = "success"
    <3>1. req1'[p] = req1[p] /\ req1'[q] = req1[q]
      BY <2>1
    <3> QED
      BY <2>1, <3>1 DEF FInv, SuccessApart
  <2>2. CASE req1[p].reply # "success"
    <3>1. p = r /\ q # r /\ req1'[q] = req1[q] /\ tokens1[req1'[p].link] # None
      BY <2>2
    <3>2. tokens1[req1[q].link] = None
      BY <3>1 DEF FInv, FirstSound
    <3> QED
      BY <3>1, <3>2
  <2>3. CASE req1[q].reply # "success"
    <3>1. q = r /\ p # r /\ req1'[p] = req1[p] /\ tokens1[req1'[q].link] # None
      BY <2>3
    <3>2. tokens1[req1[p].link] = None
      BY <3>1 DEF FInv, FirstSound
    <3> QED
      BY <3>1, <3>2
  <2> QED
    BY <2>1, <2>2, <2>3
<1> QED
  BY <1>2, <1>3, <1>4 DEF FInv

\* The dictionaries, the inbox and the requests of the first edition keep their types, and
\* what is known of its requests and links stays true.
LEMMA FirstInvariant == ASSUME V1!LinksAssumption PROVE V1!Spec => [](V1!TypeOK /\ FInv)
<1>1. V1!Init => V1!TypeOK /\ FInv
  <2> SUFFICES ASSUME V1!Init PROVE V1!TypeOK /\ FInv
    OBVIOUS
  <2> DEFINE fresh == [kind |-> "ask", name |-> None, link |-> None, pc |-> "idle", reply |-> "none"]
  <2>1. fresh \in V1!ReqState
    BY DEF V1!ReqState, V1!Kinds, V1!Replies
  <2>2. \A r \in Reqs : req1[r] = fresh
    BY DEF V1!Init
  <2>3. V1!TypeOK
    BY <2>1 DEF V1!Init, V1!TypeOK, V1!Accounts, V1!LinksAssumption
  <2>4. FInv
    BY <2>2 DEF V1!Init, FInv, FirstSound, TokensIssued, SuccessApart
  <2> QED
    BY <2>3, <2>4
<1>2. V1!TypeOK /\ FInv /\ [V1!Next]_(V1!vars) => V1!TypeOK' /\ FInv'
  <2> SUFFICES ASSUME V1!TypeOK, FInv, [V1!Next]_(V1!vars) PROVE V1!TypeOK' /\ FInv'
    OBVIOUS
  <2>0. /\ \A r \in Reqs : FirstSound(r)
        /\ issued1 \subseteq Reqs /\ inbox1 \subseteq issued1 /\ None \notin Reqs /\ None \notin Names
    BY DEF FInv, V1!TypeOK, V1!LinksAssumption
  <2>1. ASSUME NEW r \in Reqs, V1!Arrive(r) PROVE V1!TypeOK' /\ FInv'
    <3>1. PICK kind \in V1!Kinds, n \in Names \cup {None}, t \in inbox1 \cup {None} :
             /\ (kind = "change") <=> (t # None)
             /\ (kind = "change") <=> (n = None)
             /\ req1' = [req1 EXCEPT ![r] = [kind |-> kind, name |-> n, link |-> t,
                                            pc |-> "check", reply |-> "none"]]
      BY <2>1 DEF V1!Arrive
    <3> DEFINE new == [kind |-> kind, name |-> n, link |-> t, pc |-> "check", reply |-> "none"]
    <3>2. new \in V1!ReqState
      BY <2>0 DEF V1!ReqState, V1!Replies
    <3>3. req1' = [req1 EXCEPT ![r] = new]
      BY <3>1
    <3>4. req1'[r].kind = kind /\ req1'[r].name = n /\ req1'[r].link = t /\ req1'[r].pc = "check"
          /\ req1'[r].reply = "none" /\ \A q \in Reqs \ {r} : req1'[q] = req1[q]
      BY <3>3 DEF V1!TypeOK
    <3>5. req1[r].pc = "idle" /\ UNCHANGED <<users1, tokens1, inbox1, issued1, admitted1, changed1>>
      BY <2>1 DEF V1!Arrive
    <3>6. req1' \in [Reqs -> V1!ReqState]
      BY <3>2, <3>3 DEF V1!TypeOK
    <3> HIDE DEF new
    <3>7. FirstSound(r)'
      BY <2>0, <3>1, <3>4, <3>5 DEF FirstSound
    <3>8. FInv'
      BY <2>0, <3>4, <3>5, <3>7, FirstStep DEF FirstSound
    <3> QED
      BY <3>5, <3>6, <3>8 DEF V1!TypeOK
  <2>2. ASSUME NEW r \in Reqs, V1!SignupCheck(r) \/ V1!AskCheck(r) PROVE V1!TypeOK' /\ FInv'
    <3>1. /\ req1[r].pc = "check" /\ req1[r].kind # "change"
          /\ UNCHANGED <<users1, tokens1, inbox1, issued1, admitted1, changed1>>
          /\ \/ \E pc \in {"write", "store"} : V1!Goto(r, pc)
             \/ \E answer \in {"exists", "asked"} : V1!Reply(r, answer)
      BY <2>2 DEF V1!SignupCheck, V1!AskCheck, V1!At
    <3>2. /\ req1' \in [Reqs -> V1!ReqState]
          /\ req1'[r].kind = req1[r].kind /\ req1'[r].name = req1[r].name /\ req1'[r].link = req1[r].link
          /\ req1'[r].pc \in {"write", "store", "done"}
          /\ req1'[r].reply \in {req1[r].reply, "exists", "asked"}
          /\ \A q \in Reqs \ {r} : req1'[q] = req1[q]
      BY <3>1, FirstGoes, FirstReplies DEF FirstPcs, V1!Replies
    <3>3. FirstSound(r)'
      BY <2>0, <3>1, <3>2 DEF FirstSound
    <3>4. FInv'
      BY <2>0, <3>1, <3>2, <3>3, FirstStep DEF FirstSound
    <3> QED
      BY <3>1, <3>2, <3>4 DEF V1!TypeOK
  <2>3. ASSUME NEW r \in Reqs, V1!SignupWrite(r) PROVE V1!TypeOK' /\ FInv'
    <3>1. /\ req1[r].pc = "write" /\ req1[r].kind = "signup" /\ V1!Reply(r, "created")
          /\ users1' = [users1 EXCEPT ![req1[r].name] = r]
          /\ UNCHANGED <<tokens1, inbox1, issued1, admitted1, changed1>>
      BY <2>3 DEF V1!SignupWrite, V1!At
    <3>2. /\ req1' \in [Reqs -> V1!ReqState]
          /\ req1'[r].kind = req1[r].kind /\ req1'[r].name = req1[r].name /\ req1'[r].link = req1[r].link
          /\ req1'[r].pc = "done" /\ req1'[r].reply = "created"
          /\ \A q \in Reqs \ {r} : req1'[q] = req1[q]
      BY <3>1, FirstReplies DEF V1!Replies
    <3>3. FirstSound(r)'
      BY <2>0, <3>1, <3>2 DEF FirstSound
    <3>4. FInv'
      BY <2>0, <3>1, <3>2, <3>3, FirstStep DEF FirstSound
    <3> QED
      BY <3>1, <3>2, <3>4 DEF V1!TypeOK
  <2>4. ASSUME NEW r \in Reqs, V1!AskStore(r) PROVE V1!TypeOK' /\ FInv'
    <3>1. /\ req1[r].pc = "store" /\ req1[r].kind = "ask" /\ V1!Goto(r, "post")
          /\ tokens1' = [tokens1 EXCEPT ![r] = req1[r].name] /\ issued1' = issued1 \cup {r}
          /\ UNCHANGED <<users1, inbox1, admitted1, changed1>>
      BY <2>4 DEF V1!AskStore, V1!At
    <3>2. /\ req1' \in [Reqs -> V1!ReqState]
          /\ req1'[r].kind = req1[r].kind /\ req1'[r].name = req1[r].name /\ req1'[r].link = req1[r].link
          /\ req1'[r].pc = "post" /\ req1'[r].reply = req1[r].reply
          /\ \A q \in Reqs \ {r} : req1'[q] = req1[q]
      BY <3>1, FirstGoes DEF FirstPcs
    <3>3. req1[r].name \in Names /\ r \notin issued1
      BY <2>0, <3>1 DEF FirstSound
    <3>4. tokens1' \in [Reqs -> Names \cup {None}] /\ \A t \in Reqs \ {r} : tokens1'[t] = tokens1[t]
      BY <3>1, <3>3 DEF V1!TypeOK
    <3>5. FirstSound(r)'
      BY <2>0, <3>1, <3>2, <3>3 DEF FirstSound
    <3>6. FInv'
      BY <2>0, <3>1, <3>2, <3>3, <3>4, <3>5, FirstStep DEF FirstSound
    <3> QED
      BY <3>1, <3>2, <3>4, <3>6 DEF V1!TypeOK
  <2>5. ASSUME NEW r \in Reqs, V1!AskPost(r) PROVE V1!TypeOK' /\ FInv'
    <3>1. /\ req1[r].pc = "post" /\ V1!Reply(r, "asked") /\ inbox1' = inbox1 \cup {r}
          /\ UNCHANGED <<users1, tokens1, issued1, admitted1, changed1>>
      BY <2>5 DEF V1!AskPost, V1!At
    <3>2. /\ req1' \in [Reqs -> V1!ReqState]
          /\ req1'[r].kind = req1[r].kind /\ req1'[r].name = req1[r].name /\ req1'[r].link = req1[r].link
          /\ req1'[r].pc = "done" /\ req1'[r].reply = "asked"
          /\ \A q \in Reqs \ {r} : req1'[q] = req1[q]
      BY <3>1, FirstReplies DEF V1!Replies
    <3>3. FirstSound(r)' /\ r \in issued1
      BY <2>0, <3>1, <3>2 DEF FirstSound
    <3>4. FInv'
      BY <2>0, <3>1, <3>2, <3>3, FirstStep DEF FirstSound
    <3> QED
      BY <3>1, <3>2, <3>3, <3>4 DEF V1!TypeOK
  <2>6. ASSUME NEW r \in Reqs, V1!ChangeCheck(r) PROVE V1!TypeOK' /\ FInv'
    <3>1. /\ req1[r].pc = "check" /\ req1[r].kind = "change"
          /\ UNCHANGED <<users1, tokens1, inbox1, issued1, changed1>>
          /\ \/ V1!Goto(r, "owner") /\ admitted1' = admitted1 \cup {<<r, req1[r].link>>}
             \/ V1!Reply(r, "invalid") /\ UNCHANGED admitted1
      BY <2>6 DEF V1!ChangeCheck, V1!At
    <3>2. /\ req1' \in [Reqs -> V1!ReqState]
          /\ req1'[r].kind = req1[r].kind /\ req1'[r].name = req1[r].name /\ req1'[r].link = req1[r].link
          /\ \/ req1'[r].pc = "owner" /\ req1'[r].reply = req1[r].reply
                /\ admitted1' = admitted1 \cup {<<r, req1[r].link>>}
             \/ req1'[r].pc = "done" /\ req1'[r].reply = "invalid" /\ UNCHANGED admitted1
          /\ \A q \in Reqs \ {r} : req1'[q] = req1[q]
      BY <3>1, FirstGoes, FirstReplies DEF FirstPcs, V1!Replies
    <3>3. FirstSound(r)' /\ req1[r].link \in Reqs
      BY <2>0, <3>1, <3>2 DEF FirstSound
    <3>4. FInv'
      BY <2>0, <3>1, <3>2, <3>3, FirstStep DEF FirstSound
    <3> QED
      BY <3>1, <3>2, <3>3, <3>4 DEF V1!TypeOK
  <2>7. ASSUME NEW r \in Reqs, V1!ChangeOwner(r) PROVE V1!TypeOK' /\ FInv'
    <3>1. /\ req1[r].pc = "owner" /\ req1[r].kind = "change"
          /\ UNCHANGED <<users1, tokens1, inbox1, issued1, admitted1, changed1>>
          /\ \/ \E answer \in {"error", "form"} : V1!Reply(r, answer)
             \/ /\ tokens1[req1[r].link] # None
                /\ req1' = [req1 EXCEPT ![r] = [@ EXCEPT !.pc = "set", !.name = tokens1[req1[r].link]]]
      BY <2>7 DEF V1!ChangeOwner, V1!At
    <3>2. req1[r].link \in issued1 /\ <<r, req1[r].link>> \in admitted1 /\ req1[r].reply # "success"
      BY <2>0, <3>1 DEF FirstSound
    <3>3. /\ req1' \in [Reqs -> V1!ReqState]
          /\ req1'[r].kind = req1[r].kind /\ req1'[r].link = req1[r].link
          /\ \/ req1'[r].pc = "done" /\ req1'[r].reply \in {"error", "form"}
             \/ req1'[r].pc = "set" /\ req1'[r].reply = req1[r].reply /\ req1'[r].name \in Names
          /\ \A q \in Reqs \ {r} : req1'[q] = req1[q]
      <4>1. CASE \E answer \in {"error", "form"} : V1!Reply(r, answer)
        BY <4>1, FirstReplies DEF V1!Replies
      <4>2. CASE /\ tokens1[req1[r].link] # None
                 /\ req1' = [req1 EXCEPT ![r] = [@ EXCEPT !.pc = "set", !.name = tokens1[req1[r].link]]]
        <5>1. tokens1[req1[r].link] \in Names /\ req1[r] \in V1!ReqState
          BY <2>0, <3>2, <4>2 DEF V1!TypeOK
        <5>2. [req1[r] EXCEPT !.pc = "set", !.name = tokens1[req1[r].link]] \in V1!ReqState
          BY <5>1 DEF V1!ReqState
        <5> QED
          BY <4>2, <5>1, <5>2 DEF V1!TypeOK, V1!ReqState
      <4> QED
        BY <3>1, <4>1, <4>2
    <3>4. FirstSound(r)'
      BY <2>0, <3>1, <3>2, <3>3 DEF FirstSound
    <3>5. FInv'
      BY <2>0, <3>1, <3>2, <3>3, <3>4, FirstStep
    <3> QED
      BY <3>1, <3>3, <3>5 DEF V1!TypeOK
  <2>8. ASSUME NEW r \in Reqs, V1!ChangeSet(r) PROVE V1!TypeOK' /\ FInv'
    <3>1. /\ req1[r].pc = "set" /\ req1[r].kind = "change" /\ V1!Goto(r, "del")
          /\ users1' = [users1 EXCEPT ![req1[r].name] = r] /\ changed1' = changed1 \cup {r}
          /\ UNCHANGED <<tokens1, inbox1, issued1, admitted1>>
      BY <2>8 DEF V1!ChangeSet, V1!At
    <3>2. /\ req1' \in [Reqs -> V1!ReqState]
          /\ req1'[r].kind = req1[r].kind /\ req1'[r].name = req1[r].name /\ req1'[r].link = req1[r].link
          /\ req1'[r].pc = "del" /\ req1'[r].reply = req1[r].reply
          /\ \A q \in Reqs \ {r} : req1'[q] = req1[q]
      BY <3>1, FirstGoes DEF FirstPcs
    <3>3. FirstSound(r)'
      BY <2>0, <3>1, <3>2 DEF FirstSound
    <3>4. FInv'
      BY <2>0, <3>1, <3>2, <3>3, FirstStep DEF FirstSound
    <3> QED
      BY <3>1, <3>2, <3>4 DEF V1!TypeOK
  <2>9. ASSUME NEW r \in Reqs, V1!ChangeDel(r) PROVE V1!TypeOK' /\ FInv'
    <3> DEFINE answer == IF tokens1[req1[r].link] = None THEN "error" ELSE "success"
    <3>1. /\ req1[r].pc = "del" /\ req1[r].kind = "change" /\ V1!Reply(r, answer)
          /\ tokens1' = [tokens1 EXCEPT ![req1[r].link] = None]
          /\ UNCHANGED <<users1, inbox1, issued1, admitted1, changed1>>
      BY <2>9 DEF V1!ChangeDel, V1!At
    <3>2. req1[r].link \in issued1 /\ r \in changed1 /\ req1[r].reply # "success"
      BY <2>0, <3>1 DEF FirstSound
    <3>3. /\ answer \in {"error", "success"}
          /\ answer = "success" => tokens1[req1[r].link] # None
      OBVIOUS
    <3> HIDE DEF answer
    <3>4. /\ req1' \in [Reqs -> V1!ReqState]
          /\ req1'[r].kind = req1[r].kind /\ req1'[r].name = req1[r].name /\ req1'[r].link = req1[r].link
          /\ req1'[r].pc = "done" /\ req1'[r].reply = answer
          /\ \A q \in Reqs \ {r} : req1'[q] = req1[q]
      BY <3>1, <3>3, FirstReplies DEF V1!Replies
    <3>5. /\ tokens1' \in [Reqs -> Names \cup {None}]
          /\ \A t \in Reqs : tokens1'[t] = IF t = req1[r].link THEN None ELSE tokens1[t]
      BY <3>1, <3>2 DEF V1!TypeOK
    <3>6. FirstSound(r)'
      BY <2>0, <3>1, <3>2, <3>3, <3>4, <3>5 DEF FirstSound
    <3>7. FInv'
      BY <2>0, <3>1, <3>2, <3>3, <3>4, <3>5, <3>6, FirstStep
    <3> QED
      BY <3>1, <3>4, <3>5, <3>7 DEF V1!TypeOK
  <2>10. CASE V1!Restart
    <3> DEFINE dropped(q) == [req1[q] EXCEPT !.pc = "done", !.reply = "error"]
    <3>1. \A q \in Reqs : /\ dropped(q) \in V1!ReqState
                          /\ dropped(q).kind = req1[q].kind /\ dropped(q).name = req1[q].name
                          /\ dropped(q).link = req1[q].link
                          /\ dropped(q).pc = "done" /\ dropped(q).reply = "error"
      BY DEF V1!TypeOK, V1!ReqState, V1!Replies
    <3>2. req1' = [q \in Reqs |-> IF req1[q].pc \in {"idle", "done"} THEN req1[q] ELSE dropped(q)]
      BY <2>10 DEF V1!Restart
    <3> HIDE DEF dropped
    <3>3. /\ users1' = V1!Accounts /\ tokens1' = [t \in Reqs |-> None] /\ inbox1' = {}
          /\ UNCHANGED <<issued1, admitted1, changed1>>
      BY <2>10 DEF V1!Restart
    <3>4. V1!TypeOK'
      BY <3>1, <3>2, <3>3 DEF V1!TypeOK, V1!Accounts, V1!LinksAssumption
    <3>5. \A q \in Reqs : FirstSound(q)'
      <4> SUFFICES ASSUME NEW q \in Reqs PROVE FirstSound(q)'
        OBVIOUS
      <4>1. CASE req1[q].pc \in {"idle", "done"}
        <5>1. req1'[q] = req1[q]
          BY <3>2, <4>1
        <5> QED
          BY <2>0, <3>3, <4>1, <5>1 DEF FirstSound
      <4>2. CASE req1[q].pc \notin {"idle", "done"}
        <5>1. req1'[q] = dropped(q)
          BY <3>2, <4>2
        <5> QED
          BY <2>0, <3>1, <3>3, <4>2, <5>1 DEF FirstSound
      <4> QED
        BY <4>1, <4>2
    <3>6. TokensIssued'
      BY <3>3 DEF TokensIssued
    <3>7. \A q \in Reqs : req1'[q].reply = "success" => req1'[q] = req1[q]
      BY <3>1, <3>2
    <3>8. SuccessApart'
      BY <3>7 DEF FInv, SuccessApart
    <3> QED
      BY <3>4, <3>5, <3>6, <3>8 DEF FInv
  <2>11. CASE UNCHANGED V1!vars
    BY <2>11 DEF V1!vars, V1!TypeOK, FInv, FirstSound, TokensIssued, SuccessApart
  <2> QED
    BY <2>1, <2>2, <2>3, <2>4, <2>5, <2>6, <2>7, <2>8, <2>9, <2>10, <2>11 DEF V1!Next, V1!Request
<1> QED
  BY <1>1, <1>2, PTL DEF V1!Spec

\* The dictionaries, the inbox and the requests of the first edition keep their types, and
\* only stored links are delivered.
THEOREM FirstTypeCorrect == ASSUME V1!LinksAssumption PROVE V1!Spec => []V1!TypeOK
  BY FirstInvariant, PTL

\* "Password updated successfully" is answered once per link in the first edition, although
\* any number of requests may have found it: the del of the second is a KeyError.
THEOREM LinkSucceedsOnce == ASSUME V1!LinksAssumption PROVE V1!Spec => []OneSuccess
<1>1. FInv => OneSuccess
  BY DEF FInv, FirstSound, SuccessApart, OneSuccess, V1!OneSuccess
<1> QED
  BY <1>1, FirstInvariant, PTL

-----------------------------------------------------------------------------
\* The state of every link of the first edition.
Ticket1 == [t \in Reqs |-> IF tokens1[t] # None THEN "open"
                          ELSE IF t \in issued1 THEN "closed" ELSE "none"]

\* When links leave the dictionary, they close together.
LEMMA FirstClose ==
    ASSUME FInv, UNCHANGED <<issued1, admitted1, changed1>>,
           \A t \in Reqs : tokens1'[t] \in {tokens1[t], None}
    PROVE  \E T \in SUBSET Reqs : V1!Promise!Close(T)
<1> DEFINE T == {t \in Reqs : tokens1[t] # None /\ tokens1'[t] = None}
<1>1. \A t \in T : Ticket1[t] = "open" /\ t \in issued1
  BY DEF Ticket1, FInv, TokensIssued
<1>2. Ticket1' = [t \in Reqs |-> IF t \in T THEN "closed" ELSE Ticket1[t]]
  BY <1>1 DEF Ticket1
<1>3. T \in SUBSET Reqs
  OBVIOUS
<1> HIDE DEF T
<1> QED
  BY <1>1, <1>2, <1>3 DEF V1!Promise!Close, Ticket1

\* LinksV1 implements TicketPromise: a link opens when it is stored, admits the requests
\* that find it, and closes when one of them deletes it or the process restarts.
THEOREM DictionaryKeepsPromise == ASSUME V1!LinksAssumption PROVE V1!Spec => LinksKeepPromise
<1>1. V1!Init => V1!Promise!Init
  BY DEF V1!Init, V1!Promise!Init
<1>2. V1!TypeOK /\ FInv /\ [V1!Next]_(V1!vars) => [V1!Promise!Next]_(V1!Promise!vars)
  <2> SUFFICES ASSUME V1!TypeOK, FInv, [V1!Next]_(V1!vars) PROVE [V1!Promise!Next]_(V1!Promise!vars)
    OBVIOUS
  <2>0. /\ \A r \in Reqs : FirstSound(r)
        /\ issued1 \subseteq Reqs /\ None \notin Reqs /\ None \notin Names
    BY DEF FInv, V1!TypeOK, V1!LinksAssumption
  <2>1. ASSUME UNCHANGED <<tokens1, issued1, admitted1, changed1>> PROVE UNCHANGED V1!Promise!vars
    BY <2>1 DEF V1!Promise!vars
  <2>2. ASSUME NEW r \in Reqs, V1!AskStore(r) PROVE V1!Promise!Open(r)
    <3>1. /\ req1[r].pc = "store" /\ req1[r].kind = "ask"
          /\ tokens1' = [tokens1 EXCEPT ![r] = req1[r].name] /\ issued1' = issued1 \cup {r}
          /\ UNCHANGED <<admitted1, changed1>>
      BY <2>2 DEF V1!AskStore, V1!At
    <3>2. req1[r].name # None /\ r \notin issued1 /\ tokens1[r] = None
      BY <2>0, <3>1 DEF FirstSound, FInv, TokensIssued
    <3>3. tokens1'[r] # None /\ \A t \in Reqs \ {r} : tokens1'[t] = tokens1[t]
      BY <3>1, <3>2 DEF V1!TypeOK
    <3>4. Ticket1[r] = "none" /\ Ticket1'[r] = "open" /\ \A t \in Reqs \ {r} : Ticket1'[t] = Ticket1[t]
      BY <3>1, <3>2, <3>3 DEF Ticket1
    <3>5. Ticket1' = [Ticket1 EXCEPT ![r] = "open"]
      BY <3>4 DEF Ticket1
    <3> QED
      BY <3>1, <3>4, <3>5 DEF V1!Promise!Open, Ticket1
  <2>3. ASSUME NEW r \in Reqs, V1!ChangeCheck(r)
        PROVE  (\E t \in Reqs : V1!Promise!Admit(r, t)) \/ UNCHANGED V1!Promise!vars
    <3>1. /\ req1[r].pc = "check" /\ req1[r].kind = "change"
          /\ UNCHANGED <<tokens1, issued1, changed1>>
          /\ \/ tokens1[req1[r].link] # None /\ admitted1' = admitted1 \cup {<<r, req1[r].link>>}
             \/ UNCHANGED admitted1
      BY <2>3 DEF V1!ChangeCheck, V1!At, V1!Known
    <3>2. req1[r].link \in Reqs
      BY <2>0, <3>1 DEF FirstSound
    <3>3. CASE tokens1[req1[r].link] # None /\ admitted1' = admitted1 \cup {<<r, req1[r].link>>}
      <4>1. Ticket1[req1[r].link] = "open" /\ Ticket1' = Ticket1
        BY <3>1, <3>2, <3>3 DEF Ticket1
      <4>2. V1!Promise!Admit(r, req1[r].link)
        BY <3>1, <3>3, <4>1 DEF V1!Promise!Admit, Ticket1
      <4> QED
        BY <3>2, <4>2
    <3>4. CASE UNCHANGED admitted1
      BY <2>1, <3>1, <3>4
    <3> QED
      BY <3>1, <3>3, <3>4
  <2>4. ASSUME NEW r \in Reqs, V1!ChangeSet(r) PROVE V1!Promise!Use(r)
    <3>1. /\ req1[r].pc = "set" /\ changed1' = changed1 \cup {r}
          /\ UNCHANGED <<tokens1, issued1, admitted1>>
      BY <2>4 DEF V1!ChangeSet, V1!At
    <3>2. r \notin changed1 /\ <<r, req1[r].link>> \in admitted1
      BY <2>0, <3>1 DEF FirstSound
    <3>3. req1[r].link \in Reqs
      BY <3>2 DEF V1!TypeOK
    <3> QED
      BY <3>1, <3>2, <3>3 DEF V1!Promise!Use
  <2>5. ASSUME NEW r \in Reqs, V1!ChangeDel(r) PROVE \E T \in SUBSET Reqs : V1!Promise!Close(T)
    <3>1. /\ tokens1' = [tokens1 EXCEPT ![req1[r].link] = None]
          /\ UNCHANGED <<issued1, admitted1, changed1>>
      BY <2>5 DEF V1!ChangeDel
    <3>2. \A t \in Reqs : tokens1'[t] \in {tokens1[t], None}
      BY <3>1 DEF V1!TypeOK
    <3> QED
      BY <3>1, <3>2, FirstClose
  <2>6. ASSUME V1!Restart PROVE \E T \in SUBSET Reqs : V1!Promise!Close(T)
    <3>1. tokens1' = [t \in Reqs |-> None] /\ UNCHANGED <<issued1, admitted1, changed1>>
      BY <2>6 DEF V1!Restart
    <3>2. \A t \in Reqs : tokens1'[t] \in {tokens1[t], None}
      BY <3>1
    <3> QED
      BY <3>1, <3>2, FirstClose
  <2>7. ASSUME NEW r \in Reqs,
               V1!Arrive(r) \/ V1!SignupCheck(r) \/ V1!SignupWrite(r) \/ V1!AskCheck(r)
               \/ V1!AskPost(r) \/ V1!ChangeOwner(r)
        PROVE  UNCHANGED V1!Promise!vars
    <3>1. UNCHANGED <<tokens1, issued1, admitted1, changed1>>
      BY <2>7 DEF V1!Arrive, V1!SignupCheck, V1!SignupWrite, V1!AskCheck, V1!AskPost, V1!ChangeOwner
    <3> QED
      BY <2>1, <3>1
  <2>8. CASE UNCHANGED V1!vars
    BY <2>1, <2>8 DEF V1!vars
  <2> QED
    BY <2>2, <2>3, <2>4, <2>5, <2>6, <2>7, <2>8 DEF V1!Next, V1!Request, V1!Promise!Next
<1> QED
  BY <1>1, <1>2, FirstInvariant, PTL DEF V1!Spec, LinksKeepPromise, V1!KeepsPromise, V1!Promise!Spec

-----------------------------------------------------------------------------
\* A behaviour of the application, which drives one of the editions, is one of both: so
\* whatever is proved of either edition holds of the application.
THEOREM BothEditions == EditionsSpec => V1!Spec /\ Spec
<1>1. EditionsInit => V1!Init /\ Init
  BY DEF EditionsInit
<1>2. [EditionsNext]_<<edition, vars1, vars>> => [V1!Next]_(V1!vars) /\ [Next]_vars
  BY DEF EditionsNext, vars1, V1!vars, vars
<1> QED
  BY <1>1, <1>2, PTL DEF EditionsSpec, V1!Spec, Spec
=============================================================================
