---------------------------- MODULE ExportTokens ----------------------------
(***************************************************************************)
(* Artifact verification and the tokens it hands out (policy-engine,       *)
(* app/verify.py and app/main.py, /api/artifacts/verify and                *)
(* /api/secrets/export): a token is a key of redis that expires, names the *)
(* artifact that was verified, and pays for one export. Neither handler    *)
(* awaits once it has its body, so the engine's event loop runs each to    *)
(* its end; a redis command may fail, before or after it took effect, the  *)
(* process may stop, and redis may lose its keys. A token is named by the  *)
(* request that verified.                                                  *)
(***************************************************************************)
EXTENDS Naturals

CONSTANTS
    Verifies,   \* verify requests
    Exports,    \* export requests
    Artifacts,  \* a name with the first 24 characters of its digest
    None,       \* no artifact, no token
    Instants    \* the seconds at which the clock is observed

ExportAssumption == Instants \subseteq Nat /\ None \notin Nat

VARIABLES
    clock,      \* the time redis sees, in seconds
    vtok,       \* vtok:<token>: the artifact_id it names and when it expires
    verify,     \* the verify requests
    export,     \* the export requests
    admitted    \* history: the exports that found their token

vars == <<clock, vtok, verify, export, admitted>>

Ttl == 300
Ids == [artifact : Artifacts, algorithm : {"sha256", "blake3"}]
Formats == {"encrypted", "metadata", "other"}
NoToken == [id |-> None, until |-> 0]
NewVerify == [pc |-> "idle", id |-> None, at |-> None]
NewExport == [pc |-> "idle", token |-> None, id |-> None, format |-> "other",
              found |-> 0, answer |-> "none"]

Init ==
    /\ clock = 0
    /\ vtok = [v \in Verifies |-> NoToken]
    /\ verify = [v \in Verifies |-> NewVerify]
    /\ export = [e \in Exports |-> NewExport]
    /\ admitted = {}

\* Mutated: handlers that await their redis commands.
BusyNever == FALSE

\* A handler is running: no other is entered before it ends.
Busy == \/ \E v \in Verifies : verify[v].pc \in {"store", "reply"}
        \/ \E e \in Exports : export[e].pc \in {"delete", "answer"}

-----------------------------------------------------------------------------
(* POST /api/artifacts/verify                                              *)

\* What verify_artifact looks at. The signature is missing, not three parts of
\* base64 JSON, with a header that is no object, or good.
Submissions == [mode      : {"keyed", "keyless", "other"},
                signature : {"missing", "malformed", "odd", "good"},
                trusted   : BOOLEAN,        \* payload.iss in _TRUSTED_ISSUERS
                subject   : {"none", "same", "another"},  \* policy.subject
                artifact  : Artifacts,
                alg       : {"HS256", "blake3", "RS256"}]

PolicyValid(s) == s.mode \in {"keyed", "keyless"}
IssuerPasses(s) == s.mode = "keyless" => s.trusted
SubjectPasses(s) == s.mode = "keyless" => s.subject # "another"
Verified(s) == s.signature = "good" /\ IssuerPasses(s) /\ SubjectPasses(s)

\* HS256 is read as sha256, and so is what is not supported.
ArtifactId(s) == [artifact  |-> s.artifact,
                  algorithm |-> IF s.alg = "blake3" THEN "blake3" ELSE "sha256"]

Accepted == {ArtifactId(s) : s \in {x \in Submissions : PolicyValid(x) /\ Verified(x)}}

\* A submission is verified, or refused (422, 403) or breaks verify_artifact (500).
Judge(v) ==
    /\ verify[v].pc = "idle"
    /\ ~Busy
    /\ \E pc \in {"store", "done"}, id \in Accepted \cup {None} :
          /\ pc = "store" <=> id # None
          /\ verify' = [verify EXCEPT ![v] = [pc |-> pc, id |-> id, at |-> None]]
    /\ UNCHANGED <<clock, vtok, export, admitted>>

\* Mutated: SET without an expiry.
StoreForGood(v) ==
    /\ verify[v].pc = "store"
    /\ vtok' = [vtok EXCEPT ![v] = [id |-> verify[v].id, until |-> Ttl * Ttl]]
    /\ verify' = [verify EXCEPT ![v] = [@ EXCEPT !.pc = "reply", !.at = clock]]
    /\ UNCHANGED <<clock, export, admitted>>

\* SETEX
Store(v) ==
    /\ verify[v].pc = "store"
    /\ vtok' = [vtok EXCEPT ![v] = [id |-> verify[v].id, until |-> clock + Ttl]]
    /\ verify' = [verify EXCEPT ![v] = [@ EXCEPT !.pc = "reply", !.at = clock]]
    /\ UNCHANGED <<clock, export, admitted>>

Reply(v) ==
    /\ verify[v].pc = "reply"
    /\ verify' = [verify EXCEPT ![v].pc = "told"]
    /\ UNCHANGED <<clock, vtok, export, admitted>>

\* A command or its answer is lost, or the process stops: nothing is undone.
VerifyFails(v) ==
    /\ verify[v].pc \in {"store", "reply"}
    /\ verify' = [verify EXCEPT ![v].pc = "done"]
    /\ UNCHANGED <<clock, vtok, export, admitted>>

-----------------------------------------------------------------------------
(* POST /api/secrets/export                                                *)

\* Mutated: whether the token was handed out is taken for its validity.
HandedOut(t) == verify[t].pc = "told"

Present(t) == vtok[t].until > clock

\* GET: 401 without a token, 403 for another artifact's.
Get(e) ==
    /\ export[e].pc = "idle"
    /\ ~Busy
    /\ \E t \in {v \in Verifies : verify[v].pc = "told"}, id \in Ids, format \in Formats :
          IF Present(t) /\ vtok[t].id = id
          THEN /\ export' = [export EXCEPT ![e] = [pc |-> "delete", token |-> t, id |-> id, format |-> format,
                                                  found |-> clock, answer |-> "none"]]
               /\ admitted' = admitted \cup {<<e, t>>}
          ELSE /\ export' = [export EXCEPT ![e] = [@ EXCEPT !.pc = "done",
                                                          !.answer = IF Present(t) THEN "403" ELSE "401"]]
               /\ UNCHANGED admitted
    /\ UNCHANGED <<clock, vtok, verify>>

\* The token goes before the format is looked at.
Delete(e) ==
    /\ export[e].pc = "delete"
    /\ vtok' = [vtok EXCEPT ![export[e].token] = NoToken]
    /\ export' = [export EXCEPT ![e].pc = "answer"]
    /\ UNCHANGED <<clock, verify, admitted>>

Answer(e) ==
    /\ export[e].pc = "answer"
    /\ export' = [export EXCEPT ![e] = [@ EXCEPT !.pc = "done",
                     !.answer = IF export[e].format = "other" THEN "400" ELSE "exported"]]
    /\ UNCHANGED <<clock, vtok, verify, admitted>>

ExportFails(e) ==
    /\ export[e].pc \in {"delete", "answer"}
    /\ export' = [export EXCEPT ![e] = [@ EXCEPT !.pc = "done", !.answer = "500"]]
    /\ UNCHANGED <<clock, vtok, verify, admitted>>

-----------------------------------------------------------------------------
Tick ==
    /\ \E t \in Instants : t > clock /\ clock' = t
    /\ UNCHANGED <<vtok, verify, export, admitted>>

\* Redis comes back empty.
Flush ==
    /\ vtok' = [v \in Verifies |-> NoToken]
    /\ UNCHANGED <<clock, verify, export, admitted>>

Next ==
    \/ \E v \in Verifies : Judge(v) \/ Store(v) \/ Reply(v) \/ VerifyFails(v)
    \/ \E e \in Exports : Get(e) \/ Delete(e) \/ Answer(e) \/ ExportFails(e)
    \/ Tick \/ Flush

Spec == Init /\ [][Next]_vars

-----------------------------------------------------------------------------
TypeOK ==
    /\ clock \in Nat
    /\ vtok \in [Verifies -> [id : Ids, until : Nat] \cup {NoToken}]
    /\ verify \in [Verifies -> [pc : {"idle", "store", "reply", "told", "done"},
                                id : Ids \cup {None}, at : Nat \cup {None}]]
    /\ export \in [Exports -> [pc     : {"idle", "delete", "answer", "done"},
                               token  : Verifies \cup {None},
                               id     : Ids \cup {None},
                               format : Formats,
                               found  : Nat,
                               answer : {"none", "401", "403", "400", "500", "exported"}]]
    /\ admitted \subseteq Exports \X Verifies

Spends(e) == export[e].answer \in {"exported", "400"}

\* A token pays for one answer, an export or the refusal of an unknown format,
\* however many requests name it and whatever fails in between.
ExportedOnce ==
    \A d, e \in Exports :
        Spends(d) /\ Spends(e) /\ export[d].token = export[e].token => d = e

\* What is exported is an artifact that a verification accepted, found within the
\* 300 seconds that its answer announced.
VerifiedRecently ==
    \A e \in Exports : LET t == export[e].token IN
        export[e].answer = "exported" =>
            /\ verify[t].id = export[e].id
            /\ export[e].found < verify[t].at + Ttl

\* A token opens once and closes for good, and only an export that found it open
\* is paid for with it.
Promise == INSTANCE TicketPromise WITH
    Tickets <- Verifies,
    Reqs <- Exports,
    used <- {e \in Exports : Spends(e)},
    ticket <- [v \in Verifies |-> IF Present(v) THEN "open"
                                ELSE IF verify[v].at = None THEN "none" ELSE "closed"]
KeepsPromise == Promise!Spec
=============================================================================
