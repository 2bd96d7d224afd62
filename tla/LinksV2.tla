------------------------------- MODULE LinksV2 -------------------------------
(***************************************************************************)
(* Accounts and password change links of play-with-login's second edition  *)
(* (deploy/app/app.py, /v2, and deploy/app/db.py): rows of a database,     *)
(* reached by one autocommitted statement per connection, any of which may *)
(* fail, before or after it took effect; links expire. The inbox is in the *)
(* memory of the process and does not survive it.                          *)
(***************************************************************************)
EXTENDS Naturals

CONSTANTS
    Names,      \* usernames, up to the collation of the column
    Initial,    \* the accounts of db/init.sql
    Reqs,       \* the requests of a run
    None,       \* no account, no owner
    Ttl,        \* TOKEN_TTL_MINUTES
    MaxNow      \* bound: where the clock stops

LinksAssumption ==
    /\ Initial \subseteq Names
    /\ None \notin Names \cup Reqs
    /\ "initial" \notin Reqs
    /\ Ttl \in Nat /\ MaxNow \in Nat

VARIABLES
    now,        \* utcnow()
    users,      \* the table users: the password of each account
    rows,       \* the table password_reset_tokens
    inbox,      \* the links delivered
    req,        \* the requests
    admitted,   \* history: the change requests that found their link valid
    changed     \* history: the change requests that set a password

vars == <<now, users, rows, inbox, req, admitted, changed>>

Kinds == {"signup", "ask", "change"}
ReqState == [kind : Kinds, name : Names \cup {None}, link : Reqs \cup {None},
             pc : {"idle", "check", "insert", "post", "judge", "update", "mark", "done"},
             used : BOOLEAN,      \* what the SELECT of a change request read
             judged : Nat,        \* when it compared the expiry
             created : BOOLEAN]   \* "Account created! You can now log in."

Rows == [owner : Names \cup {None}, used : BOOLEAN, expires : Nat]
NoRow == [owner |-> None, used |-> FALSE, expires |-> 0]

Init ==
    /\ now = 0
    /\ users = [n \in Names |-> IF n \in Initial THEN "initial" ELSE None]
    /\ rows = [t \in Reqs |-> NoRow]
    /\ inbox = {}
    /\ req = [r \in Reqs |-> [kind |-> "ask", name |-> None, link |-> None, pc |-> "idle",
                              used |-> FALSE, judged |-> 0, created |-> FALSE]]
    /\ admitted = {} /\ changed = {}

At(r, kind, pc) == req[r].kind = kind /\ req[r].pc = pc
Goto(r, pc) == req' = [req EXCEPT ![r].pc = pc]
Done(r) == Goto(r, "done")

\* A request arrives; a change request follows a link from My Page.
Arrive(r) ==
    /\ req[r].pc = "idle"
    /\ \E kind \in Kinds, n \in Names \cup {None}, t \in inbox \cup {None} :
          /\ (kind = "change") <=> (t # None)
          /\ (kind = "change") <=> (n = None)
          /\ req' = [req EXCEPT ![r] = [@ EXCEPT !.kind = kind, !.name = n, !.link = t, !.pc = "check"]]
    /\ UNCHANGED <<now, users, rows, inbox, admitted, changed>>

\* A statement fails before it took effect: the request ends. (The handler of a
\* change request swallows the failure of its first and its last statement, and
\* that of an ask its second; none of that shows in the state.)
Fails(r) ==
    /\ req[r].pc \in {"check", "insert", "update", "mark"}
    /\ Done(r)
    /\ UNCHANGED <<now, users, rows, inbox, admitted, changed>>

-----------------------------------------------------------------------------
(* POST /v2/signup                                                         *)

SignupCheck(r) ==
    /\ At(r, "signup", "check")
    /\ Goto(r, IF users[req[r].name] # None THEN "done" ELSE "insert")
    /\ UNCHANGED <<now, users, rows, inbox, admitted, changed>>

\* Mutated: the column username is not UNIQUE.
FreeAnyway(n) == TRUE

Free(n) == users[n] = None

\* The INSERT fails on a duplicate; it may take effect and yet fail.
SignupInsert(r) ==
    /\ At(r, "signup", "insert")
    /\ Free(req[r].name)
    /\ users' = [users EXCEPT ![req[r].name] = r]
    /\ \E ok \in BOOLEAN : req' = [req EXCEPT ![r] = [@ EXCEPT !.pc = "done", !.created = ok]]
    /\ UNCHANGED <<now, rows, inbox, admitted, changed>>

-----------------------------------------------------------------------------
(* POST /v2/request-password-change                                        *)

AskCheck(r) ==
    /\ At(r, "ask", "check")
    /\ Goto(r, IF users[req[r].name] = None THEN "done" ELSE "insert")
    /\ UNCHANGED <<now, users, rows, inbox, admitted, changed>>

\* db_create_reset_token; a row whose INSERT failed afterwards is not delivered.
AskInsert(r) ==
    /\ At(r, "ask", "insert")
    /\ rows' = [rows EXCEPT ![r] = [owner |-> req[r].name, used |-> FALSE, expires |-> now + Ttl]]
    /\ \E ok \in BOOLEAN : Goto(r, IF ok THEN "post" ELSE "done")
    /\ UNCHANGED <<now, users, inbox, admitted, changed>>

AskPost(r) ==
    /\ At(r, "ask", "post")
    /\ inbox' = inbox \cup {r}
    /\ Done(r)
    /\ UNCHANGED <<now, users, rows, admitted, changed>>

-----------------------------------------------------------------------------
(* POST /v2/change-password/<token>                                        *)

\* Mutated: the column used is not looked at.
ChangeSelectUsed(r) ==
    LET row == rows[req[r].link] IN
    /\ At(r, "change", "check")
    /\ req' = [req EXCEPT ![r] = [@ EXCEPT !.pc = "judge", !.name = row.owner, !.used = FALSE]]
    /\ admitted' = IF ~row.used /\ now <= row.expires THEN admitted \cup {<<r, req[r].link>>} ELSE admitted
    /\ UNCHANGED <<now, users, rows, inbox, changed>>

\* The SELECT of db_get_valid_token.
ChangeSelect(r) ==
    LET row == rows[req[r].link] IN
    /\ At(r, "change", "check")
    /\ req' = [req EXCEPT ![r] = [@ EXCEPT !.pc = "judge", !.name = row.owner, !.used = row.used]]
    /\ admitted' = IF ~row.used /\ now <= row.expires THEN admitted \cup {<<r, req[r].link>>} ELSE admitted
    /\ UNCHANGED <<now, users, rows, inbox, changed>>

\* Mutated: the comparison that makes a link expire is the other way round.
ExpiredSwapped(t) == rows[t].expires > now

Expired(t) == now > rows[t].expires

\* What it read is judged: used, expired, or refused for its form.
ChangeJudge(r) ==
    /\ At(r, "change", "judge")
    /\ \E valid \in BOOLEAN :
          req' = [req EXCEPT ![r] =
                     [@ EXCEPT !.pc = IF valid /\ ~req[r].used /\ ~Expired(req[r].link) THEN "update" ELSE "done",
                               !.judged = now]]
    /\ UNCHANGED <<now, users, rows, inbox, admitted, changed>>

ChangeUpdate(r) ==
    /\ At(r, "change", "update")
    /\ users' = [users EXCEPT ![req[r].name] = r]
    /\ changed' = changed \cup {r}
    /\ \E ok \in BOOLEAN : Goto(r, IF ok THEN "mark" ELSE "done")
    /\ UNCHANGED <<now, rows, inbox, admitted>>

ChangeMark(r) ==
    /\ At(r, "change", "mark")
    /\ rows' = [rows EXCEPT ![req[r].link].used = TRUE]
    /\ Done(r)
    /\ UNCHANGED <<now, users, inbox, admitted, changed>>

-----------------------------------------------------------------------------
\* The process restarts: the inbox and the requests are gone, the tables stay.
Restart ==
    /\ inbox' = {}
    /\ req' = [r \in Reqs |-> IF req[r].pc = "idle" THEN req[r] ELSE [req[r] EXCEPT !.pc = "done"]]
    /\ UNCHANGED <<now, users, rows, admitted, changed>>

Tick ==
    /\ now < MaxNow
    /\ now' = now + 1
    /\ UNCHANGED <<users, rows, inbox, req, admitted, changed>>

Request(r) ==
    \/ SignupCheck(r) \/ SignupInsert(r)
    \/ AskCheck(r) \/ AskInsert(r) \/ AskPost(r)
    \/ ChangeSelect(r) \/ ChangeJudge(r) \/ ChangeUpdate(r) \/ ChangeMark(r)
    \/ Fails(r)

Next == (\E r \in Reqs : Arrive(r) \/ Request(r)) \/ Restart \/ Tick

Spec == Init /\ [][Next]_vars

-----------------------------------------------------------------------------
TypeOK ==
    /\ now \in Nat
    /\ users \in [Names -> Reqs \cup {"initial", None}]
    /\ rows \in [Reqs -> Rows]
    /\ inbox \subseteq {t \in Reqs : rows[t].owner # None}
    /\ req \in [Reqs -> ReqState]
    /\ admitted \subseteq Reqs \X Reqs
    /\ changed \subseteq Reqs

\* A link that was used or has expired stays closed, across restarts and failing
\* statements, and only requests that read it open change a password.
Promise == INSTANCE TicketPromise WITH
    Tickets <- Reqs,
    used <- changed,
    ticket <- [t \in Reqs |-> IF rows[t].owner = None THEN "none"
                            ELSE IF rows[t].used \/ Expired(t) THEN "closed" ELSE "open"]
KeepsPromise == Promise!Spec

\* A password changed with a link belongs to the account the link was made for, and
\* the link had not expired when the request was judged.
ChangedInTime ==
    \A r \in changed : /\ req[r].judged <= rows[req[r].link].expires
                       /\ req[r].name = rows[req[r].link].owner

\* Whoever was told that an account was created has its password, until a link
\* made for that account changes it.
CreatedCanLogin ==
    \A r \in Reqs : req[r].created =>
        \/ users[req[r].name] = r
        \/ users[req[r].name] \in changed /\ req[users[req[r].name]].name = req[r].name
=============================================================================
