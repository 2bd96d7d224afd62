------------------------------- MODULE LinksV1 -------------------------------
(***************************************************************************)
(* Accounts and password change links of play-with-login's first edition   *)
(* (deploy/app/app.py, /v1): dictionaries of one process whose request     *)
(* threads interleave between dictionary operations. A link is named by    *)
(* the request that asked for it, a password by the request that set it.   *)
(***************************************************************************)
CONSTANTS
    Names,      \* usernames
    Initial,    \* init_accounts
    Reqs,       \* the requests of a run
    None        \* no account, no owner

LinksAssumption ==
    /\ Initial \subseteq Names
    /\ None \notin Names \cup Reqs
    /\ "initial" \notin Reqs

VARIABLES
    users,      \* users: the password of each account
    tokens,     \* password_reset_tokens_v1: the account each link is for
    inbox,      \* the links delivered
    req,        \* the requests
    issued,     \* history: the links ever stored
    admitted,   \* history: the change requests that found their link
    changed     \* history: the change requests that set a password

vars == <<users, tokens, inbox, req, issued, admitted, changed>>

Kinds == {"signup", "ask", "change"}
Replies == {"none", "created", "exists", "asked", "invalid", "form", "success", "error"}
ReqState == [kind : Kinds, name : Names \cup {None}, link : Reqs \cup {None},
             pc : {"idle", "check", "write", "store", "post", "owner", "set", "del", "done"},
             reply : Replies]

Accounts == [n \in Names |-> IF n \in Initial THEN "initial" ELSE None]

Init ==
    /\ users = Accounts
    /\ tokens = [t \in Reqs |-> None]
    /\ inbox = {}
    /\ req = [r \in Reqs |-> [kind |-> "ask", name |-> None, link |-> None,
                              pc |-> "idle", reply |-> "none"]]
    /\ issued = {} /\ admitted = {} /\ changed = {}

At(r, kind, pc) == req[r].kind = kind /\ req[r].pc = pc
Goto(r, pc) == req' = [req EXCEPT ![r].pc = pc]
Reply(r, answer) == req' = [req EXCEPT ![r] = [@ EXCEPT !.pc = "done", !.reply = answer]]

\* A request arrives; a change request follows a link from My Page.
Arrive(r) ==
    /\ req[r].pc = "idle"
    /\ \E kind \in Kinds, n \in Names \cup {None}, t \in inbox \cup {None} :
          /\ (kind = "change") <=> (t # None)
          /\ (kind = "change") <=> (n = None)
          /\ req' = [req EXCEPT ![r] = [kind |-> kind, name |-> n, link |-> t,
                                        pc |-> "check", reply |-> "none"]]
    /\ UNCHANGED <<users, tokens, inbox, issued, admitted, changed>>

-----------------------------------------------------------------------------
(* POST /v1/signup                                                         *)

SignupCheck(r) ==
    /\ At(r, "signup", "check")
    /\ IF users[req[r].name] # None THEN Reply(r, "exists") ELSE Goto(r, "write")
    /\ UNCHANGED <<users, tokens, inbox, issued, admitted, changed>>

SignupWrite(r) ==
    /\ At(r, "signup", "write")
    /\ users' = [users EXCEPT ![req[r].name] = r]
    /\ Reply(r, "created")
    /\ UNCHANGED <<tokens, inbox, issued, admitted, changed>>

-----------------------------------------------------------------------------
(* POST /v1/request-password-change                                        *)

AskCheck(r) ==
    /\ At(r, "ask", "check")
    /\ IF users[req[r].name] = None THEN Reply(r, "asked") ELSE Goto(r, "store")
    /\ UNCHANGED <<users, tokens, inbox, issued, admitted, changed>>

AskStore(r) ==
    /\ At(r, "ask", "store")
    /\ tokens' = [tokens EXCEPT ![r] = req[r].name]
    /\ issued' = issued \cup {r}
    /\ Goto(r, "post")
    /\ UNCHANGED <<users, inbox, admitted, changed>>

AskPost(r) ==
    /\ At(r, "ask", "post")
    /\ inbox' = inbox \cup {r}
    /\ Reply(r, "asked")
    /\ UNCHANGED <<users, tokens, issued, admitted, changed>>

-----------------------------------------------------------------------------
(* POST /v1/change-password/<token>                                        *)

\* Mutated: whether the link is known to the inbox is taken for its validity.
KnownByInbox(t) == t \in inbox

Known(t) == tokens[t] # None

ChangeCheck(r) ==
    LET t == req[r].link IN
    /\ At(r, "change", "check")
    /\ IF Known(t) THEN Goto(r, "owner") /\ admitted' = admitted \cup {<<r, t>>}
       ELSE Reply(r, "invalid") /\ UNCHANGED admitted
    /\ UNCHANGED <<users, tokens, inbox, issued, changed>>

\* The account is looked up, and the form is checked; a link that went away
\* since the check is a KeyError.
ChangeOwner(r) ==
    LET t == req[r].link IN
    /\ At(r, "change", "owner")
    /\ \/ tokens[t] = None /\ Reply(r, "error")
       \/ tokens[t] # None /\ Reply(r, "form")
       \/ tokens[t] # None /\ req' = [req EXCEPT ![r] = [@ EXCEPT !.pc = "set", !.name = tokens[t]]]
    /\ UNCHANGED <<users, tokens, inbox, issued, admitted, changed>>

ChangeSet(r) ==
    /\ At(r, "change", "set")
    /\ users' = [users EXCEPT ![req[r].name] = r]
    /\ changed' = changed \cup {r}
    /\ Goto(r, "del")
    /\ UNCHANGED <<tokens, inbox, issued, admitted>>

\* Mutated: the link is popped with a default.
ChangePop(r) ==
    /\ At(r, "change", "del")
    /\ tokens' = [tokens EXCEPT ![req[r].link] = None]
    /\ Reply(r, "success")
    /\ UNCHANGED <<users, inbox, issued, admitted, changed>>

\* del of a link that is gone is a KeyError.
ChangeDel(r) ==
    LET t == req[r].link IN
    /\ At(r, "change", "del")
    /\ tokens' = [tokens EXCEPT ![t] = None]
    /\ Reply(r, IF tokens[t] = None THEN "error" ELSE "success")
    /\ UNCHANGED <<users, inbox, issued, admitted, changed>>

-----------------------------------------------------------------------------
\* The process restarts with its initial accounts; requests are dropped.
Restart ==
    /\ users' = Accounts
    /\ tokens' = [t \in Reqs |-> None]
    /\ inbox' = {}
    /\ req' = [r \in Reqs |-> IF req[r].pc \in {"idle", "done"} THEN req[r]
                              ELSE [req[r] EXCEPT !.pc = "done", !.reply = "error"]]
    /\ UNCHANGED <<issued, admitted, changed>>

Request(r) ==
    \/ SignupCheck(r) \/ SignupWrite(r)
    \/ AskCheck(r) \/ AskStore(r) \/ AskPost(r)
    \/ ChangeCheck(r) \/ ChangeOwner(r) \/ ChangeSet(r) \/ ChangeDel(r)

Next == (\E r \in Reqs : Arrive(r) \/ Request(r)) \/ Restart

Spec == Init /\ [][Next]_vars

-----------------------------------------------------------------------------
TypeOK ==
    /\ users \in [Names -> Reqs \cup {"initial", None}]
    /\ tokens \in [Reqs -> Names \cup {None}]
    /\ inbox \subseteq issued
    /\ issued \subseteq Reqs
    /\ req \in [Reqs -> ReqState]
    /\ admitted \subseteq Reqs \X Reqs
    /\ changed \subseteq Reqs

\* "Password updated successfully" is answered to at most one request per link,
\* however many found it, and only to one that did set a password.
OneSuccess ==
    \A r, s \in Reqs :
        req[r].kind = "change" /\ req[r].reply = "success" =>
            /\ r \in changed
            /\ req[s].kind = "change" /\ req[s].reply = "success" /\ req[s].link = req[r].link => s = r

\* A link closes for good, and only requests that found it open change a password.
Promise == INSTANCE TicketPromise WITH
    Tickets <- Reqs,
    used <- changed,
    ticket <- [t \in Reqs |-> IF tokens[t] # None THEN "open"
                            ELSE IF t \in issued THEN "closed" ELSE "none"]
KeepsPromise == Promise!Spec
=============================================================================
