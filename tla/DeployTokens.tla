---------------------------- MODULE DeployTokens ----------------------------
(***************************************************************************)
(* The deploy tokens of DarkHarbor: keys of redis that the policy engine   *)
(* stores when it accepts an override (app/main.py, policy-override) and   *)
(* the api-server when an administrator asks for one (routes/deploy.js),   *)
(* and that POST .../use-token spends; and the session seal of each        *)
(* workspace, under which an override encrypts its secret and which        *)
(* use-token hands out for action seal.                                    *)
(*                                                                         *)
(* The engine serves one request at a time, its redis commands interleave  *)
(* with those of the api-server, which awaits each of its own. A command   *)
(* may fail, before or after it took effect, a process may stop between    *)
(* two of them, and redis may lose its keys. A token is named by the       *)
(* request that generated it; so is a seal. (The engine also inserts each  *)
(* token into the table deploy_tokens, which nothing reads.)               *)
(***************************************************************************)
EXTENDS Naturals

CONSTANTS
    Workspaces,
    Issues,     \* requests that generate a token
    Uses,       \* use-token requests
    None,       \* no seal
    Instants,   \* the seconds at which the clock is observed
    MaxEpoch    \* bound: how often redis loses its keys

ASSUME DeployAssumption ==
    /\ None \notin Issues
    /\ Instants \subseteq Nat
    /\ MaxEpoch \in Nat

VARIABLES
    clock,      \* the time redis sees, in seconds
    seal,       \* darkharbor:session_seal:<ws>
    until,      \* deploy:<ws>:<token>: when it expires, 0 if absent
    result,     \* override_result:<ws>
    known,      \* the tokens somebody was told
    issue,      \* the requests that generate a token
    use,        \* the use-token requests
    admitted,   \* history: the uses that found their token
    epoch       \* how often redis has lost its keys

vars == <<clock, seal, until, result, known, issue, use, admitted, epoch>>

Kinds == {"route", "override"}
Ttl == [route |-> 3, override |-> 30]
ResultTtl == 30

\* Where a request is. An issue checks the state; an override then reads the
\* seal, plants one if there is none, and publishes its result.
IssueState == [kind   : Kinds, ws : Workspaces,
               pc     : {"idle", "seal", "plant", "token", "publish", "reply", "done"},
               mine   : Issues \cup {None},   \* the seal it encrypts under
               stored : BOOLEAN,              \* its token was stored
               torn   : BOOLEAN]              \* redis lost the seal before that
UseState == [ws : Workspaces, token : Issues,
             action : {"seal", "sign"},
             pc     : {"idle", "seal", "get", "del", "reply", "done"},
             got    : Issues \cup {None},     \* sessionSeal
             answer : {"none", "valid", "404", "500"}]
NoResult == [of |-> None, until |-> 0]
Results == [of : Issues, until : Nat] \cup {NoResult}

Init ==
    /\ clock = 0
    /\ seal = [w \in Workspaces |-> None]
    /\ until = [i \in Issues |-> 0]
    /\ result = [w \in Workspaces |-> NoResult]
    /\ known = {}
    /\ issue \in [Issues -> [kind : Kinds, ws : Workspaces, pc : {"idle"}, mine : {None},
                             stored : {FALSE}, torn : {FALSE}]]
    /\ use \in [Uses -> [ws : Workspaces, token : Issues, action : {"seal", "sign"},
                         pc : {"idle"}, got : {None}, answer : {"none"}]]
    /\ admitted = {}
    /\ epoch = 0

IssueGoto(i, pc) == issue' = [issue EXCEPT ![i].pc = pc]
UseGoto(u, pc) == use' = [use EXCEPT ![u].pc = pc]

-----------------------------------------------------------------------------
(* POST /internal/admin/policy-override and POST /api/deploy/:id/token     *)

\* Mutated: a handler that awaits its redis commands.
BusyNever == FALSE

\* The engine is inside policy-override, which does not await once it has its body.
Busy == \E i \in Issues : issue[i].kind = "override"
                          /\ issue[i].pc \in {"seal", "plant", "token", "publish"}

\* The workspace must be in REVIEW now, which the pipeline decides (module
\* Pipeline); nothing looks again.
IssueCheck(i) ==
    /\ issue[i].pc = "idle"
    /\ issue[i].kind = "override" => ~Busy
    /\ \E inReview \in BOOLEAN :
          IssueGoto(i, IF ~inReview THEN "done"
                       ELSE IF issue[i].kind = "override" THEN "seal" ELSE "token")
    /\ UNCHANGED <<clock, seal, until, result, known, use, admitted, epoch>>

\* _get_workspace_seal
ReadSeal(i) ==
    LET s == seal[issue[i].ws] IN
    /\ issue[i].pc = "seal"
    /\ issue' = [issue EXCEPT ![i] = [@ EXCEPT !.pc   = IF s = None THEN "plant" ELSE "token",
                                               !.mine = IF s = None THEN i ELSE s]]
    /\ UNCHANGED <<clock, seal, until, result, known, use, admitted, epoch>>

PlantSeal(i) ==
    /\ issue[i].pc = "plant"
    /\ seal' = [seal EXCEPT ![issue[i].ws] = i]
    /\ IssueGoto(i, "token")
    /\ UNCHANGED <<clock, until, result, known, use, admitted, epoch>>

\* SET ... EX 3, or SETEX ... 30
StoreToken(i) ==
    /\ issue[i].pc = "token"
    /\ until' = [until EXCEPT ![i] = clock + Ttl[issue[i].kind]]
    /\ issue' = [issue EXCEPT ![i] = [@ EXCEPT !.pc = IF issue[i].kind = "override"
                                                    THEN "publish" ELSE "reply",
                                               !.stored = TRUE]]
    /\ UNCHANGED <<clock, seal, result, known, use, admitted, epoch>>

Publish(i) ==
    /\ issue[i].pc = "publish"
    /\ result' = [result EXCEPT ![issue[i].ws] = [of |-> i, until |-> clock + ResultTtl]]
    /\ IssueGoto(i, "reply")
    /\ UNCHANGED <<clock, seal, until, known, use, admitted, epoch>>

IssueReply(i) ==
    /\ issue[i].pc = "reply"
    /\ known' = known \cup {i}
    /\ IssueGoto(i, "done")
    /\ UNCHANGED <<clock, seal, until, result, use, admitted, epoch>>

\* A command or its answer is lost, or the process stops: nothing is undone.
IssueFails(i) ==
    /\ issue[i].pc \notin {"idle", "done"}
    /\ IssueGoto(i, "done")
    /\ UNCHANGED <<clock, seal, until, result, known, use, admitted, epoch>>

\* GET /api/deploy/:id/override-result
FetchResult(w) ==
    /\ clock < result[w].until
    /\ known' = known \cup {result[w].of}
    /\ UNCHANGED <<clock, seal, until, result, issue, use, admitted, epoch>>

-----------------------------------------------------------------------------
(* POST /api/deploy/:id/use-token. Nobody guesses a token.                 *)

UseBegin(u) ==
    /\ use[u].pc = "idle"
    /\ use[u].token \in known
    /\ UseGoto(u, IF use[u].action = "seal" THEN "seal" ELSE "get")
    /\ UNCHANGED <<clock, seal, until, result, known, issue, admitted, epoch>>

UseSeal(u) ==
    /\ use[u].pc = "seal"
    /\ use' = [use EXCEPT ![u] = [@ EXCEPT !.pc = "get", !.got = seal[use[u].ws]]]
    /\ UNCHANGED <<clock, seal, until, result, known, issue, admitted, epoch>>

\* Mutated: the token is looked up in deploy_tokens, whose rows do not expire.
PresentInTable(w, i) == issue[i].ws = w /\ issue[i].stored

\* deploy:<w>:<token of i> exists.
Present(w, i) == issue[i].ws = w /\ clock < until[i]

UseGet(u) ==
    LET t == use[u].token IN
    /\ use[u].pc = "get"
    /\ IF Present(use[u].ws, t)
         THEN UseGoto(u, "del") /\ admitted' = admitted \cup {<<u, t>>}
         ELSE /\ use' = [use EXCEPT ![u] = [@ EXCEPT !.pc = "done", !.answer = "404"]]
              /\ UNCHANGED admitted
    /\ UNCHANGED <<clock, seal, until, result, known, issue, epoch>>

\* Mutated: the answer is sent before the key is deleted.
UseDelLater(u) ==
    /\ use[u].pc = "del"
    /\ UseGoto(u, "reply")
    /\ UNCHANGED <<clock, seal, until, result, known, issue, admitted, epoch>>

UseDel(u) ==
    /\ use[u].pc = "del"
    /\ until' = [until EXCEPT ![use[u].token] = 0]
    /\ UseGoto(u, "reply")
    /\ UNCHANGED <<clock, seal, result, known, issue, admitted, epoch>>

UseReply(u) ==
    /\ use[u].pc = "reply"
    /\ use' = [use EXCEPT ![u] = [@ EXCEPT !.pc = "done", !.answer = "valid"]]
    /\ UNCHANGED <<clock, seal, until, result, known, issue, admitted, epoch>>

UseFails(u) ==
    /\ use[u].pc \notin {"idle", "done"}
    /\ use' = [use EXCEPT ![u] = [@ EXCEPT !.pc = "done", !.answer = "500"]]
    /\ UNCHANGED <<clock, seal, until, result, known, issue, admitted, epoch>>

-----------------------------------------------------------------------------
\* redis restarts empty; an override between its seal and its token goes on.
Flush ==
    /\ epoch < MaxEpoch
    /\ epoch' = epoch + 1
    /\ seal' = [w \in Workspaces |-> None]
    /\ until' = [i \in Issues |-> 0]
    /\ result' = [w \in Workspaces |-> NoResult]
    /\ issue' = [i \in Issues |-> IF issue[i].pc = "token" THEN [issue[i] EXCEPT !.torn = TRUE]
                                  ELSE issue[i]]
    /\ UNCHANGED <<clock, known, use, admitted>>

Tick ==
    /\ \E t \in Instants : clock < t /\ clock' = t
    /\ UNCHANGED <<seal, until, result, known, issue, use, admitted, epoch>>

IssueStep(i) ==
    \/ IssueCheck(i) \/ ReadSeal(i) \/ PlantSeal(i)
    \/ StoreToken(i) \/ Publish(i) \/ IssueReply(i) \/ IssueFails(i)

UseStep(u) ==
    \/ UseBegin(u) \/ UseSeal(u) \/ UseGet(u) \/ UseDel(u) \/ UseReply(u) \/ UseFails(u)

Next ==
    \/ \E i \in Issues : IssueStep(i)
    \/ \E u \in Uses : UseStep(u)
    \/ \E w \in Workspaces : FetchResult(w)
    \/ Flush
    \/ Tick

Spec == Init /\ [][Next]_vars

-----------------------------------------------------------------------------
TypeOK ==
    /\ clock \in Nat
    /\ seal \in [Workspaces -> Issues \cup {None}]
    /\ until \in [Issues -> Nat]
    /\ result \in [Workspaces -> Results]
    /\ known \subseteq Issues
    /\ issue \in [Issues -> IssueState]
    /\ use \in [Uses -> UseState]
    /\ admitted \subseteq Uses \X Issues
    /\ epoch \in Nat

\* The seal that use-token hands out with the token of an override is the one its
\* secret was encrypted under, although use-token reads it before it looks at the
\* token, two overrides of a workspace share it and redis may lose it: unless that
\* happened while the override was between its seal and its token.
SealOpensSecret ==
    \A u \in Uses :
        LET i == issue[use[u].token] IN
        use[u].answer = "valid" /\ use[u].action = "seal" /\ i.kind = "override" /\ ~i.torn =>
            use[u].got = i.mine

\* A token that a request was told to be valid is gone: no request finds it later,
\* whichever of them failed half-way. (Requests that found it before may still
\* all be told so.)
ValidIsSpent ==
    [][\A u, v \in Uses :
          use[u].answer = "valid" /\ use[u].token = use[v].token =>
              ~(use[v].pc = "get" /\ use'[v].pc = "del")]_vars

\* The tickets that TicketPromise speaks of are the tokens.
Ticket(i) == IF clock < until[i] THEN "open" ELSE IF issue[i].stored THEN "closed" ELSE "none"
Told == {u \in Uses : use[u].answer = "valid"}

Promise == INSTANCE TicketPromise WITH
    Tickets  <- Issues,
    Reqs     <- Uses,
    used     <- Told,
    ticket   <- [i \in Issues |-> Ticket(i)]

\* A token is stored once and gone once, and only requests that found it are told
\* that it is valid.
KeepsPromise == Promise!Spec
=============================================================================
