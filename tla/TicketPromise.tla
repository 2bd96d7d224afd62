---------------------------- MODULE TicketPromise ----------------------------
(***************************************************************************)
(* What a thing that is meant to be used and then gone promises, here the  *)
(* password change links of play-with-login and the deploy tokens of       *)
(* DarkHarbor: it opens once and closes once, a request is admitted only   *)
(* while the ticket it names is open, and only an admitted request uses    *)
(* it, once. It is not "one-time use": requests admitted together may all  *)
(* use it.                                                                 *)
(***************************************************************************)
CONSTANTS
    Tickets,
    Reqs

VARIABLES
    ticket,     \* "none", "open" or "closed"
    admitted,   \* the requests admitted, with their tickets
    used        \* the requests that used theirs

vars == <<ticket, admitted, used>>

Init ==
    /\ ticket = [t \in Tickets |-> "none"]
    /\ admitted = {}
    /\ used = {}

Open(t) ==
    /\ ticket[t] = "none"
    /\ ticket' = [ticket EXCEPT ![t] = "open"]
    /\ UNCHANGED <<admitted, used>>

Admit(r, t) ==
    /\ ticket[t] = "open"
    /\ admitted' = admitted \cup {<<r, t>>}
    /\ UNCHANGED <<ticket, used>>

Use(r) ==
    /\ r \notin used
    /\ \E t \in Tickets : <<r, t>> \in admitted
    /\ used' = used \cup {r}
    /\ UNCHANGED <<ticket, admitted>>

\* Tickets close: one at a time when used, or together when time passes, the
\* process restarts or the store loses its keys.
Close(T) ==
    /\ \A t \in T : ticket[t] = "open"
    /\ ticket' = [t \in Tickets |-> IF t \in T THEN "closed" ELSE ticket[t]]
    /\ UNCHANGED <<admitted, used>>

Next ==
    \/ \E t \in Tickets : Open(t)
    \/ \E r \in Reqs, t \in Tickets : Admit(r, t)
    \/ \E r \in Reqs : Use(r)
    \/ \E T \in SUBSET Tickets : Close(T)

Spec == Init /\ [][Next]_vars
=============================================================================
