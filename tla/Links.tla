-------------------------------- MODULE Links --------------------------------
(***************************************************************************)
(* Both editions of the password links (deploy/app/app.py serves /v1 and   *)
(* /v2). They share the process, the session and the inbox (app.py: one    *)
(* dictionary, to which both only append). A link of one edition is        *)
(* nothing to the other, and no property is about what an inbox holds of   *)
(* both; so each has variables of its own, and a behaviour drives one of   *)
(* them.                                                                   *)
(***************************************************************************)
EXTENDS LinksV2

VARIABLES edition, users1, tokens1, inbox1, req1, issued1, admitted1, changed1

V1 == INSTANCE LinksV1 WITH
    users <- users1, tokens <- tokens1, inbox <- inbox1, req <- req1,
    issued <- issued1, admitted <- admitted1, changed <- changed1

vars1 == <<users1, tokens1, inbox1, req1, issued1, admitted1, changed1>>

EditionsInit == edition \in {"v1", "v2"} /\ V1!Init /\ Init

EditionsNext ==
    /\ UNCHANGED edition
    /\ \/ edition = "v1" /\ V1!Next /\ UNCHANGED vars
       \/ edition = "v2" /\ Next /\ UNCHANGED vars1

EditionsSpec == EditionsInit /\ [][EditionsNext]_<<edition, vars1, vars>>

\* LinksV1: one success per link, of a request that did set a password.
OneSuccess == V1!OneSuccess

\* LinksV1 implements TicketPromise: its links close for good.
LinksKeepPromise == V1!KeepsPromise
=============================================================================
