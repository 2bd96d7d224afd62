------------------------------ MODULE Overrides ------------------------------
(***************************************************************************)
(* What an override goes through in the policy engine: validate_hmac looks *)
(* at its header (HmacNonce), then the handler stores its token            *)
(* (DeployTokens).  The first decides only whether the second begins,      *)
(* which IssueCheck leaves open, and their keys of redis are disjoint; so  *)
(* each has variables of its own, and a behaviour drives one of them.      *)
(***************************************************************************)
EXTENDS DeployTokens, Integers

CONSTANTS
    Calls,          \* calls of validate_hmac
    Stamps,         \* timestamps in their headers, in seconds
    Milliseconds    \* the instants at which the engine's clock is observed

VARIABLES side, ms, nonce, losses, call, head, read, verdict, acc

Hmac == INSTANCE HmacNonce WITH
    Requests <- Calls, Instants <- Milliseconds,
    clock <- ms, epoch <- losses, pc <- call, answer <- verdict

hmacVars == <<ms, nonce, losses, call, head, read, verdict, acc>>

OverridesInit == side \in {"signature", "tokens"} /\ Hmac!Init /\ Init

OverridesNext ==
    /\ UNCHANGED side
    /\ \/ side = "signature" /\ Hmac!Next /\ UNCHANGED vars
       \/ side = "tokens" /\ Next /\ UNCHANGED hmacVars

OverridesSpec == OverridesInit /\ [][OverridesNext]_<<side, hmacVars, vars>>

\* HmacNonce: two calls with one stamp are accepted Ttl seconds apart if redis did its part.
Spaced == Hmac!Spaced

\* HmacNonce: a header redis was asked about is accepted again only at the ends of its window.
OnlyAtTheEdge == Hmac!OnlyAtTheEdge

\* HmacNonce: a nonce in redis was left by an accepted call.
NonceMeansAccepted == Hmac!NonceMeansAccepted
=============================================================================
