------------------------------ MODULE HmacNonce ------------------------------
(***************************************************************************)
(* validate_hmac of the policy engine (app/hmac_auth.py): a signed header  *)
(* is good for a window of seconds around its timestamp, and a nonce in    *)
(* redis, kept for Ttl seconds, keeps it from being accepted again.        *)
(*                                                                         *)
(* The engine's clock is read in whole seconds, redis expires keys in      *)
(* milliseconds, and time passes between reading the clock, EXISTS and     *)
(* SETEX.  The engine runs one handler at a time (validate_hmac never      *)
(* awaits); redis may fail or lose its keys at any moment.                 *)
(***************************************************************************)
EXTENDS Integers, Sequences

CONSTANTS
    Requests,    \* calls of the one route that validates a header
    Stamps,      \* timestamps in their headers, in seconds
    Instants,    \* the milliseconds at which the clock is observed
    MaxEpoch     \* bound: how often redis loses its keys

HmacAssumption ==
    /\ Stamps \subseteq Int
    /\ Instants \subseteq Nat
    /\ MaxEpoch \in Nat

VARIABLES
    clock,    \* the time both containers see, in milliseconds
    nonce,    \* hmac_nonce:<stamp>:<path>: when it expires, 0 if absent
    epoch,    \* how often redis has lost its keys
    pc,       \* what each call does next
    head,     \* the header of each call: its stamp, and whether its signature matches
    read,     \* the value of int(time.time()) in each call
    answer,   \* "valid" or "refused"
    acc       \* history: every valid answer, in order

vars == <<clock, nonce, epoch, pc, head, read, answer, acc>>

Window == 30
\* Mutated: the nonce does not outlive the window.
TtlShort == 30
Ttl == 60

\* int(time.time())
Now == clock \div 1000

Headers == [stamp : Stamps, good : BOOLEAN]

\* What there is to say of a valid answer: asked if EXISTS found no nonce before it,
\* kept if SETEX stored one.
Accepted == [by : Requests, stamp : Stamps, read : Int, at : Nat, epoch : Nat,
             asked : BOOLEAN, kept : BOOLEAN]

Init ==
    /\ clock = 0
    /\ nonce = [s \in Stamps |-> 0]
    /\ epoch = 0
    /\ pc = [r \in Requests |-> "idle"]
    /\ head \in [Requests -> Headers]
    /\ read = [r \in Requests |-> 0]
    /\ answer = [r \in Requests |-> "none"]
    /\ acc = <<>>

\* The event loop is inside validate_hmac.
Busy == \E r \in Requests : pc[r] \in {"exists", "setex"}

Done(r, a) ==
    /\ pc' = [pc EXCEPT ![r] = "done"]
    /\ answer' = [answer EXCEPT ![r] = a]

InWindow(s) == Now - s <= Window /\ s - Now <= Window

\* Mutated: the signature is compared after the nonce is stored, not before.
MayProceedUnsigned(h) == InWindow(h.stamp)

MayProceed(h) == InWindow(h.stamp) /\ h.good

\* A call reads the clock, checks the window, then the signature.
Arrive(r) ==
    /\ pc[r] = "idle"
    /\ ~Busy
    /\ read' = [read EXCEPT ![r] = Now]
    /\ IF MayProceed(head[r])
         THEN pc' = [pc EXCEPT ![r] = "exists"] /\ UNCHANGED answer
         ELSE Done(r, "refused")
    /\ UNCHANGED <<clock, nonce, epoch, head, acc>>

Present(s) == clock < nonce[s]

\* EXISTS hmac_nonce:<stamp>:<path>
Exists(r) ==
    /\ pc[r] = "exists"
    /\ IF Present(head[r].stamp)
         THEN Done(r, "refused")
         ELSE pc' = [pc EXCEPT ![r] = "setex"] /\ UNCHANGED answer
    /\ UNCHANGED <<clock, nonce, epoch, head, read, acc>>

Accept(r, asked, kept) ==
    /\ Done(r, "valid")
    /\ acc' = Append(acc, [by |-> r, stamp |-> head[r].stamp, read |-> read[r], at |-> clock,
                           epoch |-> epoch, asked |-> asked, kept |-> kept])

\* Mutated: PSETEX, which takes its argument for milliseconds.
SetexMillis(r) ==
    /\ pc[r] = "setex"
    /\ nonce' = [nonce EXCEPT ![head[r].stamp] = clock + Ttl]
    /\ Accept(r, TRUE, TRUE)
    /\ UNCHANGED <<clock, epoch, head, read>>

\* SETEX; the call answers valid whether redis confirms or the reply is lost.
Setex(r) ==
    /\ pc[r] = "setex"
    /\ nonce' = [nonce EXCEPT ![head[r].stamp] = clock + 1000 * Ttl]
    /\ Accept(r, TRUE, TRUE)
    /\ UNCHANGED <<clock, epoch, head, read>>

\* Either command fails: the exception is swallowed and the call goes on as valid,
\* unasked if it was EXISTS, and with no nonce stored.
RedisError(r) ==
    /\ pc[r] \in {"exists", "setex"}
    /\ Accept(r, pc[r] = "setex", FALSE)
    /\ UNCHANGED <<clock, nonce, epoch, head, read>>

\* redis restarts empty.
Flush ==
    /\ epoch < MaxEpoch
    /\ epoch' = epoch + 1
    /\ nonce' = [s \in Stamps |-> 0]
    /\ UNCHANGED <<clock, pc, head, read, answer, acc>>

Tick ==
    /\ \E t \in Instants : clock < t /\ clock' = t
    /\ UNCHANGED <<nonce, epoch, pc, head, read, answer, acc>>

Next ==
    \/ Tick
    \/ Flush
    \/ \E r \in Requests : Arrive(r) \/ Exists(r) \/ Setex(r) \/ RedisError(r)

Spec == Init /\ [][Next]_vars

-----------------------------------------------------------------------------
TypeOK ==
    /\ clock \in Nat
    /\ nonce \in [Stamps -> Nat]
    /\ epoch \in Nat
    /\ pc \in [Requests -> {"idle", "exists", "setex", "done"}]
    /\ head \in [Requests -> Headers]
    /\ read \in [Requests -> Int]
    /\ answer \in [Requests -> {"none", "valid", "refused"}]
    /\ acc \in Seq(Accepted)
    /\ \A r \in Requests : pc[r] = "done" <=> answer[r] # "none"

\* a and b are valid answers to one stamp, a before b, and redis did its part: it
\* stored the nonce of a, has kept its keys since, and was asked before b.
Remembered(a, b) == a.stamp = b.stamp /\ a.epoch = b.epoch /\ a.kept /\ b.asked

\* Unless redis loses its keys or a command of one of the two fails, two calls with
\* the same stamp are accepted at least Ttl seconds apart, two different overrides
\* signed within one second included: the nonce names the second and the path, not
\* the signature.
Spaced ==
    \A i, j \in DOMAIN acc :
        i < j /\ Remembered(acc[i], acc[j]) => acc[j].at - acc[i].at >= 1000 * Ttl

\* A header that redis remembers, and was asked about, is accepted a second time
\* only in the one second the 60 second nonce does not cover of a window of 61:
\* first read at the very first second of the window, then at the very last; or
\* when the second call was held up across a second's end between its clock and redis.
OnlyAtTheEdge ==
    \A i, j \in DOMAIN acc :
        i < j /\ Remembered(acc[i], acc[j]) =>
            \/ acc[i].read = acc[i].stamp - Window /\ acc[j].read = acc[j].stamp + Window
            \/ acc[j].at >= 1000 * (acc[j].read + 1)

\* A call that is refused leaves no nonce behind: what redis holds was put there
\* by an accepted, well signed call of this epoch whose SETEX took effect.
NonceMeansAccepted ==
    \A s \in Stamps : nonce[s] # 0 =>
        \E i \in DOMAIN acc :
            LET a == acc[i] IN
            a.stamp = s /\ a.epoch = epoch /\ a.kept /\ answer[a.by] = "valid" /\ head[a.by].good
=============================================================================
