------------------------------ MODULE JwksCache ------------------------------
(***************************************************************************)
(* The verifier keys of DarkHarbor's phase 1: the table                    *)
(* phase1_seed_policies that the policy engine fills and publishes         *)
(* (app/routes_phase1.py), and the api-server's view of it: a cache of the *)
(* published document with a time to live (lib/jwks-fetcher.js), emptied   *)
(* when a seed went through (routes/policy-proxy.js), and one verifier per *)
(* kid that is built once and kept (policy-proxy.js, server.js).           *)
(*                                                                         *)
(* The api-server's calls interleave at their awaits; requests to the      *)
(* engine can be slow, time out while the engine still works on them, or   *)
(* fail; the engine's database can fail on any statement.                  *)
(***************************************************************************)
EXTENDS Naturals

CONSTANTS
    Kids,         \* key ids
    Admin,        \* PHASE1_ADMIN_KID, which no seed may use
    Pems,         \* key material
    AdminPem,     \* PHASE1_ADMIN_PUBLIC_KEY
    NoPem,        \* no row, no entry, or no verifier
    Sites,        \* the two maps of verifiers, _verifiers and _flagVerifiers
    Calls,        \* requests that verify a token
    Seeds,        \* requests that seed a key
    Ttl,          \* CACHE_TTL_MS
    MaxClock      \* bound: where the clock stops

ASSUME JwksAssumption ==
    /\ Admin \in Kids
    /\ AdminPem \in Pems
    /\ NoPem \notin Pems
    /\ Ttl \in Nat
    /\ MaxClock \in Nat

VARIABLES
    clock,    \* Date.now()
    pem,      \* phase1_seed_policies: the pem of each kid
    born,     \* history: when the row of a kid was committed
    cache,    \* _cache and _cacheTs; null is live = FALSE
    ver,      \* the verifier each site built for a kid: the pem it was built from
    call,     \* the verifying requests
    seed      \* the seeding requests

vars == <<clock, pem, born, cache, ver, call, seed>>

Table == [Kids -> Pems \cup {NoPem}]
NoRows == [k \in Kids |-> NoPem]

\* A document read while the database failed has no keys; whole remembers, for
\* the properties, that it was read from the table.
Docs == [keys : Table, whole : BOOLEAN]

Caches == [live : BOOLEAN, at : Nat, doc : Docs]
Null == [live |-> FALSE, at |-> 0, doc |-> [keys |-> NoRows, whole |-> TRUE]]

\* A request moves through its awaits:
\*   fetch:   GET jwks.json is on its way to the engine
\*   body:    the engine has answered
\*   resolve: fetchJwksMap has returned
CallState == [pc    : {"idle", "fetch", "body", "resolve", "done"},
              site  : Sites, kid : Kids,
              now   : Nat,      \* when fetchJwksMap read the clock
              doc   : Docs,
              answer: {"none", "unknown", "error", "verifier"}]

\*   sent:     POST policy-seed is on its way or being worked on
\*   orphan:   so it is, but the api-server has stopped waiting
\*   ok, bad:  the engine has answered 2xx, or something else
SeedState == [pc : {"idle", "sent", "orphan", "ok", "bad", "done"}, kid : Kids, pem : Pems]

Init ==
    /\ clock = 0
    /\ pem = NoRows
    /\ born = [k \in Kids |-> 0]
    /\ cache = Null
    /\ ver = [s \in Sites |-> NoRows]
    /\ call \in [Calls -> [pc : {"idle"}, site : Sites, kid : Kids, now : {0},
                           doc : {Null.doc}, answer : {"none"}]]
    /\ seed \in [Seeds -> [pc : {"idle"}, kid : Kids \ {Admin}, pem : Pems]]

-----------------------------------------------------------------------------
(* lib/jwks-fetcher.js                                                     *)

Fresh == cache.live /\ clock - cache.at < Ttl

\* fetchJwksMap reads the clock, and returns the cache or starts a fetch.
Begin(v) ==
    /\ call[v].pc = "idle"
    /\ call' = [call EXCEPT ![v] = [@ EXCEPT !.now = clock,
                                             !.doc = IF Fresh THEN cache.doc ELSE call[v].doc,
                                             !.pc  = IF Fresh THEN "resolve" ELSE "fetch"]]
    /\ UNCHANGED <<clock, pem, born, cache, ver, seed>>

\* Mutated: the cache is stamped with the time the answer arrived.
StampArrival(v) == clock

\* The cache is stamped with the time read before the fetch.
Stamp(v) == call[v].now

\* The answer has arrived: it becomes the cache, whatever the cache is by now.
Receive(v) ==
    /\ call[v].pc = "body"
    /\ cache' = [live |-> TRUE, at |-> Stamp(v), doc |-> call[v].doc]
    /\ call' = [call EXCEPT ![v].pc = "resolve"]
    /\ UNCHANGED <<clock, pem, born, ver, seed>>

\* The fetch times out, is refused, or is not JSON: the handler answers 500 and
\* the cache stays as it is.
FetchFails(v) ==
    /\ call[v].pc \in {"fetch", "body"}
    /\ call' = [call EXCEPT ![v] = [@ EXCEPT !.pc = "done", !.answer = "error"]]
    /\ UNCHANGED <<clock, pem, born, cache, ver, seed>>

\* resolveVerifier: the kid's entry, and the verifier of this site for it, which
\* is built from the entry only if there is none.
Resolve(v) ==
    LET k == call[v].kid
        s == call[v].site
        entry == call[v].doc.keys[k]
    IN
    /\ call[v].pc = "resolve"
    /\ ver' = IF entry # NoPem /\ ver[s][k] = NoPem THEN [ver EXCEPT ![s][k] = entry] ELSE ver
    /\ call' = [call EXCEPT ![v] = [@ EXCEPT !.pc = "done",
                                             !.answer = IF entry = NoPem THEN "unknown" ELSE "verifier"]]
    /\ UNCHANGED <<clock, pem, born, cache, seed>>

-----------------------------------------------------------------------------
(* app/routes_phase1.py; the engine handles one request at a time.         *)

\* Mutated: a seed replaces the key of its kid.
StoreOverwriting(t, k, p) == [t EXCEPT ![k] = p]

\* INSERT ... ON CONFLICT (kid) DO NOTHING
Store(t, k, p) == IF t[k] = NoPem THEN [t EXCEPT ![k] = p] ELSE t

BornAfter(t) == [k \in Kids |-> IF pem[k] # t[k] THEN clock ELSE born[k]]

\* The document jwks_json makes of the table t; it has no keys if the SELECT fails.
Answer(t, fails) ==
    IF fails THEN [keys |-> NoRows, whole |-> FALSE] ELSE [keys |-> t, whole |-> TRUE]

\* jwks_json: plants the admin key (ON CONFLICT DO UPDATE, to the same value),
\* then reads the table; either may fail, and both failures are swallowed.
Serve(v) ==
    /\ call[v].pc = "fetch"
    /\ \E t \in {pem, [pem EXCEPT ![Admin] = AdminPem]}, fails \in BOOLEAN :
          /\ pem' = t
          /\ born' = BornAfter(t)
          /\ call' = [call EXCEPT ![v] = [@ EXCEPT !.pc = "body", !.doc = Answer(t, fails)]]
    /\ UNCHANGED <<clock, cache, ver, seed>>

\* policy_seed answers "seeded" once the INSERT went through, conflict or not;
\* a commit whose confirmation is lost is stored, and answered 500.
EngineSeeds(s) ==
    /\ seed[s].pc \in {"sent", "orphan"}
    /\ \E t \in {pem, Store(pem, seed[s].kid, seed[s].pem)}, ok \in BOOLEAN :
          /\ ok => t = Store(pem, seed[s].kid, seed[s].pem)
          /\ pem' = t
          /\ born' = BornAfter(t)
          /\ seed' = [seed EXCEPT ![s].pc = IF @ = "orphan" THEN "done"
                                            ELSE IF ok THEN "ok" ELSE "bad"]
    /\ UNCHANGED <<clock, cache, ver, call>>

-----------------------------------------------------------------------------
(* routes/policy-proxy.js: POST /internal/policy-seed                      *)

SendSeed(s) ==
    /\ seed[s].pc = "idle"
    /\ seed' = [seed EXCEPT ![s].pc = "sent"]
    /\ UNCHANGED <<clock, pem, born, cache, ver, call>>

\* The engine's answer arrives; a 2xx empties the cache.
SeedReply(s) ==
    /\ seed[s].pc \in {"ok", "bad"}
    /\ cache' = IF seed[s].pc = "ok" THEN Null ELSE cache
    /\ seed' = [seed EXCEPT ![s].pc = "done"]
    /\ UNCHANGED <<clock, pem, born, ver, call>>

\* The proxy stops waiting and answers 502: the cache stays, the engine goes on.
SeedTimeout(s) ==
    /\ seed[s].pc \in {"sent", "ok", "bad"}
    /\ seed' = [seed EXCEPT ![s].pc = IF @ = "sent" THEN "orphan" ELSE "done"]
    /\ UNCHANGED <<clock, pem, born, cache, ver, call>>

\* The api-server restarts: cache and verifiers are gone, requests are dropped.
Restart ==
    /\ cache' = Null
    /\ ver' = [s \in Sites |-> NoRows]
    /\ call' = [v \in Calls |-> IF call[v].pc \in {"idle", "done"} THEN call[v]
                                ELSE [call[v] EXCEPT !.pc = "done", !.answer = "error"]]
    /\ seed' = [s \in Seeds |-> CASE seed[s].pc = "sent" -> [seed[s] EXCEPT !.pc = "orphan"]
                                  [] seed[s].pc \in {"ok", "bad"} -> [seed[s] EXCEPT !.pc = "done"]
                                  [] OTHER -> seed[s]]
    /\ UNCHANGED <<clock, pem, born>>

Tick ==
    /\ clock < MaxClock
    /\ clock' = clock + 1
    /\ UNCHANGED <<pem, born, cache, ver, call, seed>>

Next ==
    \/ \E v \in Calls : Begin(v) \/ Serve(v) \/ Receive(v) \/ FetchFails(v) \/ Resolve(v)
    \/ \E s \in Seeds : SendSeed(s) \/ EngineSeeds(s) \/ SeedReply(s) \/ SeedTimeout(s)
    \/ Restart
    \/ Tick

Spec == Init /\ [][Next]_vars

-----------------------------------------------------------------------------
TypeOK ==
    /\ clock \in Nat
    /\ pem \in Table
    /\ born \in [Kids -> Nat]
    /\ cache \in Caches
    /\ ~cache.live => cache = Null
    /\ ver \in [Sites -> Table]
    /\ call \in [Calls -> CallState]
    /\ seed \in [Seeds -> SeedState]

\* A cached document is never older than its stamp says: it has every key that
\* was committed before that, so an entry is missing for at most Ttl, however
\* long the fetch took and whatever fetches overtook it. (A document read while
\* the database failed is the exception: it is cached for Ttl like any other.)
CacheCurrent ==
    cache.live /\ cache.doc.whole =>
        \A k \in Kids : pem[k] # NoPem /\ born[k] < cache.at => cache.doc.keys[k] = pem[k]

\* A verifier is never built from anything but the key of its kid in the table,
\* and a key in the table never changes, so keeping it forever is sound.
VerifierIsKey ==
    \A s \in Sites, k \in Kids : ver[s][k] # NoPem => ver[s][k] = pem[k]

\* A call that answers "unknown" to a kid in the table began at most Ttl after the
\* key was committed, or saw a document read while the database failed.
UnknownIsOld ==
    \A v \in Calls :
        call[v].pc = "done" /\ call[v].answer = "unknown" /\ call[v].doc.whole =>
            \/ pem[call[v].kid] = NoPem
            \/ call[v].now <= born[call[v].kid] + Ttl
=============================================================================
