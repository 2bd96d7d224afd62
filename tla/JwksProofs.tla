------------------------------ MODULE JwksProofs ------------------------------
(***************************************************************************)
(* Proofs about JwksCache, for any kids, keys, calls and seeds and any     *)
(* time to live.                                                           *)
(***************************************************************************)
EXTENDS JwksCache, TLAPS

\* Every variable of the key cache stays typed, and an emptied cache keeps no
\* stamp.
THEOREM JwksTypeCorrect == Spec => []TypeOK
<1>0. Null \in Caches /\ Null.doc \in Docs /\ NoRows \in Table
  BY DEF Null, Caches, Docs, NoRows, Table
<1>1. Init => TypeOK
  <2> SUFFICES ASSUME Init PROVE TypeOK
    OBVIOUS
  <2>1. call \in [Calls -> CallState]
    BY <1>0 DEF Init, CallState
  <2>2. seed \in [Seeds -> SeedState]
    BY DEF Init, SeedState
  <2> QED
    BY <1>0, <2>1, <2>2 DEF Init, TypeOK
<1>2. TypeOK /\ [Next]_vars => TypeOK'
  <2> SUFFICES ASSUME TypeOK, [Next]_vars PROVE TypeOK'
    OBVIOUS
  <2> USE JwksAssumption DEF TypeOK
  <2>1. ASSUME NEW v \in Calls, Begin(v) PROVE TypeOK'
    <3>1. call[v] \in CallState /\ cache.doc \in Docs
      BY DEF Caches
    <3> DEFINE d == IF Fresh THEN cache.doc ELSE call[v].doc
               p == IF Fresh THEN "resolve" ELSE "fetch"
    <3>2. d \in Docs /\ p \in {"resolve", "fetch"}
      BY <3>1 DEF CallState
    <3>3. call' = [call EXCEPT ![v] = [call[v] EXCEPT !.now = clock, !.doc = d, !.pc = p]]
      BY <2>1 DEF Begin
    <3> HIDE DEF d, p
    <3>4. call' \in [Calls -> CallState]
      BY <3>1, <3>2, <3>3 DEF CallState
    <3> QED
      BY <2>1, <3>4 DEF Begin
  <2>2. ASSUME NEW v \in Calls, Serve(v) PROVE TypeOK'
    <3>1. PICK t \in {pem, [pem EXCEPT ![Admin] = AdminPem]}, fails \in BOOLEAN :
             /\ pem' = t
             /\ born' = BornAfter(t)
             /\ call' = [call EXCEPT ![v] = [@ EXCEPT !.pc = "body", !.doc = Answer(t, fails)]]
      BY <2>2 DEF Serve
    <3>2. t \in Table
      BY DEF Table
    <3>3. BornAfter(t) \in [Kids -> Nat]
      BY DEF BornAfter
    <3>4. Answer(t, fails) \in Docs
      BY <1>0, <3>2 DEF Answer, Docs
    <3>5. call' \in [Calls -> CallState]
      BY <3>1, <3>4 DEF CallState
    <3> QED
      BY <2>2, <3>1, <3>2, <3>3, <3>5 DEF Serve
  <2>3. ASSUME NEW v \in Calls, Receive(v) PROVE TypeOK'
    <3>1. call[v] \in CallState
      OBVIOUS
    <3>2. cache' \in Caches /\ cache'.live
      <4>1. call[v].now \in Nat /\ call[v].doc \in Docs
        BY <3>1 DEF CallState
      <4>2. [live |-> TRUE, at |-> call[v].now, doc |-> call[v].doc] \in Caches
        BY <4>1 DEF Caches
      <4>3. cache' = [live |-> TRUE, at |-> call[v].now, doc |-> call[v].doc]
        BY <2>3 DEF Receive, Stamp
      <4> QED
        BY <4>2, <4>3
    <3>3. call' \in [Calls -> CallState]
      BY <2>3, <3>1 DEF Receive, CallState
    <3> QED
      BY <2>3, <3>2, <3>3 DEF Receive
  <2>4. ASSUME NEW v \in Calls, FetchFails(v) PROVE TypeOK'
    <3>1. call' \in [Calls -> CallState]
      BY <2>4 DEF FetchFails, CallState
    <3> QED
      BY <2>4, <3>1 DEF FetchFails
  <2>5. ASSUME NEW v \in Calls, Resolve(v) PROVE TypeOK'
    <3>1. call[v] \in CallState /\ call[v].doc.keys \in Table
      BY DEF CallState, Docs
    <3>2. call' \in [Calls -> CallState]
      BY <2>5, <3>1 DEF Resolve, CallState
    <3>3. ver' \in [Sites -> Table]
      BY <2>5, <3>1 DEF Resolve, Table, CallState
    <3> QED
      BY <2>5, <3>2, <3>3 DEF Resolve
  <2>6. ASSUME NEW s \in Seeds, SendSeed(s) \/ SeedTimeout(s) PROVE TypeOK'
    <3>1. seed' \in [Seeds -> SeedState]
      BY <2>6 DEF SendSeed, SeedTimeout, SeedState
    <3> QED
      BY <2>6, <3>1 DEF SendSeed, SeedTimeout
  <2>7. ASSUME NEW s \in Seeds, SeedReply(s) PROVE TypeOK'
    <3>1. seed' \in [Seeds -> SeedState]
      BY <2>7 DEF SeedReply, SeedState
    <3> QED
      BY <1>0, <2>7, <3>1 DEF SeedReply
  <2>8. ASSUME NEW s \in Seeds, EngineSeeds(s) PROVE TypeOK'
    <3>1. PICK t \in {pem, Store(pem, seed[s].kid, seed[s].pem)} :
             pem' = t /\ born' = BornAfter(t)
      BY <2>8 DEF EngineSeeds
    <3>2. seed[s].kid \in Kids /\ seed[s].pem \in Pems
      BY DEF SeedState
    <3>3. t \in Table
      BY <3>2 DEF Store, Table
    <3>4. BornAfter(t) \in [Kids -> Nat]
      BY DEF BornAfter
    <3>5. seed' \in [Seeds -> SeedState]
      BY <2>8 DEF EngineSeeds, SeedState
    <3> QED
      BY <2>8, <3>1, <3>3, <3>4, <3>5 DEF EngineSeeds
  <2>9. CASE Restart
    <3>1. call' \in [Calls -> CallState]
      BY <2>9 DEF Restart, CallState
    <3>2. seed' \in [Seeds -> SeedState]
      BY <2>9 DEF Restart, SeedState
    <3> QED
      BY <1>0, <2>9, <3>1, <3>2 DEF Restart
  <2>10. CASE Tick
    BY <2>10 DEF Tick
  <2>11. CASE UNCHANGED vars
    BY <2>11 DEF vars
  <2> QED
    BY <2>1, <2>2, <2>3, <2>4, <2>5, <2>6, <2>7, <2>8, <2>9, <2>10, <2>11 DEF Next
<1> QED
  BY <1>1, <1>2, PTL DEF Spec

-----------------------------------------------------------------------------
(* The inductive invariant.                                                *)

\* A row is never changed once it is there: only the admin's row is written with
\* DO UPDATE, always to the same value, and no seed names its kid.
RowsFixed ==
    /\ pem[Admin] \in {NoPem, AdminPem}
    /\ \A s \in Seeds : seed[s].kid # Admin

\* What a document shows is in the table.
ShowsRows(d) == \A k \in Kids : d.keys[k] # NoPem => d.keys[k] = pem[k]
DocsShowRows == ShowsRows(cache.doc) /\ \A v \in Calls : ShowsRows(call[v].doc)

\* Clock readings are past, and so are the births of rows.
ReadingsPast ==
    /\ cache.at <= clock
    /\ \A v \in Calls : call[v].now <= clock
    /\ \A k \in Kids : born[k] <= clock

\* d, if it was read from the table, has every row committed before time t.
Covers(d, t) ==
    d.whole => \A k \in Kids : pem[k] # NoPem /\ born[k] < t => d.keys[k] = pem[k]

\* A document on its way covers the time its fetch began; one that a call is
\* about to use is at most Ttl behind it.
CallsCover ==
    \A v \in Calls :
        /\ call[v].pc = "body" => Covers(call[v].doc, call[v].now)
        /\ call[v].pc = "resolve" /\ call[v].doc.whole =>
              \A k \in Kids : pem[k] # NoPem /\ call[v].doc.keys[k] = NoPem =>
                  call[v].now <= born[k] + Ttl

JInv ==
    /\ RowsFixed /\ DocsShowRows /\ ReadingsPast /\ CallsCover
    /\ CacheCurrent /\ VerifierIsKey /\ UnknownIsOld

\* What the engine may do to the table in one step.
EngineStep ==
    /\ \A k \in Kids : pem[k] # NoPem => pem'[k] = pem[k] /\ born'[k] = born[k]
    /\ \A k \in Kids : pem[k] = NoPem /\ pem'[k] # NoPem => born'[k] = clock
    /\ \A k \in Kids : born'[k] \in {born[k], clock}

\* Rows only appear, stamped with the present.
LEMMA RowsOnlyAppear ==
  ASSUME TypeOK, RowsFixed, NEW t,
         \/ t \in {pem, [pem EXCEPT ![Admin] = AdminPem]}
         \/ \E s \in Seeds : t \in {pem, Store(pem, seed[s].kid, seed[s].pem)},
         pem' = t, born' = BornAfter(t)
  PROVE  EngineStep /\ pem'[Admin] \in {NoPem, AdminPem}
<1>1. \A k \in Kids : born'[k] = IF pem'[k] # pem[k] THEN clock ELSE born[k]
  BY DEF BornAfter
<1>2. (\A k \in Kids : pem[k] # NoPem => pem'[k] = pem[k]) /\ pem'[Admin] \in {NoPem, AdminPem}
  BY JwksAssumption DEF Store, RowsFixed, TypeOK, Table, SeedState
<1> QED
  BY <1>1, <1>2 DEF EngineStep

\* What a step of the engine leaves true of every call it does not answer, of the
\* cache and of the verifiers.
LEMMA EngineKeeps ==
  ASSUME TypeOK, JInv, EngineStep, UNCHANGED <<clock, cache, ver>>
  PROVE  /\ ShowsRows(cache.doc)' /\ CacheCurrent' /\ VerifierIsKey'
         /\ \A k \in Kids : born'[k] <= clock'
         /\ \A v \in Calls : call'[v] = call[v] =>
               /\ ShowsRows(call[v].doc)'
               /\ call[v].pc = "body" => Covers(call[v].doc, call[v].now)'
               /\ call[v].pc = "resolve" /\ call[v].doc.whole =>
                     \A k \in Kids : pem'[k] # NoPem /\ call[v].doc.keys[k] = NoPem =>
                         call[v].now <= born'[k] + Ttl
               /\ call[v].pc = "done" /\ call[v].answer = "unknown" /\ call[v].doc.whole =>
                     pem'[call[v].kid] = NoPem \/ call[v].now <= born'[call[v].kid] + Ttl
<1>0. /\ clock \in Nat /\ born \in [Kids -> Nat] /\ cache.at \in Nat /\ Ttl \in Nat
      /\ \A v \in Calls : call[v].now \in Nat /\ call[v].kid \in Kids
  BY JwksAssumption DEF TypeOK, Caches, CallState
<1>2. ShowsRows(cache.doc)' /\ VerifierIsKey'
  BY DEF EngineStep, JInv, DocsShowRows, ShowsRows, VerifierIsKey
<1>3. CacheCurrent'
  BY <1>0 DEF EngineStep, JInv, CacheCurrent, ReadingsPast
<1>4. \A k \in Kids : born'[k] <= clock'
  BY <1>0 DEF EngineStep, JInv, ReadingsPast
<1>5. ASSUME NEW v \in Calls, call'[v] = call[v]
      PROVE  /\ ShowsRows(call[v].doc)'
             /\ call[v].pc = "body" => Covers(call[v].doc, call[v].now)'
             /\ call[v].pc = "resolve" /\ call[v].doc.whole =>
                   \A k \in Kids : pem'[k] # NoPem /\ call[v].doc.keys[k] = NoPem =>
                       call[v].now <= born'[k] + Ttl
             /\ call[v].pc = "done" /\ call[v].answer = "unknown" /\ call[v].doc.whole =>
                   pem'[call[v].kid] = NoPem \/ call[v].now <= born'[call[v].kid] + Ttl
  <2>1. ShowsRows(call[v].doc)'
    BY <1>5 DEF EngineStep, JInv, DocsShowRows, ShowsRows
  <2>2. call[v].pc = "body" => Covers(call[v].doc, call[v].now)'
    BY <1>0, <1>5 DEF EngineStep, JInv, CallsCover, Covers, ReadingsPast
  <2>3. call[v].pc = "resolve" /\ call[v].doc.whole =>
          \A k \in Kids : pem'[k] # NoPem /\ call[v].doc.keys[k] = NoPem =>
             call[v].now <= born'[k] + Ttl
    BY <1>0 DEF EngineStep, JInv, CallsCover, ReadingsPast
  <2>4. call[v].pc = "done" /\ call[v].answer = "unknown" /\ call[v].doc.whole =>
          pem'[call[v].kid] = NoPem \/ call[v].now <= born'[call[v].kid] + Ttl
    BY <1>0 DEF EngineStep, JInv, UnknownIsOld, ReadingsPast
  <2> QED
    BY <2>1, <2>2, <2>3, <2>4
<1> QED
  BY <1>2, <1>3, <1>4, <1>5

\* Every step keeps JInv: rows only appear, documents are read from the table
\* after the clock was, and a cache is used for less than Ttl after its stamp.
LEMMA JwksInvariant == Spec => []JInv
<1> USE DEF ShowsRows
<1>1. Init => JInv
  <2> SUFFICES ASSUME Init PROVE JInv
    OBVIOUS
  <2>1. \A v \in Calls : call[v].pc = "idle" /\ call[v].now = 0 /\ call[v].doc = Null.doc
    BY DEF Init
  <2>2. \A s \in Seeds : seed[s].kid # Admin
    BY DEF Init
  <2>3. \A k \in Kids : Null.doc.keys[k] = NoPem
    BY DEF Null, NoRows
  <2>4. RowsFixed
    BY <2>2, JwksAssumption DEF Init, RowsFixed, NoRows
  <2>5. DocsShowRows /\ CallsCover /\ UnknownIsOld
    BY <2>1, <2>3 DEF Init, DocsShowRows, CallsCover, UnknownIsOld
  <2>6. ReadingsPast
    BY <2>1 DEF Init, ReadingsPast, Null
  <2>7. CacheCurrent /\ VerifierIsKey
    BY DEF Init, CacheCurrent, VerifierIsKey, Null, NoRows
  <2> QED
    BY <2>4, <2>5, <2>6, <2>7 DEF JInv
<1>2. TypeOK /\ TypeOK' /\ JInv /\ [Next]_vars => JInv'
  <2> SUFFICES ASSUME TypeOK, TypeOK', JInv, [Next]_vars PROVE JInv'
    OBVIOUS
  <2>0. /\ clock \in Nat /\ born \in [Kids -> Nat] /\ cache.at \in Nat
        /\ cache.doc.keys \in Table /\ pem \in Table
        /\ \A v \in Calls : call[v].now \in Nat /\ call[v].doc.keys \in Table
        /\ call = [v \in Calls |-> call[v]] /\ Ttl \in Nat
    BY JwksAssumption DEF TypeOK, Caches, CallState, Docs
  <2> USE <2>0 DEF JInv
  <2>1. ASSUME NEW v \in Calls, Begin(v) PROVE JInv'
    <3>1. RowsFixed' /\ CacheCurrent' /\ VerifierIsKey'
      BY <2>1 DEF Begin, RowsFixed, CacheCurrent, VerifierIsKey
    <3>2. PICK d, p : /\ call' = [call EXCEPT ![v] = [call[v] EXCEPT !.now = clock, !.doc = d, !.pc = p]]
                      /\ \/ Fresh /\ d = cache.doc /\ p = "resolve"
                         \/ d = call[v].doc /\ p = "fetch"
      BY <2>1 DEF Begin
    <3>3. /\ \A u \in Calls : u # v => call'[u] = call[u]
          /\ call'[v].now = clock /\ call'[v].doc = d /\ call'[v].pc = p
      BY <3>2 DEF TypeOK, CallState
    <3>4. UNCHANGED <<clock, pem, born, cache, ver, seed>>
      BY <2>1 DEF Begin
    <3>5. DocsShowRows'
      BY <3>2, <3>3, <3>4 DEF DocsShowRows
    <3>6. ReadingsPast'
      BY <3>2, <3>3, <3>4 DEF ReadingsPast
    <3>7. UnknownIsOld'
      BY <3>2, <3>3, <3>4 DEF UnknownIsOld
    <3>8. CallsCover'
      <4>1. ASSUME p = "resolve", d.whole, NEW k \in Kids, pem[k] # NoPem, d.keys[k] = NoPem
            PROVE  clock <= born[k] + Ttl
        BY <3>2, <4>1 DEF CacheCurrent, Fresh
      <4> QED
        BY <3>2, <3>3, <3>4, <4>1 DEF CallsCover, Covers
    <3> QED
      BY <3>1, <3>5, <3>6, <3>7, <3>8
  <2>2. ASSUME NEW v \in Calls, Serve(v) PROVE JInv'
    <3>1. PICK t \in {pem, [pem EXCEPT ![Admin] = AdminPem]}, fails \in BOOLEAN :
             /\ pem' = t
             /\ born' = BornAfter(t)
             /\ call' = [call EXCEPT ![v] = [@ EXCEPT !.pc = "body", !.doc = Answer(t, fails)]]
      BY <2>2 DEF Serve
    <3>2. EngineStep /\ pem'[Admin] \in {NoPem, AdminPem} /\ UNCHANGED <<clock, cache, ver, seed>>
      BY <2>2, <3>1, RowsOnlyAppear DEF Serve
    <3>3. /\ \A u \in Calls : u # v => call'[u] = call[u]
          /\ call'[v].pc = "body" /\ call'[v].now = call[v].now /\ call'[v].doc = Answer(t, fails)
      BY <3>1 DEF TypeOK, CallState
    <3>a. \/ call'[v].doc = [keys |-> NoRows, whole |-> FALSE]
          \/ call'[v].doc = [keys |-> pem', whole |-> TRUE]
      BY <3>1, <3>3 DEF Answer
    <3>4. ShowsRows(call[v].doc)'
      BY <3>a DEF NoRows
    <3>5. Covers(call[v].doc, call[v].now)'
      BY <3>a DEF Covers
    <3>6. RowsFixed' /\ CacheCurrent' /\ VerifierIsKey'
      BY <3>2, EngineKeeps DEF RowsFixed
    <3>7. DocsShowRows' /\ CallsCover'
      BY <3>2, <3>3, <3>4, <3>5, EngineKeeps DEF DocsShowRows, CallsCover
    <3>8. ReadingsPast' /\ UnknownIsOld'
      BY <3>2, <3>3, EngineKeeps DEF ReadingsPast, UnknownIsOld
    <3> QED
      BY <3>6, <3>7, <3>8
  <2>3. ASSUME NEW v \in Calls, Receive(v) PROVE JInv'
    <3>1. /\ \A u \in Calls : u # v => call'[u] = call[u]
          /\ call'[v] = [call[v] EXCEPT !.pc = "resolve"] /\ call[v].pc = "body"
          /\ cache' = [live |-> TRUE, at |-> call[v].now, doc |-> call[v].doc]
          /\ UNCHANGED <<clock, pem, born, ver, seed>>
      BY <2>3 DEF Receive, Stamp
    <3>2. /\ call'[v].pc = "resolve" /\ call'[v].now = call[v].now
          /\ call'[v].doc = call[v].doc
      BY <3>1 DEF TypeOK, CallState
    <3>3. Covers(call[v].doc, call[v].now)
      BY <3>1 DEF CallsCover
    <3>4. RowsFixed' /\ DocsShowRows' /\ ReadingsPast'
      <4>1. cache'.doc = call[v].doc /\ cache'.at = call[v].now
        BY <3>1
      <4>2. RowsFixed'
        BY <3>1 DEF RowsFixed
      <4>3. DocsShowRows'
        <5>2. ShowsRows(call[v].doc) /\ \A u \in Calls : call'[u].doc = call[u].doc
          BY <3>1, <3>2 DEF DocsShowRows
        <5>3. (\A u \in Calls : ShowsRows(call[u].doc))'
          <6> SUFFICES ASSUME NEW u \in Calls PROVE ShowsRows(call[u].doc)'
            OBVIOUS
          <6> QED
            BY <3>1, <5>2 DEF DocsShowRows
        <5>4. ShowsRows(cache.doc)'
          BY <3>1, <4>1, <5>2
        <5> QED
          BY <5>3, <5>4 DEF DocsShowRows
      <4>4. ReadingsPast'
        BY <3>1, <3>2, <4>1 DEF ReadingsPast
      <4> QED
        BY <4>2, <4>3, <4>4
    <3>5. CacheCurrent'
      BY <3>1, <3>3 DEF CacheCurrent, Covers
    <3>6. CallsCover'
      <4>1. ASSUME call[v].doc.whole, NEW k \in Kids, pem[k] # NoPem, call[v].doc.keys[k] = NoPem
            PROVE  call[v].now <= born[k] + Ttl
        BY <2>0, <3>3, <4>1 DEF Covers, Table
      <4>2. UNCHANGED <<pem, born>> /\ \A u \in Calls : u # v => call'[u] = call[u]
        BY <3>1
      <4> QED
        BY <3>2, <4>1, <4>2 DEF CallsCover, Covers
    <3>7. VerifierIsKey' /\ UnknownIsOld'
      BY <3>1, <3>2 DEF VerifierIsKey, UnknownIsOld
    <3> QED
      BY <3>4, <3>5, <3>6, <3>7
  <2>4. ASSUME NEW v \in Calls, FetchFails(v) PROVE JInv'
    <3>1. /\ \A u \in Calls : u # v => call'[u] = call[u]
          /\ call'[v].pc = "done" /\ call'[v].answer = "error" /\ call'[v].now = call[v].now
          /\ call'[v].doc = call[v].doc
          /\ UNCHANGED <<clock, pem, born, cache, ver, seed>>
      <4>1. call' = [call EXCEPT ![v] = [call[v] EXCEPT !.pc = "done", !.answer = "error"]]
        BY <2>4 DEF FetchFails
      <4> QED
        BY <2>4, <4>1 DEF FetchFails, TypeOK, CallState
    <3> QED
      BY <3>1 DEF RowsFixed, DocsShowRows, ReadingsPast, CallsCover, Covers, CacheCurrent,
                  VerifierIsKey, UnknownIsOld
  <2>5. ASSUME NEW v \in Calls, Resolve(v) PROVE JInv'
    <3>0. PICK a : /\ a = IF call[v].doc.keys[call[v].kid] = NoPem THEN "unknown" ELSE "verifier"
                   /\ call' = [call EXCEPT ![v] = [call[v] EXCEPT !.pc = "done", !.answer = a]]
      BY <2>5 DEF Resolve
    <3>1. /\ \A u \in Calls : u # v => call'[u] = call[u]
          /\ call'[v].pc = "done" /\ call'[v].now = call[v].now /\ call'[v].doc = call[v].doc
          /\ call'[v].kid = call[v].kid /\ call'[v].answer = a
          /\ call[v].pc = "resolve" /\ UNCHANGED <<clock, pem, born, cache, seed>>
      <4>1. call[v].pc = "resolve" /\ UNCHANGED <<clock, pem, born, cache, seed>>
        BY <2>5 DEF Resolve
      <4>2. call[v] \in CallState /\ \A u \in Calls : u # v => call'[u] = call[u]
        BY <3>0 DEF TypeOK
      <4>3. call'[v] = [call[v] EXCEPT !.pc = "done", !.answer = a]
        BY <3>0 DEF TypeOK
      <4> QED
        BY <4>1, <4>2, <4>3 DEF CallState
    <3>2. call[v].kid \in Kids /\ call[v].site \in Sites
      BY DEF TypeOK, CallState
    <3>3. RowsFixed' /\ DocsShowRows' /\ ReadingsPast' /\ CallsCover' /\ CacheCurrent'
      BY <3>1 DEF RowsFixed, DocsShowRows, ReadingsPast, CallsCover, Covers, CacheCurrent
    <3>4. UnknownIsOld'
      BY <3>0, <3>1, <3>2 DEF UnknownIsOld, CallsCover
    <3>5. VerifierIsKey'
      <4>1. CASE ver' = ver
        BY <3>1, <4>1 DEF VerifierIsKey
      <4>2. CASE /\ call[v].doc.keys[call[v].kid] # NoPem
                 /\ ver' = [ver EXCEPT ![call[v].site][call[v].kid] = call[v].doc.keys[call[v].kid]]
        <5>1. call[v].doc.keys[call[v].kid] = pem[call[v].kid]
          BY <3>2, <4>2 DEF DocsShowRows
        <5> QED
          BY <3>1, <3>2, <4>2, <5>1 DEF VerifierIsKey, TypeOK, Table
      <4> QED
        BY <2>5, <4>1, <4>2 DEF Resolve
    <3> QED
      BY <3>3, <3>4, <3>5
  <2>6. ASSUME NEW s \in Seeds, SendSeed(s) \/ SeedTimeout(s) PROVE JInv'
    <3>1. UNCHANGED <<clock, pem, born, cache, ver, call>> /\ \A q \in Seeds : seed'[q].kid = seed[q].kid
      BY <2>6 DEF SendSeed, SeedTimeout, TypeOK, SeedState
    <3> QED
      BY <3>1 DEF RowsFixed, DocsShowRows, ReadingsPast, CallsCover, Covers, CacheCurrent,
                  VerifierIsKey, UnknownIsOld
  <2>7. ASSUME NEW s \in Seeds, SeedReply(s) PROVE JInv'
    <3>1. UNCHANGED <<clock, pem, born, ver, call>> /\ \A q \in Seeds : seed'[q].kid = seed[q].kid
      BY <2>7 DEF SeedReply, TypeOK, SeedState
    <3>2. cache' = cache \/ cache' = Null
      BY <2>7 DEF SeedReply
    <3>3. RowsFixed' /\ CallsCover' /\ VerifierIsKey' /\ UnknownIsOld'
      BY <3>1 DEF RowsFixed, CallsCover, Covers, VerifierIsKey, UnknownIsOld
    <3>4. DocsShowRows' /\ ReadingsPast' /\ CacheCurrent'
      BY <3>1, <3>2 DEF DocsShowRows, ReadingsPast, CacheCurrent, Null, NoRows
    <3> QED
      BY <3>3, <3>4
  <2>8. ASSUME NEW s \in Seeds, EngineSeeds(s) PROVE JInv'
    <3>1. PICK t \in {pem, Store(pem, seed[s].kid, seed[s].pem)} : pem' = t /\ born' = BornAfter(t)
      BY <2>8 DEF EngineSeeds
    <3>2. EngineStep /\ pem'[Admin] \in {NoPem, AdminPem} /\ UNCHANGED <<clock, cache, ver, call>>
      BY <2>8, <3>1, RowsOnlyAppear DEF EngineSeeds
    <3>3. \A q \in Seeds : seed'[q].kid = seed[q].kid
      BY <2>8 DEF EngineSeeds, TypeOK, SeedState
    <3>4. RowsFixed' /\ CacheCurrent' /\ VerifierIsKey'
      BY <3>2, <3>3, EngineKeeps DEF RowsFixed
    <3>5. DocsShowRows' /\ CallsCover'
      BY <3>2, EngineKeeps DEF DocsShowRows, CallsCover
    <3>6. ReadingsPast' /\ UnknownIsOld'
      BY <3>2, EngineKeeps DEF ReadingsPast, UnknownIsOld
    <3> QED
      BY <3>4, <3>5, <3>6
  <2>9. CASE Restart
    <3>1. UNCHANGED <<clock, pem, born>> /\ cache' = Null /\ \A q \in Seeds : seed'[q].kid = seed[q].kid
      BY <2>9 DEF Restart, TypeOK, SeedState
    <3>2. \A v \in Calls : /\ call'[v].doc = call[v].doc /\ call'[v].now = call[v].now
                           /\ call'[v].kid = call[v].kid
                           /\ \/ call'[v] = call[v] /\ call[v].pc \in {"idle", "done"}
                              \/ call'[v].pc = "done" /\ call'[v].answer = "error"
      BY <2>9 DEF Restart, TypeOK, CallState
    <3>3. RowsFixed' /\ CacheCurrent' /\ DocsShowRows' /\ ReadingsPast'
      BY <3>1, <3>2 DEF RowsFixed, CacheCurrent, DocsShowRows, ReadingsPast, Null, NoRows
    <3>4. CallsCover' /\ UnknownIsOld'
      BY <3>1, <3>2 DEF CallsCover, UnknownIsOld
    <3>5. VerifierIsKey'
      BY <2>9 DEF Restart, VerifierIsKey, NoRows
    <3> QED
      BY <3>3, <3>4, <3>5
  <2>10. CASE Tick
    BY <2>10 DEF Tick, RowsFixed, DocsShowRows, ReadingsPast, CallsCover, Covers, CacheCurrent,
                 VerifierIsKey, UnknownIsOld
  <2>11. CASE UNCHANGED vars
    BY <2>11 DEF vars, RowsFixed, DocsShowRows, ReadingsPast, CallsCover, Covers, CacheCurrent,
                 VerifierIsKey, UnknownIsOld
  <2> QED
    BY <2>1, <2>2, <2>3, <2>4, <2>5, <2>6, <2>7, <2>8, <2>9, <2>10, <2>11 DEF Next
<1> QED
  BY <1>1, <1>2, JwksTypeCorrect, PTL DEF Spec

\* The cache has every key that was committed before its stamp, whichever fetches
\* overlapped and whichever invalidations they raced.
THEOREM CacheIsCurrent == Spec => []CacheCurrent
  BY JwksInvariant, PTL DEF JInv

\* A verifier, kept forever, is the one of the key in the table.
THEOREM VerifierStaysKey == Spec => []VerifierIsKey
  BY JwksInvariant, PTL DEF JInv

\* "unknown" is never answered to a key older than the cache's time to live.
THEOREM UnknownIsRecent == Spec => []UnknownIsOld
  BY JwksInvariant, PTL DEF JInv
=============================================================================
