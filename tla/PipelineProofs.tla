--------------------------- MODULE PipelineProofs ---------------------------
(***************************************************************************)
(* Proofs about Pipeline, for any sets of workspaces, requests and         *)
(* manifests.                                                              *)
(***************************************************************************)
EXTENDS Pipeline, TLAPS

\* Pipeline's variables stay typed: every statement writes values its column
\* accepts, the trigger's QUARANTINED included.
THEOREM TypeCorrect == Spec => []TypeOK
<1>1. Init => TypeOK
  <2> SUFFICES ASSUME Init PROVE TypeOK
    OBVIOUS
  <2>1. NoJob \in Bodies
    BY PipelineAssumption DEF NoJob, Bodies, Jobs, Targets
  <2>2. FreshRow \in Rows
    BY DEF FreshRow, Rows, States
  <2> QED
    BY <2>1, <2>2 DEF Init, TypeOK
<1>2. TypeOK /\ [Next]_vars => TypeOK'
  <2> SUFFICES ASSUME TypeOK, [Next]_vars PROVE TypeOK'
    OBVIOUS
  <2> USE DEF TypeOK, Live
  <2>1. ASSUME NEW w \in Workspaces, Create(w) PROVE TypeOK'
    BY <2>1 DEF Create, Rows
  <2>2. ASSUME NEW w \in Workspaces, Delete(w) PROVE TypeOK'
    <3>1. row' \in [Workspaces -> Rows]
      BY <2>2 DEF Delete, Rows
    <3>2. <<>> \in Seq(LogRows)
      OBVIOUS
    <3>3. log' \in [Workspaces -> Seq(LogRows)]
      BY <2>2, <3>2 DEF Delete
    <3> QED
      BY <2>2, <3>1, <3>3 DEF Delete
  <2>3. ASSUME NEW w \in Workspaces, SetWebhook(w) PROVE TypeOK'
    BY <2>3 DEF SetWebhook, Rows
  <2>4. ASSUME NEW r \in Requests, Start(r) PROVE TypeOK'
    BY <2>4 DEF Start
  <2>5. ASSUME NEW r \in Requests, Statement(r) PROVE TypeOK'
    <3> job[r] \in Bodies /\ job[r].ws \in Workspaces /\ job[r].ref \in Manifests \cup {NoManifest}
        /\ job[r].proof \in Manifests \cup {NoProof} /\ Targets[job[r].kind] \in States
      BY DEF Bodies, Jobs, Targets, States
    <3>1. CASE SetManifest(r)
      BY <3>1 DEF SetManifest, Rows
    <3>2. CASE Select(r)
      BY <3>2 DEF Select, Finish
    <3>3. CASE Insert(r)
      <4> DEFINE new == [to |-> Targets[job[r].kind], proof |-> job[r].proof, by |-> r]
      <4>1. new \in LogRows
        BY DEF LogRows
      <4>2. Append(log[job[r].ws], new) \in Seq(LogRows)
        BY <4>1
      <4> QED
        BY <3>3, <4>2 DEF Insert
    <3>4. CASE Update(r)
      <4> DEFINE w == job[r].ws
                 next == Outcome(w, Targets[job[r].kind])
      <4>1. next \in States
        BY DEF Outcome, States
      <4>2. row[w] \in Rows
        OBVIOUS
      <4>3. row' \in [Workspaces -> Rows]
        BY <3>4, <4>1, <4>2 DEF Update, Rows
      <4>4. signed' \in [Workspaces -> Manifests \cup {NoManifest}]
        BY <3>4, <4>2 DEF Update, Rows
      <4> QED
        BY <3>4, <4>3, <4>4 DEF Update
    <3>5. CASE Reread(r)
      BY <3>5 DEF Reread, Finish, Rows, States
    <3>6. CASE Fail(r)
      BY <3>6 DEF Fail, Finish
    <3> QED
      BY <2>5, <3>1, <3>2, <3>3, <3>4, <3>5, <3>6 DEF Statement
  <2>6. CASE UNCHANGED vars
    BY <2>6 DEF vars
  <2> QED
    BY <2>1, <2>2, <2>3, <2>4, <2>5, <2>6 DEF Next
<1> QED
  BY <1>1, <1>2, PTL DEF Spec

-----------------------------------------------------------------------------
(* What the trigger can do to a row: the facts about Allowed that the       *)
(* invariants below rest on.                                                *)

\* A job is one of the bodies, so it has a workspace, and only a build has a ref.
LEMMA JobTyped ==
  ASSUME TypeOK, NEW r \in Requests
  PROVE  /\ job[r].ws \in Workspaces
         /\ job[r].kind \in {"build", "sign", "review", "reset"}
         /\ Targets[job[r].kind] \in States
         /\ job[r].ref \in Manifests => job[r].kind = "build"
         /\ job[r].ref \in Manifests \cup {NoManifest}
         /\ job[r].proof \in Manifests \cup {NoProof}
  BY PipelineAssumption DEF TypeOK, Bodies, Jobs, Targets, States

\* Where an update can lead: its target, under the trigger's conditions, or
\* QUARANTINED.
LEMMA OutcomeCases ==
  ASSUME NEW w \in Workspaces, NEW t \in States
  PROVE  LET next == Outcome(w, t) IN
         \/ next = "QUARANTINED"
         \/ next = t /\ t = row[w].state
         \/ next = "DRAFT" /\ row[w].state = "QUARANTINED"
         \/ next = "BUILD" /\ t = "BUILD" /\ row[w].state = "DRAFT" /\ row[w].manifest # NoManifest
         \/ next = "SIGNED" /\ t = "SIGNED" /\ row[w].state = "BUILD" /\ Proven(w, row[w].manifest)
         \/ next = "REVIEW" /\ t = "REVIEW" /\ row[w].state = "SIGNED" /\ row[w].hook
  BY DEF Outcome, Allowed

\* An update touches one row: its state, and its manifest if it is a reset.
LEMMA UpdateEffect ==
  ASSUME TypeOK, NEW r \in Requests, Update(r), NEW w \in Workspaces
  PROVE  \/ row'[w] = row[w] /\ signed'[w] = signed[w] /\ ~(Live(w) /\ w = job[r].ws)
         \/ /\ w = job[r].ws /\ Live(w)
            /\ row'[w].status = "live" /\ row'[w].hook = row[w].hook
            /\ row'[w].state = Outcome(w, Targets[job[r].kind])
            /\ row'[w].manifest = IF job[r].kind = "reset" THEN NoManifest ELSE row[w].manifest
            /\ signed'[w] = IF row[w].state = "BUILD" /\ row'[w].state = "SIGNED"
                              THEN row[w].manifest ELSE signed[w]
<1>1. row[w] \in Rows /\ job[r].ws \in Workspaces
  BY JobTyped DEF TypeOK
<1>2. CASE Live(w) /\ w = job[r].ws
  BY <1>1, <1>2 DEF Update, TypeOK, Rows, Live
<1>3. CASE ~(Live(w) /\ w = job[r].ws)
  BY <1>1, <1>3 DEF Update, TypeOK
<1> QED
  BY <1>2, <1>3

-----------------------------------------------------------------------------
\* Only a build that names a manifest runs the statement that writes it.
RefNamed == \A r \in Requests : pc[r] = "manifest" => job[r].ref \in Manifests

\* The first UPDATE of a build always has a manifest to write.
THEOREM RefIsNamed == Spec => []RefNamed
<1>1. Init => RefNamed
  BY DEF Init, RefNamed
<1>2. TypeOK /\ RefNamed /\ [Next]_vars => RefNamed'
  <2> SUFFICES ASSUME TypeOK, RefNamed, [Next]_vars PROVE RefNamed'
    OBVIOUS
  <2> USE DEF RefNamed, TypeOK
  <2>1. ASSUME NEW w \in Workspaces, Create(w) \/ Delete(w) \/ SetWebhook(w) PROVE RefNamed'
    BY <2>1 DEF Create, Delete, SetWebhook
  <2>2. ASSUME NEW r \in Requests, Start(r) PROVE RefNamed'
    BY <2>2, \A j \in Bodies : j.ref \in Manifests \cup {NoManifest} DEF Start, Bodies, Jobs
  <2>3. ASSUME NEW r \in Requests, Statement(r) PROVE RefNamed'
    BY <2>3 DEF Statement, SetManifest, Select, Insert, Update, Reread, Fail, Finish
  <2>4. CASE UNCHANGED vars
    BY <2>4 DEF vars
  <2> QED
    BY <2>1, <2>2, <2>3, <2>4 DEF Next
<1> QED
  BY <1>1, <1>2, TypeCorrect, PTL DEF Spec

\* What every step but an Update leaves of a row and of signed: Create, Delete
\* and SetWebhook keep state and manifest, SetManifest keeps the state and
\* writes its ref, and nothing else touches them.
LEMMA OtherSteps ==
  ASSUME TypeOK, RefNamed, [Next]_vars, \A r \in Requests : ~Update(r), NEW w \in Workspaces
  PROVE  /\ row'[w].state = row[w].state
         /\ row[w].hook => row'[w].hook
         /\ signed' = signed
         /\ row'[w].status = "live" =>
               \/ row[w].status = "live"
               \/ Create(w)
         /\ \/ row'[w].manifest = row[w].manifest
            \/ \E r \in Requests : /\ SetManifest(r) /\ Live(w)
                                    /\ job[r].ws = w /\ job[r].ref \in Manifests
                                    /\ row'[w].manifest = job[r].ref
<1> DEFINE Goal == /\ row'[w].state = row[w].state
                   /\ row[w].hook => row'[w].hook
                   /\ signed' = signed
                   /\ row'[w].status = "live" => row[w].status = "live" \/ Create(w)
                   /\ \/ row'[w].manifest = row[w].manifest
                      \/ \E r \in Requests : /\ SetManifest(r) /\ Live(w)
                                              /\ job[r].ws = w /\ job[r].ref \in Manifests
                                              /\ row'[w].manifest = job[r].ref
<1> row \in [Workspaces -> Rows]
  BY DEF TypeOK
<1>1. ASSUME NEW v \in Workspaces, Create(v) PROVE Goal
  BY <1>1 DEF Create, Rows
<1>2. ASSUME NEW v \in Workspaces, Delete(v) PROVE Goal
  BY <1>2 DEF Delete, Rows
<1>3. ASSUME NEW v \in Workspaces, SetWebhook(v) PROVE Goal
  BY <1>3 DEF SetWebhook, Rows
<1>4. ASSUME NEW r \in Requests, Start(r) PROVE Goal
  BY <1>4 DEF Start
<1>5. ASSUME NEW r \in Requests, SetManifest(r) PROVE Goal
  <2>1. job[r].ref \in Manifests /\ job[r].ws \in Workspaces
    BY <1>5, JobTyped DEF SetManifest, RefNamed
  <2>2. CASE row' = row
    BY <1>5, <2>2 DEF SetManifest
  <2>3. CASE Live(job[r].ws) /\ row' = [row EXCEPT ![job[r].ws].manifest = job[r].ref]
    <3>1. CASE w = job[r].ws
      BY <1>5, <2>1, <2>3, <3>1 DEF SetManifest, Rows, Live
    <3>2. CASE w # job[r].ws
      BY <1>5, <2>1, <2>3, <3>2 DEF SetManifest
    <3> QED
      BY <3>1, <3>2
  <2> QED
    BY <1>5, <2>2, <2>3 DEF SetManifest
<1>6. ASSUME NEW r \in Requests, Select(r) \/ Insert(r) \/ Reread(r) \/ Fail(r) PROVE Goal
  BY <1>6 DEF Select, Insert, Reread, Fail
<1>7. CASE UNCHANGED vars
  BY <1>7 DEF vars
<1> QED
  BY <1>1, <1>2, <1>3, <1>4, <1>5, <1>6, <1>7 DEF Next, Statement

-----------------------------------------------------------------------------
\* A workspace outside DRAFT and QUARANTINED has a manifest: the trigger lets a
\* DRAFT without one go nowhere, and a reset clears it only on the way to DRAFT
\* or QUARANTINED.
THEOREM ManifestIsKept == Spec => []ManifestKept
<1>1. Init => ManifestKept
  BY DEF Init, ManifestKept, FreshRow
<1>2. TypeOK /\ RefNamed /\ ManifestKept /\ [Next]_vars => ManifestKept'
  <2> SUFFICES ASSUME TypeOK, RefNamed, ManifestKept, [Next]_vars, NEW w \in Workspaces,
                      row'[w].manifest = NoManifest
               PROVE  row'[w].state \in {"DRAFT", "QUARANTINED"}
    BY DEF ManifestKept
  <2>0. row[w].manifest = NoManifest => row[w].state \in {"DRAFT", "QUARANTINED"}
    BY DEF ManifestKept
  <2>1. CASE \A r \in Requests : ~Update(r)
    BY <2>0, <2>1, OtherSteps, PipelineAssumption
  <2>2. ASSUME NEW r \in Requests, Update(r)
        PROVE  row'[w].state \in {"DRAFT", "QUARANTINED"}
    <3>1. job[r].kind = "reset" => Targets[job[r].kind] = "DRAFT"
      BY DEF Targets
    <3> QED
      BY <2>0, <2>2, <3>1, JobTyped, UpdateEffect, OutcomeCases
  <2> QED
    BY <2>1, <2>2
<1> QED
  BY <1>1, <1>2, TypeCorrect, RefIsNamed, PTL DEF Spec

\* No interleaving brings a workspace without a webhook under review: the
\* trigger reads the column in the statement that moves the state, and no route
\* clears it.
THEOREM ReviewIsHooked == Spec => []ReviewHasWebhook
<1>1. Init => ReviewHasWebhook
  BY DEF Init, ReviewHasWebhook, FreshRow
<1>2. TypeOK /\ RefNamed /\ ReviewHasWebhook /\ [Next]_vars => ReviewHasWebhook'
  <2> SUFFICES ASSUME TypeOK, RefNamed, ReviewHasWebhook, [Next]_vars, NEW w \in Workspaces,
                      row'[w].state = "REVIEW"
               PROVE  row'[w].hook
    BY DEF ReviewHasWebhook
  <2>0. row[w].state = "REVIEW" => row[w].hook
    BY DEF ReviewHasWebhook
  <2>1. CASE \A r \in Requests : ~Update(r)
    BY <2>0, <2>1, OtherSteps
  <2>2. ASSUME NEW r \in Requests, Update(r) PROVE row'[w].hook
    BY <2>0, <2>2, JobTyped, UpdateEffect, OutcomeCases
  <2> QED
    BY <2>1, <2>2
<1> QED
  BY <1>1, <1>2, TypeCorrect, RefIsNamed, PTL DEF Spec

-----------------------------------------------------------------------------
(* Evidence: what the log of a live workspace says about its state.        *)

\* The log of a workspace that is still live only grows.
LEMMA LogGrows ==
  ASSUME TypeOK, [Next]_vars, NEW w \in Workspaces, row[w].status = "live", row'[w].status = "live"
  PROVE  /\ DOMAIN log[w] \subseteq DOMAIN log'[w]
         /\ \A i \in DOMAIN log[w] : log'[w][i] = log[w][i]
<1> DEFINE Goal == /\ DOMAIN log[w] \subseteq DOMAIN log'[w]
                   /\ \A i \in DOMAIN log[w] : log'[w][i] = log[w][i]
<1> row \in [Workspaces -> Rows] /\ log \in [Workspaces -> Seq(LogRows)] /\ log[w] \in Seq(LogRows)
  BY DEF TypeOK
<1>1. ASSUME NEW r \in Requests, Insert(r) PROVE Goal
  <2> DEFINE new == [to |-> Targets[job[r].kind], proof |-> job[r].proof, by |-> r]
  <2>1. log'[w] = log[w] \/ log'[w] = Append(log[w], new)
    BY <1>1, JobTyped DEF Insert
  <2> HIDE DEF new
  <2>2. CASE log'[w] = log[w]
    BY <2>2
  <2>3. CASE log'[w] = Append(log[w], new)
    BY <2>3
  <2> QED
    BY <2>1, <2>2, <2>3
<1>2. ASSUME NEW v \in Workspaces, Delete(v) PROVE Goal
  BY <1>2 DEF Delete, Rows
<1>3. CASE log' = log
  BY <1>3
<1>4. ASSUME NEW v \in Workspaces, Create(v) \/ SetWebhook(v) PROVE log' = log
  BY <1>4 DEF Create, SetWebhook
<1>5. ASSUME NEW r \in Requests, Start(r) \/ SetManifest(r) \/ Select(r) \/ Update(r) \/ Reread(r) \/ Fail(r)
      PROVE  log' = log
  BY <1>5 DEF Start, SetManifest, Select, Update, Reread, Fail
<1> QED
  BY <1>1, <1>2, <1>3, <1>4, <1>5 DEF Next, Statement, vars

\* A deleted workspace stays deleted, a live one was live or has just been
\* created.
LEMMA StatusMoves ==
  ASSUME TypeOK, RefNamed, [Next]_vars, NEW w \in Workspaces, row'[w].status = "live"
  PROVE  row[w].status = "live" \/ Create(w)
<1>1. CASE \A r \in Requests : ~Update(r)
  BY <1>1, OtherSteps
<1>2. ASSUME NEW r \in Requests, Update(r) PROVE row[w].status = "live"
  BY <1>2, UpdateEffect DEF Live
<1> QED
  BY <1>1, <1>2

\* Rows not yet created look like fresh ones.
FreeIsFresh == \A w \in Workspaces : row[w].status = "free" => row[w].state = "DRAFT"

\* An id the sequence has not handed out has the state INSERT will give it.
THEOREM FreeStaysFresh == Spec => []FreeIsFresh
<1>1. Init => FreeIsFresh
  BY DEF Init, FreeIsFresh, FreshRow
<1>2. TypeOK /\ RefNamed /\ FreeIsFresh /\ [Next]_vars => FreeIsFresh'
  <2> SUFFICES ASSUME TypeOK, RefNamed, FreeIsFresh, [Next]_vars, NEW w \in Workspaces,
                      row'[w].status = "free"
               PROVE  row'[w].state = "DRAFT"
    BY DEF FreeIsFresh
  <2>1. row[w].status = "free" => row[w].state = "DRAFT"
    BY DEF FreeIsFresh
  <2>2. row \in [Workspaces -> Rows]
    BY DEF TypeOK
  <2>3. ASSUME NEW v \in Workspaces, Create(v) PROVE row[w].status = "free"
    BY <2>2, <2>3 DEF Create, Rows
  <2>4. ASSUME NEW v \in Workspaces, Delete(v) PROVE row[w].status = "free"
    BY <2>2, <2>4 DEF Delete, Rows
  <2>5. ASSUME NEW v \in Workspaces, SetWebhook(v) PROVE row[w].status = "free"
    BY <2>2, <2>5 DEF SetWebhook, Rows
  <2>6. ASSUME NEW r \in Requests, SetManifest(r) PROVE row[w].status = "free"
    BY <2>2, <2>6 DEF SetManifest, Rows, Live
  <2>7. ASSUME NEW r \in Requests, Update(r) PROVE row'[w] = row[w]
    BY <2>7, UpdateEffect
  <2>8. ASSUME NEW r \in Requests, Start(r) \/ Select(r) \/ Insert(r) \/ Reread(r) \/ Fail(r)
        PROVE  row' = row
    BY <2>8 DEF Start, Select, Insert, Reread, Fail
  <2>9. row[w].status = "free"
    BY <2>3, <2>4, <2>5, <2>6, <2>7, <2>8 DEF Next, Statement, vars
  <2>10. CASE \A r \in Requests : ~Update(r)
    BY <2>1, <2>9, <2>10, OtherSteps
  <2> QED
    BY <2>1, <2>7, <2>9, <2>10
<1> QED
  BY <1>1, <1>2, TypeCorrect, RefIsNamed, PTL DEF Spec

\* The trigger signs a workspace only over a blake3 nonce equal to its manifest,
\* and that row stays in the log as long as the workspace does.
THEOREM EvidenceStays == Spec => []SignedHasEvidence
<1>1. Init => SignedHasEvidence
  BY DEF Init, SignedHasEvidence, FreshRow
<1>2. TypeOK /\ RefNamed /\ FreeIsFresh /\ ManifestKept /\ SignedHasEvidence /\ [Next]_vars
        => SignedHasEvidence'
  <2> SUFFICES ASSUME TypeOK, RefNamed, FreeIsFresh, ManifestKept, SignedHasEvidence, [Next]_vars,
                      NEW w \in Workspaces,
                      row'[w].status = "live", row'[w].state \in {"SIGNED", "REVIEW"}
               PROVE  \E i \in DOMAIN log'[w] : /\ log'[w][i].to = "SIGNED"
                                                /\ log'[w][i].proof = signed'[w]
                                                /\ signed'[w] \in Manifests
    BY DEF SignedHasEvidence, SignRows, Live
  <2> DEFINE Evidence(m) == m \in Manifests /\ \E i \in DOMAIN log[w] : /\ log[w][i].to = "SIGNED"
                                                                      /\ log[w][i].proof = m
  <2>1. row[w].status = "live" /\ row[w].state \in {"SIGNED", "REVIEW"} => Evidence(signed[w])
    BY DEF SignedHasEvidence, SignRows, Live
  <2>2. row[w].status = "live" /\ Evidence(signed'[w])
    <3>1. CASE \A r \in Requests : ~Update(r)
      <4>1. ~Create(w)
        BY <3>1, OtherSteps DEF Create, FreeIsFresh
      <4> QED
        BY <2>1, <3>1, <4>1, OtherSteps
    <3>2. ASSUME NEW r \in Requests, Update(r) PROVE row[w].status = "live" /\ Evidence(signed'[w])
      <4>1. row[w].status = "live"
        BY <3>2, UpdateEffect DEF Live
      <4>2. CASE row[w].state = "BUILD" /\ row'[w].state = "SIGNED"
        <5>1. signed'[w] = row[w].manifest /\ Proven(w, row[w].manifest)
          BY <3>2, <4>2, JobTyped, UpdateEffect, OutcomeCases
        <5>2. row[w].manifest \in Manifests
          BY <4>2 DEF ManifestKept, TypeOK, Rows
        <5> QED
          BY <4>1, <5>1, <5>2 DEF Proven, SignRows
      <4>3. CASE ~(row[w].state = "BUILD" /\ row'[w].state = "SIGNED")
        <5>1. signed'[w] = signed[w] /\ row[w].state \in {"SIGNED", "REVIEW"}
          BY <3>2, <4>3, JobTyped, UpdateEffect, OutcomeCases
        <5> QED
          BY <2>1, <4>1, <5>1
      <4> QED
        BY <4>2, <4>3
    <3> QED
      BY <3>1, <3>2
  <2> QED
    BY <2>2, LogGrows
<1> QED
  BY <1>1, <1>2, TypeCorrect, RefIsNamed, FreeStaysFresh, ManifestIsKept, PTL DEF Spec

\* A request that found its workspace does not forget that it existed.
KnownWorkspace ==
    \A r \in Requests : pc[r] \in {"insert", "update"} => row[job[r].ws].status # "free"

\* The ids in use by a handler are never handed out a second time.
THEOREM WorkspaceIsKnown == Spec => []KnownWorkspace
<1>1. Init => KnownWorkspace
  BY DEF Init, KnownWorkspace
<1>2. TypeOK /\ KnownWorkspace /\ [Next]_vars => KnownWorkspace'
  <2> SUFFICES ASSUME TypeOK, KnownWorkspace, [Next]_vars PROVE KnownWorkspace'
    OBVIOUS
  <2>0. /\ row \in [Workspaces -> Rows] /\ pc = [r \in Requests |-> pc[r]]
        /\ job \in [Requests -> Bodies] /\ \A r \in Requests : job[r].ws \in Workspaces
    BY JobTyped DEF TypeOK
  <2>1. ASSUME NEW w \in Workspaces, Create(w) PROVE KnownWorkspace'
    BY <2>0, <2>1 DEF Create, KnownWorkspace, Rows
  <2>2. ASSUME NEW w \in Workspaces, Delete(w) PROVE KnownWorkspace'
    BY <2>0, <2>2 DEF Delete, KnownWorkspace, Rows
  <2>3. ASSUME NEW w \in Workspaces, SetWebhook(w) PROVE KnownWorkspace'
    <3>1. \A v \in Workspaces : row'[v].status = row[v].status
      BY <2>0, <2>3 DEF SetWebhook, Rows
    <3> QED
      BY <2>0, <2>3, <3>1 DEF SetWebhook, KnownWorkspace
  <2>4. ASSUME NEW r \in Requests, Start(r) PROVE KnownWorkspace'
    BY <2>0, <2>4 DEF Start, KnownWorkspace
  <2>5. ASSUME NEW r \in Requests, SetManifest(r) PROVE KnownWorkspace'
    <3>1. \A v \in Workspaces : row'[v].status = row[v].status
      BY <2>0, <2>5 DEF SetManifest, Rows
    <3> QED
      BY <2>0, <2>5, <3>1 DEF SetManifest, KnownWorkspace
  <2>6. ASSUME NEW r \in Requests, Select(r) \/ Insert(r) \/ Reread(r) \/ Fail(r) PROVE KnownWorkspace'
    BY <2>0, <2>6 DEF Select, Insert, Reread, Fail, Finish, KnownWorkspace, Live
  <2>7. ASSUME NEW r \in Requests, Update(r) PROVE KnownWorkspace'
    <3>1. \A w \in Workspaces : row'[w].status = row[w].status
      BY <2>7, UpdateEffect DEF Live
    <3> QED
      BY <2>0, <2>7, <3>1 DEF Update, KnownWorkspace
  <2>8. CASE UNCHANGED vars
    BY <2>8 DEF vars, KnownWorkspace
  <2> QED
    BY <2>1, <2>2, <2>3, <2>4, <2>5, <2>6, <2>7, <2>8 DEF Next, Statement
<1> QED
  BY <1>1, <1>2, TypeCorrect, PTL DEF Spec

\* The log runs ahead of the state: INSERT comes before UPDATE in every handler,
\* and the trigger lets a workspace into BUILD only on behalf of a build.
THEOREM RowsComeFirst == Spec => []RowsPrecedeMoves
<1> DEFINE Written(r) == \E i \in DOMAIN log[job[r].ws] :
                            /\ log[job[r].ws][i].by = r
                            /\ log[job[r].ws][i].to = Targets[job[r].kind]
           Built(w) == \E i \in DOMAIN log[w] : log[w][i].to = "BUILD"
<1>1. Init => RowsPrecedeMoves
  BY DEF Init, RowsPrecedeMoves, FreshRow
<1>2. TypeOK /\ RefNamed /\ FreeIsFresh /\ KnownWorkspace /\ RowsPrecedeMoves /\ [Next]_vars
        => RowsPrecedeMoves'
  <2> SUFFICES ASSUME TypeOK, RefNamed, FreeIsFresh, KnownWorkspace, RowsPrecedeMoves, [Next]_vars
               PROVE  RowsPrecedeMoves'
    OBVIOUS
  <2>1. ASSUME NEW r \in Requests, pc'[r] = "update", row'[job'[r].ws].status = "live"
        PROVE  Written(r)'
    <3>1. CASE pc[r] = "update"
      <4>1. job'[r] = job[r]
        BY <3>1 DEF Next, Statement, Create, Delete, SetWebhook, Start, SetManifest, Select, Insert,
                    Update, Reread, Fail, vars, TypeOK
      <4>2. row[job[r].ws].status = "live"
        BY <2>1, <3>1, <4>1, JobTyped, StatusMoves DEF KnownWorkspace, Create
      <4> QED
        BY <2>1, <3>1, <4>1, <4>2, JobTyped, LogGrows DEF RowsPrecedeMoves, Live
    <3>2. CASE pc[r] # "update"
      <4>1. Insert(r)
        BY <2>1, <3>2 DEF Next, Statement, Create, Delete, SetWebhook, Start, SetManifest, Select, Insert,
                    Update, Reread, Fail, Finish, vars, TypeOK
      <4> DEFINE w == job[r].ws
                 new == [to |-> Targets[job[r].kind], proof |-> job[r].proof, by |-> r]
      <4>2. log'[w] = Append(log[w], new) /\ job'[r] = job[r] /\ log[w] \in Seq(LogRows)
        BY <4>1, JobTyped DEF Insert, TypeOK
      <4>3. Len(log'[w]) \in DOMAIN log'[w] /\ log'[w][Len(log'[w])] = new
        BY <4>2
      <4> QED
        BY <4>2, <4>3
    <3> QED
      BY <3>1, <3>2
  <2>2. ASSUME NEW w \in Workspaces, row'[w].status = "live", row'[w].state \in {"BUILD", "SIGNED", "REVIEW"}
        PROVE  Built(w)'
    <3>1. row[w].status = "live" /\ Built(w)
      <4>1. CASE \A r \in Requests : ~Update(r)
        BY <2>2, <4>1, OtherSteps DEF RowsPrecedeMoves, Live, Create, FreeIsFresh
      <4>2. ASSUME NEW r \in Requests, Update(r) PROVE row[w].status = "live" /\ Built(w)
        <5>1. row[w].status = "live"
          BY <2>2, <4>2, UpdateEffect DEF Live
        <5>2. CASE row[w].state \in {"BUILD", "SIGNED", "REVIEW"}
          BY <5>1, <5>2 DEF RowsPrecedeMoves, Live
        <5>3. CASE row[w].state \notin {"BUILD", "SIGNED", "REVIEW"}
          <6>1. w = job[r].ws /\ Targets[job[r].kind] = "BUILD"
            BY <2>2, <4>2, <5>3, JobTyped, UpdateEffect, OutcomeCases
          <6>2. pc[r] = "update"
            BY <4>2 DEF Update
          <6> QED
            BY <5>1, <6>1, <6>2 DEF RowsPrecedeMoves, Live
        <5> QED
          BY <5>1, <5>2, <5>3
      <4> QED
        BY <4>1, <4>2
    <3> QED
      BY <2>2, <3>1, LogGrows
  <2> QED
    BY <2>1, <2>2 DEF RowsPrecedeMoves, Live
<1> QED
  BY <1>1, <1>2, TypeCorrect, RefIsNamed, FreeStaysFresh, WorkspaceIsKnown, PTL DEF Spec

-----------------------------------------------------------------------------
(* The manifest a signature covers.                                        *)

\* A build that replaced the manifest answers for it until its own Update.
LEMMA OverwritingStays ==
  ASSUME TypeOK, [Next]_vars, NEW w \in Workspaces, Live(w), row'[w].manifest = row[w].manifest,
         NEW r \in Requests, Overwriting(r, w), ~Update(r)
  PROVE  Overwriting(r, w)'
<1> DEFINE Running == \/ pc'[r] \in {"select", "insert", "update"}
                      \/ pc'[r] = "done" /\ reply'[r] = "500"
           Goal == job'[r] = job[r] /\ Running
<1>0. /\ pc = [q \in Requests |-> pc[q]] /\ reply = [q \in Requests |-> reply[q]]
      /\ job = [q \in Requests |-> job[q]] /\ job[r].ws = w
  BY DEF TypeOK, Overwriting
<1>1. \/ pc[r] \in {"select", "insert", "update"}
      \/ pc[r] = "done" /\ reply[r] = "500"
  BY DEF Overwriting
<1>2. ASSUME NEW v \in Workspaces, Create(v) \/ Delete(v) \/ SetWebhook(v) PROVE Goal
  BY <1>1, <1>2 DEF Create, Delete, SetWebhook
<1>3. ASSUME NEW q \in Requests, Start(q) PROVE Goal
  <2>1. q # r
    BY <1>1, <1>3 DEF Start
  <2>2. PICK j \in Bodies : job' = [job EXCEPT ![q] = j]
    BY <1>3 DEF Start
  <2>3. job'[r] = job[r]
    BY <1>0, <2>1, <2>2
  <2>4. pc'[r] = pc[r]
    BY <1>0, <1>3, <2>1 DEF Start
  <2> QED
    BY <1>1, <1>3, <2>3, <2>4 DEF Start
<1>4. ASSUME NEW q \in Requests, SetManifest(q) \/ Insert(q) PROVE Goal
  BY <1>0, <1>1, <1>4 DEF SetManifest, Insert
<1>4a. ASSUME NEW q \in Requests, Fail(q) PROVE Goal
  <2>1. CASE q = r
    BY <1>0, <1>1, <1>4a, <2>1 DEF Fail, Finish
  <2>2. CASE q # r
    BY <1>0, <1>1, <1>4a, <2>2 DEF Fail, Finish
  <2> QED
    BY <2>1, <2>2
<1>5. ASSUME NEW q \in Requests, Select(q) PROVE Goal
  <2>1. CASE q = r
    BY <1>0, <1>1, <1>5, <2>1 DEF Select
  <2>2. CASE q # r
    BY <1>0, <1>1, <1>5, <2>2 DEF Select, Finish
  <2> QED
    BY <2>1, <2>2
<1>6. ASSUME NEW q \in Requests, Update(q) \/ Reread(q) PROVE Goal
  <2>1. q # r
    BY <1>1, <1>6 DEF Reread
  <2>2. pc'[r] = pc[r] /\ reply'[r] = reply[r] /\ job' = job
    BY <1>0, <1>6, <2>1 DEF Update, Reread, Finish
  <2> QED
    BY <1>1, <2>2
<1>7. ASSUME UNCHANGED vars PROVE Goal
  BY <1>1, <1>7 DEF vars
<1> HIDE DEF Goal
<1>8. Goal
  BY <1>2, <1>3, <1>4, <1>4a, <1>5, <1>6, <1>7 DEF Next, Statement
<1>9. job'[r] = job[r] /\ Running
  BY <1>8 DEF Goal
<1> QED
  BY <1>9 DEF Overwriting

\* The manifest of a signed workspace is the signed one, unless a build that
\* replaced it has not finished: a build that does finish takes the workspace
\* out of SIGNED and REVIEW, because the trigger quarantines it.
THEOREM ManifestIsSigned == Spec => []SignedManifest
<1>1. Init => SignedManifest
  BY DEF Init, SignedManifest, FreshRow
<1>2. TypeOK /\ RefNamed /\ FreeIsFresh /\ ManifestKept /\ SignedManifest /\ [Next]_vars
        => SignedManifest'
  <2> SUFFICES ASSUME TypeOK, RefNamed, FreeIsFresh, ManifestKept, SignedManifest, [Next]_vars,
                      NEW w \in Workspaces,
                      row'[w].status = "live", row'[w].state \in {"SIGNED", "REVIEW"}
               PROVE  \/ row'[w].manifest = signed'[w]
                      \/ \E r \in Requests : Overwriting(r, w)'
    BY DEF SignedManifest, Live
  <2>0. row[w].status = "live" /\ row[w].state \in {"SIGNED", "REVIEW"} =>
          row[w].manifest = signed[w] \/ \E r \in Requests : Overwriting(r, w)
    BY DEF SignedManifest, Live
  <2>1. CASE \A r \in Requests : ~Update(r)
    <3>1. row[w].status = "live" /\ row[w].state \in {"SIGNED", "REVIEW"} /\ signed' = signed
      BY <2>1, OtherSteps DEF Create, FreeIsFresh
    <3>2. CASE row'[w].manifest = row[w].manifest
      BY <2>0, <2>1, <3>1, <3>2, OverwritingStays DEF Live
    <3>3. ASSUME NEW r \in Requests, SetManifest(r), job[r].ws = w,
                 row'[w].manifest = job[r].ref
          PROVE  Overwriting(r, w)'
      BY <3>3 DEF SetManifest, Overwriting, TypeOK
    <3> QED
      BY <2>1, <3>2, <3>3, OtherSteps
  <2>2. ASSUME NEW q \in Requests, Update(q)
        PROVE  \/ row'[w].manifest = signed'[w]
               \/ \E r \in Requests : Overwriting(r, w)'
    <3>1. row[w].status = "live"
      BY <2>2, UpdateEffect DEF Live
    <3>2. row'[w].manifest = row[w].manifest
      <4>1. job[q].kind = "reset" => Targets[job[q].kind] = "DRAFT"
        BY DEF Targets
      <4> QED
        BY <2>2, <4>1, JobTyped, UpdateEffect, OutcomeCases
    <3>3. CASE row[w].state = "BUILD"
      BY <2>2, <3>2, <3>3, JobTyped, UpdateEffect, OutcomeCases
    <3>4. CASE row[w].state # "BUILD"
      <4>1. row[w].state \in {"SIGNED", "REVIEW"} /\ signed'[w] = signed[w]
        BY <2>2, <3>4, JobTyped, UpdateEffect, OutcomeCases
      <4>2. ASSUME NEW r \in Requests, Overwriting(r, w) PROVE ~Update(r)
        <5>1. SUFFICES ASSUME Update(r) PROVE FALSE
          OBVIOUS
        <5>2. row[w].manifest \in Manifests
          BY <4>1 DEF ManifestKept, TypeOK, Rows
        <5>3. job[r].ws = w /\ Targets[job[r].kind] = "BUILD"
          BY <4>2, <5>2, JobTyped DEF Overwriting, Targets
        <5> QED
          BY <3>1, <4>1, <5>1, <5>3, JobTyped, UpdateEffect, OutcomeCases DEF Live
      <4> QED
        BY <2>0, <3>1, <3>2, <4>1, <4>2, OverwritingStays DEF Live
    <3> QED
      BY <3>3, <3>4
  <2> QED
    BY <2>1, <2>2
<1> QED
  BY <1>1, <1>2, TypeCorrect, RefIsNamed, FreeStaysFresh, ManifestIsKept, PTL DEF Spec

\* The nonce that signs a workspace was recorded by the signing request itself
\* or after its row: the trigger reads the latest row, and the request's own row
\* precedes its UPDATE.
THEOREM EvidenceIsFresh == Spec => FreshEvidence
<1> DEFINE Fresh == \A r \in Requests : LET w == job[r].ws IN
          pc[r] = "update" /\ row[w].state = "BUILD" /\ row'[w].state = "SIGNED"
            /\ pc'[r] # "update" =>
              \E i, k \in DOMAIN log[w] : /\ log[w][i].by = r
                                          /\ log[w][k].to = "SIGNED"
                                          /\ log[w][k].proof = signed'[w]
                                          /\ i <= k
<1>1. TypeOK /\ RefNamed /\ RowsPrecedeMoves /\ [Next]_vars => Fresh
  <2> SUFFICES ASSUME TypeOK, RefNamed, RowsPrecedeMoves, [Next]_vars, NEW r \in Requests,
                      pc[r] = "update", row[job[r].ws].state = "BUILD",
                      row'[job[r].ws].state = "SIGNED", pc'[r] # "update"
               PROVE  \E i, k \in DOMAIN log[job[r].ws] :
                          /\ log[job[r].ws][i].by = r
                          /\ log[job[r].ws][k].to = "SIGNED"
                          /\ log[job[r].ws][k].proof = signed'[job[r].ws]
                          /\ i <= k
    OBVIOUS
  <2> DEFINE w == job[r].ws
  <2>1. w \in Workspaces
    BY JobTyped
  <2>2. Update(r)
    <3>1. PICK q \in Requests : Update(q)
      BY <2>1, OtherSteps
    <3>2. q = r
      BY <3>1 DEF Update, TypeOK
    <3> QED
      BY <3>1, <3>2
  <2>3. /\ Live(w) /\ Targets[job[r].kind] = "SIGNED"
        /\ signed'[w] = row[w].manifest /\ Proven(w, row[w].manifest)
    BY <2>1, <2>2, JobTyped, UpdateEffect, OutcomeCases
  <2>4. PICK i \in DOMAIN log[w] : log[w][i].by = r /\ log[w][i].to = "SIGNED"
    BY <2>3 DEF RowsPrecedeMoves
  <2>5. PICK k \in SignRows(w) : log[w][k].proof = row[w].manifest /\ i <= k
    BY <2>3, <2>4 DEF Proven, SignRows
  <2> QED
    BY <2>3, <2>4, <2>5 DEF SignRows
<1> QED
  BY <1>1, TypeCorrect, RefIsNamed, RowsComeFirst, PTL DEF Spec, FreshEvidence

-----------------------------------------------------------------------------
(* Pipeline implements PipelinePromise.                                    *)

\* INSERT attests the manifest its nonce names, or is no step of the promise.
LEMMA PromiseInsert ==
  ASSUME TypeOK, NEW r \in Requests, Insert(r)
  PROVE  [Promise!Next]_(Promise!vars)
<1>0. PICK w \in Workspaces : w = job[r].ws
  BY JobTyped
<1>00. PICK new : new = [to |-> Targets[job[r].kind], proof |-> job[r].proof, by |-> r]
  OBVIOUS
<1> DEFINE attests == new.to = "SIGNED" /\ new.proof \in Manifests
<1>1. /\ row[w].status = "live" /\ row' = row /\ signed' = signed
      /\ log' = [log EXCEPT ![w] = Append(@, new)] /\ log \in [Workspaces -> Seq(LogRows)]
  BY <1>0, <1>00 DEF Insert, Live, TypeOK
<1>2. \A v \in Workspaces : Stage(v)' = Stage(v)
  BY <1>1 DEF Stage, Live
<1>3. ASSUME NEW v \in Workspaces, v # w PROVE Attested(v)' = Attested(v)
  BY <1>1, <1>3 DEF Attested, SignRows
<1>4. /\ DOMAIN log'[w] = DOMAIN log[w] \cup {Len(log[w]) + 1}
      /\ log'[w][Len(log[w]) + 1] = new
      /\ \A i \in DOMAIN log[w] : log'[w][i] = log[w][i]
  <2>1. log'[w] = Append(log[w], new) /\ log[w] \in Seq(LogRows)
    BY <1>1
  <2> QED
    BY <2>1
<1>5. CASE attests
  <2>1. Attested(w)' = Attested(w) \cup {new.proof}
    <3>1. SignRows(w)' = SignRows(w) \cup {Len(log[w]) + 1}
      BY <1>4, <1>5 DEF SignRows
    <3>2. \A i \in SignRows(w) : log'[w][i].proof = log[w][i].proof
      BY <1>4 DEF SignRows
    <3>3. \A m : m \in Attested(w)' <=> m \in Attested(w) \/ m = new.proof
      BY <1>4, <1>5, <3>1, <3>2 DEF Attested
    <3> QED
      BY <3>3
  <2>2. Promise!Attest(w, new.proof)
    BY <1>1, <1>2, <1>3, <2>1 DEF Promise!Attest, Promise!Stages, Stage, Live, TypeOK, Rows, States
  <2> QED
    BY <1>1, <1>5, <2>2 DEF Promise!Next
<1>6. CASE ~attests
  <2>1. Attested(w)' = Attested(w)
    <3>1. \A m \in Manifests : m \in Attested(w)' <=> m \in Attested(w)
      BY <1>4, <1>6 DEF Attested, SignRows
    <3> QED
      BY <3>1 DEF Attested
  <2>2. [v \in Workspaces |-> Attested(v)]' = [v \in Workspaces |-> Attested(v)]
    BY <1>3, <2>1
  <2>3. [v \in Workspaces |-> Stage(v)]' = [v \in Workspaces |-> Stage(v)]
    BY <1>2
  <2> QED
    BY <1>1, <2>2, <2>3 DEF Promise!vars
<1> QED
  BY <1>5, <1>6

\* UPDATE moves its workspace one stage, into quarantine, or nowhere.
LEMMA PromiseUpdate ==
  ASSUME TypeOK, ManifestKept, NEW r \in Requests, Update(r)
  PROVE  [Promise!Next]_(Promise!vars)
<1>0. PICK w \in Workspaces : w = job[r].ws
  BY JobTyped
<1>1. \A v \in Workspaces : Attested(v)' = Attested(v)
  BY DEF Update, Attested, SignRows
<1>2. ASSUME NEW v \in Workspaces, v # w PROVE Stage(v)' = Stage(v)
  BY <1>0, <1>2, UpdateEffect DEF Stage, Live
<1>3. CASE ~Live(w)
  <2>1. row' = row /\ signed' = signed
    BY <1>0, <1>3 DEF Update
  <2> QED
    BY <1>1, <2>1 DEF Promise!vars, Stage, Live
<1>4. CASE Live(w)
  <2>1. Stage(w)' = row'[w].state /\ Stage(w) = row[w].state /\ row[w].state \in States
    BY <1>0, <1>4, UpdateEffect DEF Stage, Live, TypeOK, Rows
  <2>2. signed' = IF row[w].state = "BUILD" /\ row'[w].state = "SIGNED"
                    THEN [signed EXCEPT ![w] = row[w].manifest] ELSE signed
    <3>1. row'[w].state = Outcome(w, Targets[job[r].kind])
      BY <1>0, <1>4, UpdateEffect
    <3> QED
      BY <1>0, <1>4, <3>1 DEF Update
  <2>3. CASE row'[w].state = row[w].state
    BY <1>1, <1>2, <2>1, <2>2, <2>3 DEF Promise!vars
  <2>4. CASE row'[w].state = "QUARANTINED"
    <3>1. Promise!Quarantine(w)
      BY <1>1, <1>2, <2>1, <2>2, <2>4 DEF Promise!Quarantine, Promise!Move, Promise!Stages, States
    <3> QED
      BY <3>1 DEF Promise!Next
  <2>5. CASE row'[w].state = "DRAFT" /\ row[w].state = "QUARANTINED"
    <3>1. Promise!Recover(w)
      BY <1>1, <1>2, <2>1, <2>2, <2>5 DEF Promise!Recover, Promise!Move
    <3> QED
      BY <3>1 DEF Promise!Next
  <2>6. CASE row'[w].state = "BUILD" /\ row[w].state = "DRAFT"
    <3>1. Promise!Build(w)
      BY <1>1, <1>2, <2>1, <2>2, <2>6 DEF Promise!Build, Promise!Move
    <3> QED
      BY <3>1 DEF Promise!Next
  <2>7. CASE row'[w].state = "SIGNED" /\ row[w].state = "BUILD" /\ Proven(w, row[w].manifest)
    <3>1. row[w].manifest \in Manifests
      BY <2>7 DEF ManifestKept, TypeOK, Rows
    <3>2. row[w].manifest \in Attested(w)
      BY <2>7, <3>1 DEF Proven, Attested
    <3>3. Promise!Sign(w, row[w].manifest)
      BY <1>1, <1>2, <2>1, <2>2, <2>7, <3>2 DEF Promise!Sign, Promise!Move
    <3> QED
      BY <3>1, <3>3 DEF Promise!Next
  <2>8. CASE row'[w].state = "REVIEW" /\ row[w].state = "SIGNED"
    <3>1. Promise!Submit(w)
      BY <1>1, <1>2, <2>1, <2>2, <2>8 DEF Promise!Submit, Promise!Move
    <3> QED
      BY <3>1 DEF Promise!Next
  <2> QED
    BY <1>0, <1>4, <2>3, <2>4, <2>5, <2>6, <2>7, <2>8, JobTyped, UpdateEffect, OutcomeCases
<1> QED
  BY <1>3, <1>4

\* Pipeline implements PipelinePromise: for all interleavings and failures of
\* the handlers' statements, a workspace walks the stages in order, is signed
\* only over an attested manifest, and leaves quarantine only as a draft.
THEOREM PromiseKept == Spec => KeepsPromise
<1>1. Init => Promise!Init
  BY DEF Init, Promise!Init, Stage, Live, Attested, SignRows, FreshRow
<1>2. TypeOK /\ RefNamed /\ FreeIsFresh /\ ManifestKept /\ [Next]_vars
        => [Promise!Next]_(Promise!vars)
  <2> SUFFICES ASSUME TypeOK, RefNamed, FreeIsFresh, ManifestKept, [Next]_vars
               PROVE  [Promise!Next]_(Promise!vars)
    OBVIOUS
  <2>0. row \in [Workspaces -> Rows]
    BY DEF TypeOK
  <2>1. ASSUME NEW w \in Workspaces, Create(w) PROVE Promise!Provision(w)
    <3>1. \A v \in Workspaces : Attested(v)' = Attested(v)
      BY <2>1 DEF Create, Attested, SignRows
    <3>2. \A v \in Workspaces : v # w => Stage(v)' = Stage(v)
      BY <2>0, <2>1 DEF Create, Stage, Live
    <3>3. Stage(w) = "free" /\ Stage(w)' = "DRAFT"
      BY <2>0, <2>1 DEF Create, Stage, Live, FreeIsFresh, Rows
    <3> QED
      BY <2>1, <3>1, <3>2, <3>3 DEF Promise!Provision, Promise!Move, Create
  <2>2. ASSUME NEW w \in Workspaces, Delete(w) PROVE Promise!Remove(w)
    <3>1. \A v \in Workspaces : v # w => Attested(v)' = Attested(v) /\ Stage(v)' = Stage(v)
      BY <2>0, <2>2 DEF Delete, Attested, SignRows, Stage, Live, TypeOK
    <3>2. Attested(w)' = {}
      BY <2>2 DEF Delete, Attested, SignRows, TypeOK
    <3>3. Stage(w) \in States /\ Stage(w)' = "gone"
      BY <2>0, <2>2 DEF Delete, Stage, Live, Rows
    <3> QED
      BY <2>2, <3>1, <3>2, <3>3 DEF Promise!Remove, Promise!Move, Promise!Stages, States, Delete
  <2>3. ASSUME NEW w \in Workspaces, SetWebhook(w) PROVE UNCHANGED Promise!vars
    <3>1. \A v \in Workspaces : Stage(v)' = Stage(v)
      BY <2>0, <2>3 DEF SetWebhook, Stage, Live, Rows
    <3> QED
      BY <2>3, <3>1 DEF SetWebhook, Attested, SignRows, Promise!vars
  <2>4. ASSUME NEW r \in Requests, SetManifest(r) PROVE UNCHANGED Promise!vars
    <3>1. \A v \in Workspaces : Stage(v)' = Stage(v)
      BY <2>0, <2>4, JobTyped DEF SetManifest, Stage, Live, Rows
    <3> QED
      BY <2>4, <3>1 DEF SetManifest, Attested, SignRows, Promise!vars
  <2>5. ASSUME NEW r \in Requests, Start(r) \/ Select(r) \/ Reread(r) \/ Fail(r)
        PROVE  UNCHANGED Promise!vars
    BY <2>5 DEF Start, Select, Reread, Fail, Stage, Live, Attested, SignRows, Promise!vars
  <2>6. CASE UNCHANGED vars
    BY <2>6 DEF vars, Stage, Live, Attested, SignRows, Promise!vars
  <2> QED
    BY <2>1, <2>2, <2>3, <2>4, <2>5, <2>6, PromiseInsert, PromiseUpdate
    DEF Next, Statement, Promise!Next
<1> QED
  BY <1>1, <1>2, TypeCorrect, RefIsNamed, FreeStaysFresh, ManifestIsKept, PTL
  DEF Spec, KeepsPromise, Promise!Spec
=============================================================================
