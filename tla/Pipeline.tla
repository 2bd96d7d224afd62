------------------------------ MODULE Pipeline ------------------------------
(***************************************************************************)
(* The delivery pipeline of a DarkHarbor workspace: the rows of the        *)
(* postgres tables workspaces and pipeline_transitions, the trigger        *)
(* trg_pipeline_state that guards every change of pipeline_state, and the  *)
(* handlers of the api-server that drive it (routes/pipeline.js,           *)
(* routes/workspace.js, routes/webhooks.js).                               *)
(*                                                                         *)
(* A handler runs three to five SQL statements, each in a transaction of   *)
(* its own, with an await between them: any number of handlers interleave  *)
(* at those awaits.  One statement is one action, and any statement may    *)
(* fail (connection lost, server stopped), which leaves the effects of the *)
(* statements before it in place.                                          *)
(***************************************************************************)
EXTENDS Naturals, Sequences

CONSTANTS
    Workspaces,   \* ids the SERIAL column hands out, each at most once
    Requests,     \* HTTP requests, each served at most once
    Manifests,    \* values of manifest_ref
    NoManifest,   \* NULL in manifest_hash, or no manifest_ref in the body
    NoProof       \* a signing row that is not blake3, or whose nonce is ''

ASSUME PipelineAssumption ==
    /\ Workspaces # {}
    /\ NoManifest \notin Manifests
    /\ NoProof \notin Manifests \cup {NoManifest}

VARIABLES
    row,      \* workspaces: the columns the pipeline reads and writes
    log,      \* pipeline_transitions of each workspace, by created_at
    signed,   \* history: the nonce the trigger accepted at the last BUILD -> SIGNED
    job,      \* parameters of each request
    pc,       \* the statement each request runs next
    reply     \* what each request answered

vars == <<row, log, signed, job, pc, reply>>

States == {"DRAFT", "BUILD", "SIGNED", "REVIEW", "QUARANTINED"}
Rows == [status   : {"free", "live", "gone"},
         state    : States,
         manifest : Manifests \cup {NoManifest},
         hook     : BOOLEAN]
LogRows == [to : States, proof : Manifests \cup {NoProof}, by : Requests]

Targets == [build |-> "BUILD", sign |-> "SIGNED", review |-> "REVIEW", reset |-> "DRAFT"]
Jobs == [kind  : DOMAIN Targets,
         ws    : Workspaces,
         ref   : Manifests \cup {NoManifest},
         proof : Manifests \cup {NoProof}]

\* The bodies the four routes accept: only build reads manifest_ref, only sign
\* reads digest_algorithm and signing_nonce.
Bodies == {j \in Jobs : /\ j.kind # "build" => j.ref = NoManifest
                        /\ j.kind # "sign"  => j.proof = NoProof}

Live(w) == row[w].status = "live"

-----------------------------------------------------------------------------
(* The trigger check_pipeline_transition.                                  *)

SignRows(w) == {i \in DOMAIN log[w] : log[w][i].to = "SIGNED"}

\* Mutated: a query without ORDER BY created_at DESC, which may return any row.
ProvenByAnyRow(w, m) == \E i \in SignRows(w) : log[w][i].proof = m

\* Mutated: a nonce is present but is not compared with manifest_hash.
ProvenByAnyNonce(w, m) ==
    \E i \in SignRows(w) : /\ log[w][i].proof # NoProof
                           /\ \A k \in SignRows(w) : k <= i

\* The latest signing row of w carries a blake3 nonce equal to m.
Proven(w, m) ==
    \E i \in SignRows(w) : /\ log[w][i].proof = m
                           /\ \A k \in SignRows(w) : k <= i

\* Mutated: the trigger does not look at the manifest of a DRAFT.
AllowedEmpty(w, target) ==
    LET old == row[w] IN
    \/ old.state = target
    \/ <<old.state, target>> \in {<<"QUARANTINED", "DRAFT">>, <<"DRAFT", "BUILD">>}
    \/ old.state = "BUILD" /\ target = "SIGNED" /\ Proven(w, old.manifest)
    \/ old.state = "SIGNED" /\ target = "REVIEW" /\ old.hook

\* Mutated: the trigger does not look at the webhook of a SIGNED workspace.
AllowedUnhooked(w, target) ==
    LET old == row[w] IN
    \/ old.state = target
    \/ old.state = "DRAFT" /\ target = "BUILD" /\ old.manifest # NoManifest
    \/ old.state = "BUILD" /\ target = "SIGNED" /\ Proven(w, old.manifest)
    \/ <<old.state, target>> \in {<<"QUARANTINED", "DRAFT">>, <<"SIGNED", "REVIEW">>}

\* Mutated: a quarantined workspace may be built again without a reset.
AllowedRebuild(w, target) ==
    LET old == row[w] IN
    \/ old.state = target
    \/ old.state = "QUARANTINED" /\ target = "DRAFT"
    \/ old.state \in {"DRAFT", "QUARANTINED"} /\ target = "BUILD" /\ old.manifest # NoManifest
    \/ old.state = "BUILD" /\ target = "SIGNED" /\ Proven(w, old.manifest)
    \/ old.state = "SIGNED" /\ target = "REVIEW" /\ old.hook

Allowed(w, target) ==
    LET old == row[w] IN
    \/ old.state = target
    \/ old.state = "QUARANTINED" /\ target = "DRAFT"
    \/ old.state = "DRAFT" /\ target = "BUILD" /\ old.manifest # NoManifest
    \/ old.state = "BUILD" /\ target = "SIGNED" /\ Proven(w, old.manifest)
    \/ old.state = "SIGNED" /\ target = "REVIEW" /\ old.hook

\* Mutated: the trigger keeps the old state instead of quarantining.
OutcomeIgnored(w, target) == IF Allowed(w, target) THEN target ELSE row[w].state

Outcome(w, target) == IF Allowed(w, target) THEN target ELSE "QUARANTINED"

-----------------------------------------------------------------------------
\* Where a request that has not arrived keeps its parameters.
NoJob == [kind  |-> "reset", ws |-> CHOOSE w \in Workspaces : TRUE,
          ref   |-> NoManifest, proof |-> NoProof]

FreshRow == [status |-> "free", state |-> "DRAFT", manifest |-> NoManifest, hook |-> FALSE]

Init ==
    /\ row = [w \in Workspaces |-> FreshRow]
    /\ log = [w \in Workspaces |-> <<>>]
    /\ signed = [w \in Workspaces |-> NoManifest]
    /\ job = [r \in Requests |-> NoJob]
    /\ pc = [r \in Requests |-> "idle"]
    /\ reply = [r \in Requests |-> "none"]

\* POST /api/workspaces (and the seed row of init.sql).
Create(w) ==
    /\ row[w].status = "free"
    /\ row' = [row EXCEPT ![w].status = "live"]
    /\ UNCHANGED <<log, signed, job, pc, reply>>

\* DELETE /api/workspaces/:id; the foreign key removes the transition rows.
Delete(w) ==
    /\ Live(w)
    /\ row' = [row EXCEPT ![w].status = "gone"]
    /\ log' = [log EXCEPT ![w] = <<>>]
    /\ UNCHANGED <<signed, job, pc, reply>>

\* POST /api/webhooks/:workspaceId; no route sets the column back to NULL.
SetWebhook(w) ==
    /\ Live(w)
    /\ row' = [row EXCEPT ![w].hook = TRUE]
    /\ UNCHANGED <<log, signed, job, pc, reply>>

\* A pipeline request arrives. A build with a manifest_ref writes it first.
Start(r) ==
    /\ pc[r] = "idle"
    /\ \E j \in Bodies :
          /\ job' = [job EXCEPT ![r] = j]
          /\ pc' = [pc EXCEPT ![r] = IF j.ref # NoManifest THEN "manifest" ELSE "select"]
    /\ UNCHANGED <<row, log, signed, reply>>

\* UPDATE workspaces SET manifest_hash: whatever the state, and no row is no error.
SetManifest(r) ==
    LET w == job[r].ws IN
    /\ pc[r] = "manifest"
    /\ row' = IF Live(w) THEN [row EXCEPT ![w].manifest = job[r].ref] ELSE row
    /\ pc' = [pc EXCEPT ![r] = "select"]
    /\ UNCHANGED <<log, signed, job, reply>>

\* Mutated: the 404 branch does not send a reply.
FinishSilently(r, answer) ==
    /\ pc' = [pc EXCEPT ![r] = "done"]
    /\ reply' = [reply EXCEPT ![r] = IF answer = "404" THEN "none" ELSE answer]

Finish(r, answer) ==
    /\ pc' = [pc EXCEPT ![r] = "done"]
    /\ reply' = [reply EXCEPT ![r] = answer]

\* transitionState: SELECT; no row answers 404.
Select(r) ==
    /\ pc[r] = "select"
    /\ IF Live(job[r].ws)
         THEN pc' = [pc EXCEPT ![r] = "insert"] /\ UNCHANGED reply
         ELSE Finish(r, "404")
    /\ UNCHANGED <<row, log, signed, job>>

\* Mutated: from_state and to_state swapped in the column list.
InsertSwapped(r) ==
    LET w == job[r].ws IN
    /\ pc[r] = "insert"
    /\ Live(w)
    /\ log' = [log EXCEPT ![w] = Append(@, [to    |-> row[w].state,
                                            proof |-> job[r].proof,
                                            by    |-> r])]
    /\ pc' = [pc EXCEPT ![r] = "update"]
    /\ UNCHANGED <<row, signed, job, reply>>

\* transitionState: INSERT INTO pipeline_transitions. (On a workspace deleted
\* since the SELECT the foreign key rejects it: the action Fail.)
Insert(r) ==
    LET w == job[r].ws IN
    /\ pc[r] = "insert"
    /\ Live(w)
    /\ log' = [log EXCEPT ![w] = Append(@, [to    |-> Targets[job[r].kind],
                                            proof |-> job[r].proof,
                                            by    |-> r])]
    /\ pc' = [pc EXCEPT ![r] = "update"]
    /\ UNCHANGED <<row, signed, job, reply>>

\* transitionState: UPDATE ... SET pipeline_state, through the trigger; a reset
\* clears manifest_hash in the same statement, whatever the trigger decides.
Update(r) ==
    LET w    == job[r].ws
        next == Outcome(w, Targets[job[r].kind])
    IN
    /\ pc[r] = "update"
    /\ row' = IF Live(w)
                THEN [row EXCEPT ![w].state = next,
                                 ![w].manifest = IF job[r].kind = "reset" THEN NoManifest ELSE @]
                ELSE row
    /\ signed' = IF Live(w) /\ row[w].state = "BUILD" /\ next = "SIGNED"
                   THEN [signed EXCEPT ![w] = row[w].manifest]
                   ELSE signed
    /\ pc' = [pc EXCEPT ![r] = "reread"]
    /\ UNCHANGED <<log, job, reply>>

\* transitionState: the second SELECT, and the answer. reset answers DRAFT
\* without looking at the row it read.
Reread(r) ==
    LET w == job[r].ws IN
    /\ pc[r] = "reread"
    /\ Finish(r, IF ~Live(w) THEN "404"
                 ELSE IF job[r].kind = "reset" THEN "DRAFT"
                 ELSE row[w].state)
    /\ UNCHANGED <<row, log, signed, job>>

\* Any statement may fail: the catch block answers 500 and undoes nothing.
Fail(r) ==
    /\ pc[r] \notin {"idle", "done"}
    /\ Finish(r, "500")
    /\ UNCHANGED <<row, log, signed, job>>

Statement(r) == SetManifest(r) \/ Select(r) \/ Insert(r) \/ Update(r) \/ Reread(r) \/ Fail(r)

Next ==
    \/ \E w \in Workspaces : Create(w) \/ Delete(w) \/ SetWebhook(w)
    \/ \E r \in Requests : Start(r) \/ Statement(r)

Spec == Init /\ [][Next]_vars

\* The driver answers or rejects every query, so a handler that was started
\* keeps running to its reply. Nothing forces a client to send a request.
FairSpec == Spec /\ \A r \in Requests : WF_vars(Statement(r))

-----------------------------------------------------------------------------
TypeOK ==
    /\ row \in [Workspaces -> Rows]
    /\ log \in [Workspaces -> Seq(LogRows)]
    /\ signed \in [Workspaces -> Manifests \cup {NoManifest}]
    /\ job \in [Requests -> Bodies]
    /\ pc \in [Requests -> {"idle", "manifest", "select", "insert", "update", "reread", "done"}]
    /\ reply \in [Requests -> {"none", "404", "500"} \cup States]

\* Request r has overwritten manifest_hash of w and has not (yet) carried the
\* workspace out of its state: it is still running, or a statement failed.
Overwriting(r, w) ==
    /\ job[r].ws = w
    /\ job[r].ref = row[w].manifest
    /\ \/ pc[r] \in {"select", "insert", "update"}
       \/ pc[r] = "done" /\ reply[r] = "500"

\* The manifest of a SIGNED or REVIEW workspace is the one its signature
\* covers, unless a build that replaced it is between its two UPDATEs or died
\* there: build() writes manifest_hash before transitionState looks at the state.
SignedManifest ==
    \A w \in Workspaces :
        Live(w) /\ row[w].state \in {"SIGNED", "REVIEW"} =>
            \/ row[w].manifest = signed[w]
            \/ \E r \in Requests : Overwriting(r, w)

\* A workspace is past BUILD only if some blake3 signing row in its log carries
\* the manifest it was signed with.
SignedHasEvidence ==
    \A w \in Workspaces :
        Live(w) /\ row[w].state \in {"SIGNED", "REVIEW"} =>
            \E i \in SignRows(w) : log[w][i].proof = signed[w] /\ signed[w] \in Manifests

\* The log runs ahead of the state, never behind it: a request that is about to
\* move a workspace has its row in the log, and the stages a workspace went
\* through since DRAFT are all there.
RowsPrecedeMoves ==
    /\ \A r \in Requests :
          pc[r] = "update" /\ Live(job[r].ws) =>
              \E i \in DOMAIN log[job[r].ws] :
                  /\ log[job[r].ws][i].by = r
                  /\ log[job[r].ws][i].to = Targets[job[r].kind]
    /\ \A w \in Workspaces :
          Live(w) /\ row[w].state \in {"BUILD", "SIGNED", "REVIEW"} =>
              \E i \in DOMAIN log[w] : log[w][i].to = "BUILD"

\* A workspace that has left DRAFT other than into quarantine has a manifest:
\* a reset that clears it, at any point between the statements of a build or a
\* sign, always lands in DRAFT or QUARANTINED.
ManifestKept ==
    \A w \in Workspaces :
        row[w].manifest = NoManifest => row[w].state \in {"DRAFT", "QUARANTINED"}

\* A workspace under review has a webhook for the build notification.
ReviewHasWebhook ==
    \A w \in Workspaces : row[w].state = "REVIEW" => row[w].hook

\* The nonce that lets r sign a workspace was recorded by r itself or after
\* r's own row, never left over from an earlier attempt.
FreshEvidence ==
    [][\A r \in Requests : LET w == job[r].ws IN
          pc[r] = "update" /\ row[w].state = "BUILD" /\ row'[w].state = "SIGNED"
            /\ pc'[r] # "update" =>
              \E i, k \in DOMAIN log[w] : /\ log[w][i].by = r
                                          /\ log[w][k].to = "SIGNED"
                                          /\ log[w][k].proof = signed'[w]
                                          /\ i <= k]_vars

\* The abstract pipeline this one implements: the stage of a workspace that is
\* not live is its status, and the attested manifests are the blake3 nonces of
\* its signing rows.
Stage(w) == IF Live(w) THEN row[w].state ELSE row[w].status
Attested(w) == {m \in Manifests : \E i \in SignRows(w) : log[w][i].proof = m}

Promise == INSTANCE PipelinePromise WITH
    stage    <- [w \in Workspaces |-> Stage(w)],
    attested <- [w \in Workspaces |-> Attested(w)],
    sealed   <- signed

\* However the statements of the handlers interleave and wherever they fail, the
\* rows move only as PipelinePromise allows: one stage at a time, signed only
\* over an attested manifest, out of quarantine only to DRAFT.
KeepsPromise == Promise!Spec

\* Every request that was received is answered.
AlwaysAnswered == \A r \in Requests : (pc[r] # "idle") ~> (reply[r] # "none")

\* What the dashboard tells the user of a reset that succeeded: "Pipeline reset
\* to DRAFT" (js/app.js), and what the route answers.
ResetReachesDraft ==
    [][\A r \in Requests :
          pc[r] = "reread" /\ job[r].kind = "reset" /\ reply'[r] = "DRAFT" =>
              row[job[r].ws].state = "DRAFT"]_vars
=============================================================================
