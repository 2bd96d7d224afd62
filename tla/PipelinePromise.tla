--------------------------- MODULE PipelinePromise --------------------------
(***************************************************************************)
(* What the pipeline promises, without requests, statements or a trigger:  *)
(* a workspace walks DRAFT, BUILD, SIGNED, REVIEW one stage at a time, it  *)
(* is signed only over a manifest that somebody attested, it may fall into *)
(* QUARANTINED from anywhere and come back only as a DRAFT, and its id is  *)
(* never used again.                                                       *)
(***************************************************************************)
CONSTANTS Workspaces, Manifests, NoManifest

VARIABLES
    stage,      \* where each workspace stands
    attested,   \* the manifests attested for it
    sealed      \* the manifest of its last signature

vars == <<stage, attested, sealed>>

Stages == {"DRAFT", "BUILD", "SIGNED", "REVIEW", "QUARANTINED"}

Init ==
    /\ stage = [w \in Workspaces |-> "free"]
    /\ attested = [w \in Workspaces |-> {}]
    /\ sealed = [w \in Workspaces |-> NoManifest]

Move(w, from, to) ==
    /\ stage[w] = from
    /\ stage' = [stage EXCEPT ![w] = to]

Provision(w) == Move(w, "free", "DRAFT") /\ UNCHANGED <<attested, sealed>>

Attest(w, m) ==
    /\ stage[w] \in Stages
    /\ attested' = [attested EXCEPT ![w] = @ \cup {m}]
    /\ UNCHANGED <<stage, sealed>>

Build(w) == Move(w, "DRAFT", "BUILD") /\ UNCHANGED <<attested, sealed>>

Sign(w, m) ==
    /\ m \in attested[w]
    /\ Move(w, "BUILD", "SIGNED")
    /\ sealed' = [sealed EXCEPT ![w] = m]
    /\ UNCHANGED attested

Submit(w) == Move(w, "SIGNED", "REVIEW") /\ UNCHANGED <<attested, sealed>>

Quarantine(w) ==
    /\ stage[w] \in Stages
    /\ Move(w, stage[w], "QUARANTINED")
    /\ UNCHANGED <<attested, sealed>>

Recover(w) == Move(w, "QUARANTINED", "DRAFT") /\ UNCHANGED <<attested, sealed>>

Remove(w) ==
    /\ stage[w] \in Stages
    /\ Move(w, stage[w], "gone")
    /\ attested' = [attested EXCEPT ![w] = {}]
    /\ UNCHANGED sealed

Next ==
    \E w \in Workspaces :
        \/ Provision(w) \/ Build(w) \/ Submit(w) \/ Quarantine(w) \/ Recover(w) \/ Remove(w)
        \/ \E m \in Manifests : Attest(w, m) \/ Sign(w, m)

Spec == Init /\ [][Next]_vars
=============================================================================
