----------------------------- MODULE MCPipeline -----------------------------
(* Pipeline on small sets. Requests and manifests are interchangeable in the *)
(* safety runs.                                                              *)
EXTENDS Pipeline, TLC

Symmetry == Permutations(Requests) \cup Permutations(Manifests)

(* A state of Pipeline in which r has built w from m, and answered, and every *)
(* other request is still to come.                                            *)
Built(r, w, m) ==
    /\ row = [x \in Workspaces |-> IF x = w THEN [status   |-> "live", state |-> "BUILD",
                                                  manifest |-> m, hook |-> FALSE]
                                             ELSE FreshRow]
    /\ log = [x \in Workspaces |-> IF x = w THEN <<[to |-> "BUILD", proof |-> NoProof, by |-> r]>>
                                             ELSE <<>>]
    /\ signed = [x \in Workspaces |-> NoManifest]
    /\ job = [q \in Requests |-> IF q = r THEN [kind |-> "build", ws |-> w, ref |-> m,
                                                proof |-> NoProof]
                                           ELSE NoJob]
    /\ pc = [q \in Requests |-> IF q = r THEN "done" ELSE "idle"]
    /\ reply = [q \in Requests |-> IF q = r THEN "BUILD" ELSE "none"]

ResetInit == \E r \in Requests, w \in Workspaces, m \in Manifests : Built(r, w, m)

(* With two requests, one is left to send after the build: a reset that does  *)
(* not reach DRAFT was refused it by the trigger, at its own UPDATE.          *)
ResetSpec == ResetInit /\ [][Next]_vars
=============================================================================
