--------------------------- MODULE MCLighterTotal ---------------------------
(***************************************************************************)
(* LighterTotal on small instances: the scanner as MCScanner instances it, *)
(* and images of every size, with metadata, a tag or another format when   *)
(* they are of an ordinary size, and one that does not open.               *)
(***************************************************************************)
EXTENDS MCScanner, LighterTotal

ASSUME Img!ImagesAssumption

MCSizes == {"small", "large", "huge", "bomb", "wide", "heavy"}
MCLooks == {i \in [size : MCSizes, exif : BOOLEAN, tilt : {"upright", "tagged"}, odd : BOOLEAN, sound : BOOLEAN] :
    /\ i.odd => ~i.exif /\ i.tilt = "upright" /\ i.size = "large"
    /\ i.exif \/ i.odd \/ i.tilt = "tagged" => i.size \in {"small", "large"} /\ i.sound
    /\ ~i.sound => i.size = "small"}

\* A scanner that is not driven begins in one way.
MCInit == HalvesInit /\ (half = "images" => \A r \in Reqs : req[r].stuff = "odd")
MCSpec == MCInit /\ [][HalvesNext]_<<half, vars, imageVars>>

HalvesSymmetry == Symmetry \cup Permutations(Images) \cup Permutations(Threads)
=============================================================================
