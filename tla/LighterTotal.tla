---------------------------- MODULE LighterTotal ----------------------------
(***************************************************************************)
(* The two halves of LighterTotal: the scanner, and the operations on      *)
(* images. They have a directory each and no route calls the operations,   *)
(* so each has variables of its own, and a behaviour drives one of them.   *)
(***************************************************************************)
EXTENDS Scanner, Integers, Sequences

CONSTANTS Images, Looks, Threads, Caller, MaxCount

VARIABLES half, file, job, counted, owed, inherited

Img == INSTANCE Images

imageVars == <<file, job, counted, owed, inherited>>

HalvesInit == half \in {"scanner", "images"} /\ Init /\ Img!Init

HalvesNext ==
    /\ UNCHANGED half
    /\ \/ half = "scanner" /\ Next /\ UNCHANGED imageVars
       \/ half = "images" /\ Img!Next /\ UNCHANGED vars

HalvesSpec == HalvesInit /\ [][HalvesNext]_<<half, vars, imageVars>>

\* Images: the handler never counts fewer files in quarantine than it put there and left.
CounterCovers == Img!CounterCovers

\* Images: an answer without errors is true of the file.
CleanAnswer == Img!CleanAnswer

\* Images: an image that was taken away is told in the errors.
AwayIsTold == Img!AwayIsTold

\* Images: only stripping, conversion and what follows a failure lose the tag that says how to turn.
TagHeeded == Img!TagHeeded
=============================================================================
