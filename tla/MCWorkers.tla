----------------------------- MODULE MCWorkers -----------------------------
(***************************************************************************)
(* What stands around the runs of the garment pipeline: the lock of one      *)
(* garment, and the queue that carries the garments of one photo.  The two   *)
(* share no state; an initial state chooses which of them is played.  No     *)
(* action that fairness is assumed of is enabled in an initial state, so     *)
(* fairness asks nothing of the scene that stands still.                     *)
(***************************************************************************)
EXTENDS TimedExecutionLock, PhotoSiblings

\* Nothing, a top and a coat, the coat seen twice.
SmallDetections == {<<>>, <<"top", "coat">>, <<"top", "coat", "coat">>}

VARIABLE scene

workersVars == <<scene, timedVars, siblingVars>>

WorkersInit ==
    /\ scene \in {"lock", "siblings"}
    /\ TimedInit /\ SiblingInit

WorkersNext ==
    /\ UNCHANGED scene
    /\ \/ scene = "lock" /\ TimedNext /\ UNCHANGED siblingVars
       \/ scene = "siblings" /\ SiblingNext /\ UNCHANGED timedVars

FairWorkersSpec ==
    WorkersInit /\ [][WorkersNext]_workersVars /\ TimedFairness /\ SiblingFairness

\* The types of both modules.
WorkersTypeOK == TimedTypeOK /\ SiblingTypeOK

=============================================================================
