--------------------------- MODULE MessageLifecycle ---------------------------
(***************************************************************************)
(* What the prompt queue promises a message, whatever happens to the runs, *)
(* the process or the disk around it.  A message waits in the queue, runs, *)
(* or is steered into a run that is already going:                         *)
(*                                                                         *)
(*   - it is started at most once: nothing leads back from Running or      *)
(*     Ended;                                                              *)
(*   - steering that was handed to a provider is never queued again: only  *)
(*     Steering, which no provider has seen, leads back to Waiting;        *)
(*   - it never disappears while somebody still waits for it: only work    *)
(*     that waits, runs or has ended can be removed, and steering settles. *)
(*                                                                         *)
(* One step may move several messages (a completion, a restart).           *)
(***************************************************************************)
CONSTANT Messages

VARIABLE stage

Stages == {"Unused", "Waiting", "Steering", "Handed", "Settled",
           "Running", "Ended", "Removed"}

Moves ==
    {<<"Unused", "Waiting">>, <<"Unused", "Steering">>, <<"Unused", "Removed">>,
     <<"Waiting", "Running">>, <<"Waiting", "Steering">>, <<"Waiting", "Removed">>,
     <<"Steering", "Waiting">>, <<"Steering", "Handed">>,
     <<"Handed", "Settled">>, <<"Settled", "Removed">>,
     <<"Running", "Ended">>, <<"Running", "Removed">>, <<"Ended", "Removed">>}

LifecycleInit == stage = [m \in Messages |-> "Unused"]

LifecycleNext ==
    /\ stage' \in [Messages -> Stages]
    /\ \A m \in Messages :
            stage'[m] = stage[m] \/ <<stage[m], stage'[m]>> \in Moves

LifecycleSpec == LifecycleInit /\ [][LifecycleNext]_stage
=============================================================================
