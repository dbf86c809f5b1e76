---------------------------- MODULE StateTesting ----------------------------
(***************************************************************************)
(* What the loop of runCampaign promises about its states, whatever images,*)
(* mounts and commands it takes: one state at a time is given an image of  *)
(* its own, built whole, recovered from and judged, once each and in that  *)
(* order, until no state is left or an exception ends it for good.  Image  *)
(* implements this with the commands of image.ts and Campaign with replay, *)
(* recovery and the oracle.                                                *)
(***************************************************************************)
EXTENDS Naturals

VARIABLES
    left,    \* how many states have not been judged
    stage    \* how far the one in hand is

vars == <<left, stage>>

Init ==
    \/ stage = "idle" /\ left = 0
    \/ stage = "next" /\ left \in Nat

(* The states to test are settled.                                         *)
Sample == stage = "idle" /\ stage' = "next" /\ left' \in Nat

Make == stage = "next" /\ left > 0 /\ stage' = "made" /\ UNCHANGED left

Populate == stage = "made" /\ stage' = "whole" /\ UNCHANGED left

Recover == stage = "whole" /\ stage' = "recovered" /\ UNCHANGED left

Judge == stage = "recovered" /\ stage' = "next" /\ left' = left - 1

(* An exception leaves the loop.                                           *)
Stop == stage \notin {"idle", "stopped"} /\ stage' = "stopped" /\ UNCHANGED left

Next == Sample \/ Make \/ Populate \/ Recover \/ Judge \/ Stop

Safety == Init /\ [][Next]_vars

=============================================================================
