----------------------------- MODULE MCWriteback -----------------------------
(* An instance of WritebackExperiment: 45 s scaled down to 60 ms, with     *)
(* timers on both sides of what the check lets pass.                       *)
EXTENDS WritebackExperiment

UpToFour == 0..4
UpToThree == 0..3

=============================================================================
