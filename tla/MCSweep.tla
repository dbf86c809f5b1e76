------------------------------ MODULE MCSweep ------------------------------
(* An instance of Sweep: three configurations, two of them on one          *)
(* filesystem, with two shapes.                                            *)
EXTENDS Sweep

ThreeConfigs ==
    <<[name |-> "ext4-ordered", filesystem |-> "ext4"],
      [name |-> "ext4-journal", filesystem |-> "ext4"],
      [name |-> "xfs", filesystem |-> "xfs"]>>
TwoShapes == <<"single", "large">>
NoneOrTwo == {{}, {"LOST_ACKED|missing:pwrite@main.redb", "RECOVERY_FAILED|missing:none"}}

=============================================================================
