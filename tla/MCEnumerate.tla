---------------------------- MODULE MCEnumerate ----------------------------
(* Instances of Enumerate.                                                 *)
EXTENDS Enumerate

CONSTANTS tmp, db

call(c, p, n, r) == [call |-> c, path |-> p, path2 |-> p, len |-> n, ret |-> r]

BothOrders == {ext4Journal, xfs}

(* Writes that can tear, a size change, a failed write and persistence     *)
(* calls that succeed and fail.                                            *)
MixedOps ==
    {call("write", tmp, 1024, 0),
     call("truncate", tmp, 0, 0),
     call("pwrite", db, 512, 0),
     call("pwrite", db, 512, -1),
     call("fsync", db, 0, 0),
     call("fdatasync", tmp, 0, -1)}

=============================================================================
