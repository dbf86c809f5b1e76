---------------------------- MODULE MCCrashSpace ----------------------------
(* Instances of CrashSpace: the calls a small program may issue.           *)
EXTENDS CrashSpace

CONSTANTS tmp, db

call(c, p, p2, n, r) == [call |-> c, path |-> p, path2 |-> p2, len |-> n, ret |-> r]

OnlyXfs == {xfs}

TwoDirectories == [p \in Paths |-> IF p = tmp THEN "scratch" ELSE "data"]

(* One thread: a two-sector write, a size change, a rename and an unlink   *)
(* of tmp and an unlink of db, in another directory, a write that fails,   *)
(* and persistence calls, one of which fails.                              *)
SequentialOps ==
    {call("write", tmp, tmp, 1024, 0),
     call("ftruncate", tmp, tmp, 0, 0),
     call("rename", tmp, db, 0, 0),
     call("unlink", tmp, tmp, 0, 0),
     call("unlink", db, db, 0, 0),
     call("pwrite", db, db, 512, -1),
     call("fsync", tmp, tmp, 0, 0),
     call("fdatasync", tmp, tmp, 0, 0),
     call("fsync", tmp, tmp, 0, -1)}

(* Two threads, so that writes and persistence calls overlap.              *)
ConcurrentOps ==
    {call("write", tmp, tmp, 512, 0),
     call("pwrite", db, db, 512, 0),
     call("fsync", tmp, tmp, 0, 0),
     call("fdatasync", db, db, 0, 0),
     call("fsync", db, db, 0, -1)}

=============================================================================
