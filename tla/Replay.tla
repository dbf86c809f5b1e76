------------------------------- MODULE Replay -------------------------------
(***************************************************************************)
(* core/src/trace/replay.ts: from a trace, or a crash state of it, to the  *)
(* files of a directory.                                                   *)
(*                                                                         *)
(* A file system is the file each path names (0 for none), the content of  *)
(* each file, and whether the replay is still running: a call that throws  *)
(* ends it.  Files are numbered by the event that created them.  A content *)
(* is a sequence of sectors, each the value its bytes come from.           *)
(***************************************************************************)
EXTENDS Integers, Sequences

CONSTANT Paths

SectorSize == 512
Sectors(bytes) == bytes \div SectorSize

HOLE == "zeroes"    \* a sector nothing was written to

EmptyFs(n) == [names |-> [p \in Paths |-> 0],
               data |-> [i \in 1..n |-> <<>>],
               ok |-> TRUE]

(* The path is created, empty, if it is not there.                         *)
EnsureFile(fs, p, i) == IF fs.names[p] # 0 THEN fs ELSE [fs EXCEPT !.names[p] = i]

(* n sectors of value v written from sector at.                            *)
Overlay(old, v, at, n) ==
    [k \in 1..(IF n > 0 /\ at + n > Len(old) THEN at + n ELSE Len(old)) |->
        IF k \in (at+1)..(at+n) THEN v ELSE IF k <= Len(old) THEN old[k] ELSE HOLE]

Resize(old, n) == [k \in 1..n |-> IF k <= Len(old) THEN old[k] ELSE HOLE]

(* Mutant: a torn write puts the whole payload on disk.                    *)
ApplyWriteWhole(fs, i, e, bytes) ==
    LET made == EnsureFile(fs, e.path, i)
    IN  [made EXCEPT !.data[made.names[e.path]] = Overlay(@, e.value, e.off, Sectors(e.len))]

ApplyWrite(fs, i, e, bytes) ==
    LET made == EnsureFile(fs, e.path, i)
    IN  [made EXCEPT !.data[made.names[e.path]] = Overlay(@, e.value, e.off, Sectors(bytes))]

ApplyTruncate(fs, i, e) ==
    LET made == EnsureFile(fs, e.path, i)
    IN  [made EXCEPT !.data[made.names[e.path]] = Resize(@, Sectors(e.len))]

(* Mutant: the source keeps its name.                                      *)
ApplyRenameKeeps(fs, i, e) ==
    LET made == EnsureFile(fs, e.path, i)
    IN  [made EXCEPT !.names[e.path2] = made.names[e.path]]

(* The source may have no data in this state and still exist.  Renaming    *)
(* one name of a file to another name of it does nothing.                  *)
ApplyRename(fs, i, e) ==
    LET made == EnsureFile(fs, e.path, i)
    IN  IF made.names[e.path] = made.names[e.path2] THEN made
        ELSE [made EXCEPT !.names[e.path2] = made.names[e.path], !.names[e.path] = 0]

(* linkSync refuses a destination that exists.                             *)
ApplyLink(fs, i, e) ==
    LET made == EnsureFile(fs, e.path, i)
    IN  IF made.names[e.path2] # 0 THEN [made EXCEPT !.ok = FALSE]
        ELSE [made EXCEPT !.names[e.path2] = made.names[e.path]]

ApplyUnlink(fs, e) == [fs EXCEPT !.names[e.path] = 0]

(* Directories are made on demand, so mkdir changes no file.               *)
ApplySelected(fs, i, e, bytes) ==
    IF e.call \in {"write", "pwrite", "writev"} THEN ApplyWrite(fs, i, e, bytes)
    ELSE IF e.call \in {"truncate", "ftruncate"} THEN ApplyTruncate(fs, i, e)
    ELSE IF e.call = "rename" THEN ApplyRename(fs, i, e)
    ELSE IF e.call = "link" THEN ApplyLink(fs, i, e)
    ELSE IF e.call = "unlink" THEN ApplyUnlink(fs, e)
    ELSE fs

(* The bytes of operation i that the state holds.                          *)
HeldBytes(es, st, i) ==
    IF \E w \in st.partial : w.op = i
    THEN (CHOOSE w \in st.partial : w.op = i).bytes ELSE es[i].len

(* Applies what the state says persisted, in submission order; the return  *)
(* value of a call is not looked at.                                       *)
ReplaySelection(es, st) ==
    LET held(i) == i \in st.persisted \/ \E w \in st.partial : w.op = i
        step(fs, i) == IF held(i) /\ fs.ok
                       THEN ApplySelected(fs, i, es[i], HeldBytes(es, st, i)) ELSE fs
        after[i \in 0..Len(es)] == IF i = 0 THEN EmptyFs(Len(es)) ELSE step(after[i-1], i)
    IN  after[Len(es)]

(* Applies a whole trace, the calls that failed left out.                  *)
ReplayTrace(es) ==
    LET step(fs, i) == IF es[i].ret >= 0 /\ fs.ok
                       THEN ApplySelected(fs, i, es[i], es[i].len) ELSE fs
        after[i \in 0..Len(es)] == IF i = 0 THEN EmptyFs(Len(es)) ELSE step(after[i-1], i)
    IN  after[Len(es)]

Content(fs, p) == fs.data[fs.names[p]]

=============================================================================
