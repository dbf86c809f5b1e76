-------------------------------- MODULE Shim --------------------------------
(***************************************************************************)
(* shim/src/shim.c: the interposer that records a target's file I/O.       *)
(*                                                                         *)
(* Threads of one process make calls; each interposed call takes a stamp,  *)
(* calls libc, looks at what happened, takes a second stamp and appends a  *)
(* record.  None of it is locked: the descriptor tables, the payload store *)
(* and the trace file are shared.  The kernel underneath (names, files,    *)
(* descriptors and their offsets) is external; it may fail a call, or      *)
(* write less than it was given.  The target writes two sectors at a time. *)
(* The 64-bit and *at spellings of a call differ in how they find the path *)
(* and are one call here.                                                  *)
(***************************************************************************)
EXTENDS Replay, TraceFile

CONSTANTS
    Programs,         \* the targets, each a record: its threads, the names of
                      \* the calls they make, the paths and payloads they make
                      \* them with, a bound on how many (most), and what may go
                      \* wrong with one (faults)
    Fds,              \* the descriptors the kernel hands out
    MAX_FD,           \* size of the descriptor tables
    OpenFlags,        \* the flags files are opened with
    RenameWhileOpen   \* whether a file is renamed or unlinked while it is open

FAULTS == {"fails", "short",    \* a call of the target fails, or writes less
           "store"}             \* one of store_payload's own calls does

MARKER == "crashfuzz.marker"
NONE == ""    \* no path, no payload
NOFLAGS == "0"
CREATE == "O_CREAT"
TRUNCATE == "O_CREAT|O_TRUNC"

CALLS == {"open", "write", "pwrite", "ftruncate", "fsync", "close", "rename", "unlink"}

ASSUME ShimAssumption ==
    /\ Fds \subseteq Nat /\ MAX_FD \in Nat
    /\ MARKER \notin Paths
    /\ \A p \in Programs : /\ IsFiniteSet(p.threads)
                           /\ p.calls \subseteq CALLS /\ p.paths \subseteq Paths
                           /\ p.most \in Nat /\ p.faults \subseteq FAULTS
    /\ OpenFlags \subseteq {CREATE, TRUNCATE}
    /\ RenameWhileOpen \in BOOLEAN

VARIABLES
    program,       \* the target that is traced
    counter,       \* the shared stamp counter
    fd_paths, fd_is_marker,
    pending_flags, \* thread-local: flags for the next record
    cas,           \* each payload object: "absent", "partial" or "whole"
    frame,         \* the call each thread is in
    records,       \* the trace file
    calls,         \* how many calls were made
    names, files, desc,   \* the kernel's
    performed,     \* history: how many calls the kernel has performed
    truth          \* history: when and where it performed each event recorded

tables == <<fd_paths, fd_is_marker>>
kernel == <<names, files, desc>>
history == <<performed, truth>>
vars == <<program, counter, tables, pending_flags, cas, frame, records, calls, kernel, history>>

PathNames == Paths \cup {MARKER}

Threads == program.threads

Idle == [step |-> "idle"]

Init ==
    /\ program \in Programs
    /\ counter = 0
    /\ fd_paths = [fd \in Fds |-> NONE]
    /\ fd_is_marker = [fd \in Fds |-> FALSE]
    /\ pending_flags = [t \in Threads |-> NOFLAGS]
    /\ cas = [v \in program.values |-> "absent"]
    /\ frame = [t \in Threads |-> Idle]
    /\ records = <<>>
    /\ calls = 0
    /\ names = [p \in PathNames |-> 0]
    /\ files = [i \in 1..(2 * program.most) |-> <<>>]
    /\ desc = [fd \in Fds |-> [file |-> 0, path |-> NONE, off |-> 0]]
    /\ performed = 0
    /\ truth = <<>>

-----------------------------------------------------------------------------
(* The descriptor tables.                                                  *)

InTable(fd) == fd \in Fds /\ fd < MAX_FD

is_marker_fd(fd) == InTable(fd) /\ fd_is_marker[fd]

path_for(fd) == IF InTable(fd) THEN fd_paths[fd] ELSE NONE

-----------------------------------------------------------------------------
(* The target.  It is a correct program: it uses a descriptor only between *)
(* the return of open and the call of close.                               *)

FdCall == {"write", "pwrite", "ftruncate", "fsync", "close"}

Busy(fd) == {t \in Threads : frame[t].step # "idle" /\ frame[t].fd = fd}

Usable(fd) ==
    /\ desc[fd].file # 0
    /\ \A t \in Busy(fd) : /\ frame[t].call # "open"
                           /\ frame[t].call = "close" => frame[t].step # "perform"

OpenOn(p) == {fd \in Fds : desc[fd].file # 0 /\ desc[fd].file = names[p]}

MayMove(p) == RenameWhileOpen \/ OpenOn(p) = {}

Call(name, fd, p, q, v, flags) ==
    [call |-> name, fd |-> fd, path |-> p, path2 |-> q, value |-> v, flags |-> flags]

Opens == {Call("open", -1, p, NONE, NONE, f) : p \in program.paths \cup {MARKER}, f \in OpenFlags}

Writes ==
    {Call(c, fd, NONE, NONE, v, NOFLAGS) :
        c \in {"write", "pwrite"}, fd \in {d \in Fds : Usable(d)}, v \in program.values}

DescriptorCalls ==
    {Call(c, fd, NONE, NONE, NONE, NOFLAGS) :
        c \in {"ftruncate", "fsync"}, fd \in {d \in Fds : Usable(d)}}

Closes ==
    {Call("close", fd, NONE, NONE, NONE, NOFLAGS) :
        fd \in {d \in Fds : Usable(d) /\ \A t \in Busy(d) : frame[t].step = "clear"}}

Moves ==
    {Call("rename", -1, p, q, NONE, NOFLAGS) :
        p \in {r \in program.paths : MayMove(r)}, q \in {r \in program.paths : MayMove(r)}}
    \cup {Call("unlink", -1, p, NONE, NONE, NOFLAGS) : p \in {r \in program.paths : MayMove(r)}}

(* The calls the target may make next.  The marker file is only opened,    *)
(* written and closed.                                                     *)
TargetCalls ==
    {c \in Opens \cup Writes \cup DescriptorCalls \cup Closes \cup Moves :
        /\ c.call \in program.calls
        /\ c.call = "rename" => c.path # c.path2
        /\ c.call \in {"pwrite", "ftruncate", "fsync"} => desc[c.fd].path # MARKER}

-----------------------------------------------------------------------------
(* The interposed calls.                                                   *)

(* The wrapper is entered and the submission stamp taken.  A write to the  *)
(* marker file is told apart here.                                         *)
Enter(t, c) ==
    /\ frame[t].step = "idle" /\ calls < program.most
    /\ calls' = calls + 1
    /\ counter' = counter + 1
    /\ frame' = [frame EXCEPT ![t] =
                   [call |-> c.call, fd |-> c.fd, path |-> c.path, path2 |-> c.path2,
                    value |-> c.value, flags |-> c.flags,
                    i |-> counter, j |-> 0, off |-> 0, ret |-> 0,
                    at |-> [nth |-> 0, path |-> NONE, off |-> 0],
                    step |-> IF c.call = "write" /\ is_marker_fd(c.fd) THEN "marker" ELSE "perform"]]
    /\ UNCHANGED <<program, tables, pending_flags, cas, records, kernel, history>>

(* What the kernel does with call f when it succeeds, a write with n       *)
(* sectors: the result, and the state after.                               *)
WRITTEN == 2    \* sectors of a payload

FreeFds == {fd \in Fds : desc[fd].file = 0}

(* open returns the lowest-numbered free descriptor.                       *)
LowestFree == CHOOSE fd \in FreeFds : \A other \in FreeFds : fd <= other

Outcome(ret, fd, ns, fl, ds) ==
    [ret |-> ret, fd |-> fd, names |-> ns, files |-> fl, desc |-> ds]

KernelOpen(f) ==
    IF FreeFds = {} THEN Outcome(-1, -1, names, files, desc)
    ELSE LET fd == LowestFree
             file == IF names[f.path] # 0 THEN names[f.path] ELSE f.i + 1
         IN  Outcome(0, fd, [names EXCEPT ![f.path] = file],
                     IF f.flags = TRUNCATE THEN [files EXCEPT ![file] = <<>>] ELSE files,
                     [desc EXCEPT ![fd] = [file |-> file, path |-> f.path, off |-> 0]])

KernelCall(f, n) ==
    CASE f.call = "open" -> KernelOpen(f)
      [] f.call = "write" ->
           Outcome(n * SectorSize, f.fd, names,
                   [files EXCEPT ![desc[f.fd].file] = Overlay(@, f.value, desc[f.fd].off, n)],
                   [desc EXCEPT ![f.fd].off = @ + n])
      [] f.call = "pwrite" ->
           Outcome(n * SectorSize, f.fd, names,
                   [files EXCEPT ![desc[f.fd].file] = Overlay(@, f.value, 0, n)], desc)
      [] f.call = "ftruncate" ->
           Outcome(0, f.fd, names, [files EXCEPT ![desc[f.fd].file] = <<>>], desc)
      [] f.call = "fsync" -> Outcome(0, f.fd, names, files, desc)
      [] f.call = "close" ->
           Outcome(0, f.fd, names, files, [desc EXCEPT ![f.fd].file = 0])
      [] f.call = "rename" ->
           IF names[f.path] = 0 THEN Outcome(-1, -1, names, files, desc)
           ELSE Outcome(0, -1, [names EXCEPT ![f.path2] = names[f.path], ![f.path] = 0],
                        files, desc)
      [] f.call = "unlink" ->
           IF names[f.path] = 0 THEN Outcome(-1, -1, names, files, desc)
           ELSE Outcome(0, -1, [names EXCEPT ![f.path] = 0], files, desc)

(* ... and when it fails: nothing changes, but close still closes.         *)
Failure(f) ==
    Outcome(-1, f.fd, names, files,
            IF f.call = "close" THEN [desc EXCEPT ![f.fd].file = 0] ELSE desc)

(* Everything the kernel may do with call f.                               *)
KernelCalls(f) ==
    {KernelCall(f, WRITTEN)}
    \cup {Failure(f) : x \in program.faults \cap {"fails"}}
    \cup {KernelCall(f, 1) : x \in IF f.call \in {"write", "pwrite"} THEN program.faults \cap {"short"}
                                  ELSE {}}

(* emit_marker, then the real write, which no record shows.                *)
EmitMarker(t) ==
    LET f == frame[t]
        k == KernelCall(f, WRITTEN)
    IN  /\ f.step = "marker"
        /\ records' = Append(records, [rec |-> "marker", i |-> f.i, tid |-> t])
        /\ names' = k.names /\ files' = k.files /\ desc' = k.desc
        /\ performed' = performed + 1
        /\ frame' = [frame EXCEPT ![t] = Idle]
        /\ UNCHANGED <<program, counter, tables, pending_flags, cas, calls, truth>>

(* What the wrapper does after the real call.                              *)
AfterCall(name) ==
    IF name = "open" THEN "remember"
    ELSE IF name \in {"write", "pwrite"} THEN "store"
    ELSE "complete"

(* The real call.                                                          *)
Perform(t) ==
    LET f == frame[t]
    IN  /\ f.step = "perform"
        /\ \E k \in KernelCalls(f) :
             /\ names' = k.names /\ files' = k.files /\ desc' = k.desc
             /\ frame' =
                  [frame EXCEPT ![t].ret = k.ret, ![t].fd = k.fd, ![t].step = AfterCall(f.call),
                                ![t].at = [nth |-> performed + 1,
                                           path |-> IF f.call \in FdCall THEN desc[f.fd].path ELSE f.path,
                                           off |-> IF f.call \in FdCall THEN desc[f.fd].off ELSE 0]]
        /\ performed' = performed + 1
        /\ UNCHANGED <<program, counter, tables, pending_flags, cas, records, calls, truth>>

(* open: remember_path, and the flags for the record.                      *)
Remember(t) ==
    LET f == frame[t]
    IN  /\ f.step = "remember"
        /\ IF InTable(f.fd)
           THEN /\ fd_paths' = [fd_paths EXCEPT ![f.fd] = f.path]
                /\ fd_is_marker' = [fd_is_marker EXCEPT ![f.fd] = (f.path = MARKER)]
           ELSE UNCHANGED tables
        /\ pending_flags' = [pending_flags EXCEPT ![t] = f.flags]
        /\ frame' = [frame EXCEPT ![t].step = "complete"]
        /\ UNCHANGED <<program, counter, cas, records, calls, kernel, history>>

(* Where a write goes on once its payload is stored, or found stored.      *)
AfterStore(name) == IF name = "write" THEN "seek" ELSE "complete"

(* Mutant: the object is created and its bytes are never written.          *)
StoreEmpty(t) ==
    LET f == frame[t]
    IN  /\ f.step = "store"
        /\ cas' = [cas EXCEPT ![f.value] = IF @ = "absent" THEN "partial" ELSE @]
        /\ frame' = [frame EXCEPT ![t].step = AfterStore(f.call)]
        /\ UNCHANGED <<program, counter, tables, pending_flags, records, calls, kernel, history>>

(* store_payload: O_EXCL creates the object.  It returns at once if that   *)
(* fails: because the object exists, or for any other reason.              *)
StorePayload(t) ==
    LET f == frame[t]
    IN  /\ f.step = "store"
        /\ \/ /\ cas[f.value] = "absent"
              /\ cas' = [cas EXCEPT ![f.value] = "partial"]
              /\ frame' = [frame EXCEPT ![t].step = "fill"]
           \/ /\ cas[f.value] # "absent" \/ "store" \in program.faults
              /\ UNCHANGED cas
              /\ frame' = [frame EXCEPT ![t].step = AfterStore(f.call)]
        /\ UNCHANGED <<program, counter, tables, pending_flags, records, calls, kernel, history>>

(* ... and the creator writes its bytes.  If a write fails it leaves the   *)
(* object as it is, and whoever comes later finds that it exists.          *)
FillPayload(t) ==
    LET f == frame[t]
    IN  /\ f.step = "fill"
        /\ \/ cas' = [cas EXCEPT ![f.value] = "whole"]
           \/ "store" \in program.faults /\ UNCHANGED cas
        /\ frame' = [frame EXCEPT ![t].step = AfterStore(f.call)]
        /\ UNCHANGED <<program, counter, tables, pending_flags, records, calls, kernel, history>>

(* Mutant: what was asked to be written is taken off.                      *)
OffsetLessAsked(fd, written) == IF written < 0 THEN -1 ELSE desc[fd].off - WRITTEN

(* write_offset: the descriptor's offset now, less what was written.       *)
write_offset(fd, written) == IF written < 0 THEN -1 ELSE desc[fd].off - Sectors(written)

Seek(t) ==
    /\ frame[t].step = "seek"
    /\ frame' = [frame EXCEPT ![t].off = write_offset(frame[t].fd, frame[t].ret), ![t].step = "complete"]
    /\ UNCHANGED <<program, counter, tables, pending_flags, cas, records, calls, kernel, history>>

(* Mutant: the completion stamp is read and not taken.                     *)
CompleteNoTick(t) ==
    LET f == frame[t]
    IN  /\ f.step = "complete"
        /\ IF f.call \in {"open", "close"} /\ is_marker_fd(f.fd)
           THEN frame' = [frame EXCEPT ![t] = IF f.call = "open" THEN Idle
                                              ELSE [f EXCEPT !.step = "clear"]]
           ELSE frame' = [frame EXCEPT ![t].j = counter, ![t].step = "emit"]
        /\ UNCHANGED <<program, counter, tables, pending_flags, cas, records, calls, kernel, history>>

(* Mutant: both stamps are taken after the call.                           *)
CompleteBothStamps(t) ==
    LET f == frame[t]
    IN  /\ f.step = "complete"
        /\ IF f.call \in {"open", "close"} /\ is_marker_fd(f.fd)
           THEN /\ frame' = [frame EXCEPT ![t] = IF f.call = "open" THEN Idle
                                                 ELSE [f EXCEPT !.step = "clear"]]
                /\ UNCHANGED counter
           ELSE /\ frame' = [frame EXCEPT ![t].i = counter, ![t].j = counter + 1, ![t].step = "emit"]
                /\ counter' = counter + 2
        /\ UNCHANGED <<program, tables, pending_flags, cas, records, calls, kernel, history>>

(* Mutant: the marker file is not told apart when it is opened and closed. *)
CompleteMarkers(t) ==
    /\ frame[t].step = "complete"
    /\ frame' = [frame EXCEPT ![t].j = counter, ![t].step = "emit"]
    /\ counter' = counter + 1
    /\ UNCHANGED <<program, tables, pending_flags, cas, records, calls, kernel, history>>

(* emit_event takes the completion stamp.  An open or close of the marker  *)
(* file is not recorded.                                                   *)
Complete(t) ==
    LET f == frame[t]
    IN  /\ f.step = "complete"
        /\ IF f.call \in {"open", "close"} /\ is_marker_fd(f.fd)
           THEN /\ frame' = [frame EXCEPT ![t] = IF f.call = "open" THEN Idle
                                                 ELSE [f EXCEPT !.step = "clear"]]
                /\ UNCHANGED counter
           ELSE /\ frame' = [frame EXCEPT ![t].j = counter, ![t].step = "emit"]
                /\ counter' = counter + 1
        /\ UNCHANGED <<program, tables, pending_flags, cas, records, calls, kernel, history>>

(* ... formats the record, the path read from the table, and appends it.   *)
Emit(t) ==
    LET f == frame[t]
    IN  /\ f.step = "emit"
        /\ records' = Append(records,
             [rec |-> "event", i |-> f.i, j |-> f.j, tid |-> t, call |-> f.call, fd |-> f.fd,
              path |-> IF f.call \in FdCall \cup {"open"} THEN path_for(f.fd) ELSE f.path,
              path2 |-> f.path2, off |-> f.off, ret |-> f.ret,
              len |-> IF f.call \in {"write", "pwrite"} THEN WRITTEN * SectorSize ELSE 0,
              flags |-> pending_flags[t], value |-> f.value])
        /\ truth' = Append(truth, [i |-> f.i, at |-> f.at])
        /\ pending_flags' = [pending_flags EXCEPT ![t] = NOFLAGS]
        /\ frame' = [frame EXCEPT ![t] = IF f.call = "close" THEN [f EXCEPT !.step = "clear"] ELSE Idle]
        /\ UNCHANGED <<program, counter, tables, cas, calls, kernel, performed>>

(* close: the tables forget the descriptor.                                *)
Clear(t) ==
    /\ frame[t].step = "clear"
    /\ IF InTable(frame[t].fd)
       THEN /\ fd_paths' = [fd_paths EXCEPT ![frame[t].fd] = NONE]
            /\ fd_is_marker' = [fd_is_marker EXCEPT ![frame[t].fd] = FALSE]
       ELSE UNCHANGED tables
    /\ frame' = [frame EXCEPT ![t] = Idle]
    /\ UNCHANGED <<program, counter, pending_flags, cas, records, calls, kernel, history>>

Next ==
    \E t \in Threads :
        \/ \E c \in TargetCalls : Enter(t, c)
        \/ EmitMarker(t)
        \/ Perform(t)
        \/ Remember(t)
        \/ StorePayload(t)
        \/ FillPayload(t)
        \/ Seek(t)
        \/ Complete(t)
        \/ Emit(t)
        \/ Clear(t)

Spec == Init /\ [][Next]_vars

-----------------------------------------------------------------------------

(* Whether the target has one thread.                                      *)
Alone == Cardinality(Threads) = 1

Quiet == \A t \in Threads : frame[t].step = "idle"

Events == RecordsOf(records, "event")

(* Every stamp a record carries.                                           *)
StampsOf(r) == IF r.rec = "event" THEN {r.i, r.j} ELSE {r.i}

(* Types, and a stamp is never ahead of the counter.                       *)
TypeOK ==
    /\ counter \in Nat
    /\ fd_paths \in [Fds -> PathNames \cup {NONE}]
    /\ fd_is_marker \in [Fds -> BOOLEAN]
    /\ cas \in [program.values -> {"absent", "partial", "whole"}]
    /\ \A t \in Threads :
         frame[t].step \in {"idle", "marker", "perform", "remember", "store", "fill", "seek",
                           "complete", "emit", "clear"}
    /\ \A k \in DOMAIN records : \A s \in StampsOf(records[k]) : s \in 0..(counter-1)
    /\ Len(truth) = Cardinality({k \in DOMAIN records : records[k].rec = "event"})

At(e) == (CHOOSE x \in {truth[n] : n \in DOMAIN truth} : x.i = e.i).at

(* trace-format.md: "i and j come from one counter, so the two stamps of   *)
(* all events together form a total order over submission and completion   *)
(* points."  No stamp is given twice, and the records of one thread carry  *)
(* ascending ones, its markers exactly between the calls around them.      *)
OneOrder ==
    /\ \A k, l \in DOMAIN records : k # l => StampsOf(records[k]) \cap StampsOf(records[l]) = {}
    /\ \A e \in Events : e.i < e.j
    /\ \A k, l \in DOMAIN records :
         (k < l /\ records[k].tid = records[l].tid) =>
             \A m \in StampsOf(records[k]), n \in StampsOf(records[l]) : m < n

(* The stamps are one order, and the two of a call bracket the real call,  *)
(* whatever the threads do between: a call that completed before another   *)
(* was submitted happened before it.                                       *)
StampsOrderCalls ==
    /\ OneOrder
    /\ \A a, b \in Events : a.j < b.i => At(a).nth < At(b).nth

(* trace-format.md: "for descriptor calls, the path cached at open".  A    *)
(* call on a descriptor that is open, close apart, succeeded on the file   *)
(* its record names.                                                       *)
PathIsCached ==
    \A e \in Events : (e.call \in FdCall \ {"close"} /\ e.ret >= 0) => e.path = At(e).path

(* trace-format.md: "Byte offset the call applied at".                     *)
OffsetIsTrue == Alone => \A e \in Events : (e.call = "write" /\ e.ret >= 0) => e.off = At(e).off

(* trace-format.md: the marker file is not traced "as target I/O", and a   *)
(* file that is not the marker file never passes for it: every target      *)
(* call that succeeded on another file is in the trace.                    *)
MarkersApart ==
    Alone =>
    /\ \A e \in Events : e.ret >= 0 => At(e).path # MARKER
    /\ \A fd \in Fds : (Quiet /\ desc[fd].file # 0) =>
                           (is_marker_fd(fd) <=> desc[fd].path = MARKER)

(* What a path holds; a file without bytes is as good as none.             *)
Held(ns, data, p) == IF ns[p] = 0 THEN <<>> ELSE data[ns[p]]

(* A write that wrote less than it was given: the store has all of it.     *)
Short(e) == e.call \in {"write", "pwrite"} /\ e.ret >= 0 /\ e.ret < e.len

(* store_payload reports nothing: a record names a payload whether or not  *)
(* the store could take it.                                                *)
StoreWorks == "store" \notin program.faults

PayloadsStored == \A e \in Events : e.value # NONE => cas[e.value] = "whole"

(* trace-format.md: "A trace plus its cas directory is enough to           *)
(* reconstruct file contents".  However many threads put a payload there,  *)
(* the store has it whole, unless a system call of store_payload itself    *)
(* failed.  And replay.ts: replaying a trace whose payloads are there is   *)
(* "reproducing the file state the traced calls produced", those that      *)
(* failed among them; after a short write, or without a payload, it is not.*)
ReplayIsFaithful ==
    /\ (StoreWorks /\ Quiet) => PayloadsStored
    /\ (Alone /\ Quiet /\ PayloadsStored /\ \A e \in Events : ~Short(e)) =>
        LET fs == ReplayTrace(InSubmissionOrder(records, "event"))
        IN  fs.ok /\ \A p \in Paths : Held(fs.names, fs.data, p) = Held(names, files, p)

(* reproducer.ts: the prefix of a finding holds "Records up to and         *)
(* including the crash point."  It is cut by the order of the file, and    *)
(* the crash point is a place in submission order.  For any threads, all   *)
(* that the thread of the crash point issued before it is there, and of a  *)
(* target of one thread the calls of the prefix end at the crash point.    *)
(* Markers do not end there: the code keeps every one of the file.         *)
PrefixKeepsPast ==
    LET es == InSubmissionOrder(records, "event")
    IN  Quiet => \A cp \in DOMAIN es :
            LET kept == {records[k] : k \in TracePrefix(records, cp)}
            IN  /\ \A e \in Events : (e.tid = es[cp].tid /\ e.i < es[cp].i) => e \in kept
                /\ Alone => \A e \in Events : e \in kept <=> e.i <= es[cp].i
                /\ RecordsOf(records, "marker") \subseteq kept

=============================================================================
