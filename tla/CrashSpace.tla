---------------------------- MODULE CrashSpace ----------------------------
(***************************************************************************)
(* A traced program, the filesystem under it and the crash states that are *)
(* enumerated for the trace.                                               *)
(*                                                                         *)
(* Threads issue calls.  Each call takes its submission stamp (its place   *)
(* in `events', which is the order parseTrace sorts by), is performed by   *)
(* the kernel some time later, and returns some time after that: the three *)
(* steps of every interposed function in shim/src/shim.c.  Whether the     *)
(* call will succeed is chosen when it is issued; the enumeration runs     *)
(* over the finished trace and knows it anyway.                            *)
(*                                                                         *)
(* The filesystem (external) is docs/model.md with the flags of            *)
(* graph/models.ts: it writes performed mutations back one at a time, or   *)
(* as far as a sector boundary, in the orders the model keeps, and         *)
(* performs a persistence call when what that call persists is on disk.    *)
(* What is on disk in any state of this specification is what a power      *)
(* failure at that instant would leave.  An operation is on disk when its  *)
(* bytes or its name are; how long a file is beyond them is not            *)
(* represented, and neither is a directory that is itself fsynced.         *)
(***************************************************************************)
EXTENDS Persistence

CONSTANTS
    Threads,      \* threads of the traced program
    Paths,        \* names of files
    DirectoryOf,  \* the directory each of them is in
    Ops,          \* the calls a thread may issue
    FsModels,     \* the filesystem models swept
    MaxEvents     \* bound on the length of the trace

Event == [call : CallName, path : Paths, path2 : Paths, len : Nat, ret : {-1, 0}]

ASSUME OpsAssumption == Ops \subseteq Event
ASSUME ModelsAssumption == FsModels \subseteq MODELS
ASSUME MaxEventsAssumption == MaxEvents \in Nat

VARIABLES
    model,        \* the filesystem model of this run
    events,       \* the calls issued so far, in submission order
    running,      \* the call each thread is in, 0 when it is in none
    file,         \* for each performed call, the file it acted on
    names,        \* the file each path names now
    bound,        \* every file each path has named so far
    returned,     \* the calls that have returned
    before,       \* <<j, i>>: j had returned when i was issued
    disk,         \* mutations that are on disk
    torn          \* at most one mutation that is on disk up to a sector

vars == <<model, events, running, file, names, bound, returned, before, disk, torn>>

Calls == 1..Len(events)
performed == DOMAIN file

(* A file is named after the path it first had and the call that freed     *)
(* that path, so a path used again names another file.                     *)
File == Paths \X (0..MaxEvents)

Torn == [op : 1..MaxEvents, bytes : Nat]

-----------------------------------------------------------------------------

Init ==
    /\ model \in FsModels
    /\ events = <<>>
    /\ running = [t \in Threads |-> 0]
    /\ file = <<>>
    /\ names = [p \in Paths |-> <<p, 0>>]
    /\ bound = [p \in Paths |-> {<<p, 0>>}]
    /\ returned = {}
    /\ before = {}
    /\ disk = {}
    /\ torn = {}

(* A call takes its submission stamp.                                      *)
Issue(t, op) ==
    /\ running[t] = 0
    /\ Len(events) < MaxEvents
    /\ events' = Append(events, op)
    /\ running' = [running EXCEPT ![t] = Len(events) + 1]
    /\ before' = before \cup (returned \X {Len(events) + 1})
    /\ UNCHANGED <<model, file, names, bound, returned, disk, torn>>

(* A call on a descriptor acts on the file its path named when the         *)
(* descriptor was opened; a call on a path acts on the file named now.     *)
DESCRIPTOR == PAYLOAD \cup PERSISTENCE \cup {"ftruncate", "close"}

Targets(e) == IF e.call \in DESCRIPTOR THEN bound[e.path] ELSE {names[e.path]}

(* What a performed call does to the names.                                *)
NamesAfter(i, e) ==
    IF e.call = "rename" /\ e.path # e.path2
    THEN [names EXCEPT ![e.path2] = names[e.path], ![e.path] = <<e.path, i>>]
    ELSE IF e.call = "link" THEN [names EXCEPT ![e.path2] = names[e.path]]
    ELSE IF e.call = "unlink" THEN [names EXCEPT ![e.path] = <<e.path, i>>]
    ELSE names

(* The kernel performs a call that is not a successful persistence call.   *)
Perform(t, f) ==
    LET i == running[t]
        e == events[i]
    IN  /\ i \in Calls \ performed
        /\ f \in Targets(e)
        /\ ~(Persists(e) /\ Succeeded(e))
        /\ file' = [k \in performed \cup {i} |-> IF k = i THEN f ELSE file[k]]
        /\ names' = IF Succeeded(e) THEN NamesAfter(i, e) ELSE names
        /\ bound' = [p \in Paths |-> bound[p] \cup {names'[p]}]
        /\ UNCHANGED <<model, events, running, returned, before, disk, torn>>

Applied == {j \in performed : Mutation(events[j]) /\ Succeeded(events[j])}

DIRECTORY == {"mkdir", "unlink", "link", "rename"}

(* What persistence call e persists of an operation on its file, as        *)
(* docs/model.md has it: bytes always; a size change through fsync only;   *)
(* the file's name through fsync where that persists directory entries.    *)
Forces(m, e, op) ==
    \/ op.call \in PAYLOAD
    \/ op.call \in NEEDS_EXISTING_FILE /\ e.call = "fsync"
    \/ op.call \in DIRECTORY /\ e.call = "fsync" /\ m.fsyncPersistsDirEntry

(* The kernel performs a persistence call: it is done when everything it   *)
(* persists of the file has been written back.                             *)
PerformSync(t, f) ==
    LET i == running[t]
        e == events[i]
    IN  /\ i \in Calls \ performed
        /\ f \in Targets(e)
        /\ Persists(e) /\ Succeeded(e)
        /\ \A j \in Applied : (file[j] = f /\ Forces(model, e, events[j])) => j \in disk
        /\ file' = [k \in performed \cup {i} |-> IF k = i THEN f ELSE file[k]]
        /\ UNCHANGED <<model, events, running, names, bound, returned, before, disk, torn>>

(* Mutant: the completion stamp is taken before the real call.             *)
ReturnEarly(t) ==
    /\ running[t] # 0
    /\ returned' = returned \cup {running[t]}
    /\ running' = [running EXCEPT ![t] = 0]
    /\ UNCHANGED <<model, events, file, names, bound, before, disk, torn>>

(* A performed call takes its completion stamp and returns.                *)
Return(t) ==
    /\ running[t] \in performed
    /\ returned' = returned \cup {running[t]}
    /\ running' = [running EXCEPT ![t] = 0]
    /\ UNCHANGED <<model, events, file, names, bound, before, disk, torn>>

(* The directories a call writes to.                                       *)
Touched(e) ==
    {DirectoryOf[p] : p \in IF e.call \in {"rename", "link"} THEN {e.path, e.path2} ELSE {e.path}}

(* The orders of docs/model.md: whether i waits for the earlier j.  Data   *)
(* journaling keeps every order; directory operations reorder only where   *)
(* the model says so, and then only if they share no directory; an append  *)
(* precedes a rename of its file where the model says so.                  *)
MustPrecede(j, i) ==
    \/ model.totalOrder
    \/ /\ {events[j].call, events[i].call} \subseteq DIRECTORY
       /\ model.reordersDirectoryOps => Touched(events[j]) \cap Touched(events[i]) # {}
    \/ /\ model.orderedAppendRename
       /\ events[j].call \in PAYLOAD /\ events[i].call = "rename" /\ file[j] = file[i]

(* What S, the operations on disk, must hold before i can join them.       *)
Writable(i, S) ==
    LET earlier == {j \in Applied : j < i}
        sameFile == {j \in earlier : file[j] = file[i]}
    IN  /\ \A j \in earlier : MustPrecede(j, i) => j \in S
        /\ events[i].call \in NEEDS_EXISTING_FILE =>
               (sameFile = {} \/ sameFile \cap S # {})

Writeback(i) ==
    /\ i \in Applied \ disk
    /\ Writable(i, disk)
    /\ disk' = disk \cup {i}
    /\ torn' = {w \in torn : w.op # i}
    /\ UNCHANGED <<model, events, running, file, names, bound, returned, before>>

BLOCK_BYTES == 4096

(* maxTornOpsPerState is 1: one operation is torn at a time.               *)
Tear(i, b) ==
    /\ TornWrites
    /\ torn = {}
    /\ i \in Applied \ disk
    /\ Writable(i, disk)
    /\ b \in StrictSectorPrefixes(events[i])
    /\ model.atomicBlockOverwrite => b % BLOCK_BYTES = 0
    /\ torn' = {[op |-> i, bytes |-> b]}
    /\ UNCHANGED <<model, events, running, file, names, bound, returned, before, disk>>

Next ==
    \/ \E t \in Threads, op \in Ops : Issue(t, op)
    \/ \E t \in Threads, f \in File : Perform(t, f)
    \/ \E t \in Threads, f \in File : PerformSync(t, f)
    \/ \E t \in Threads : Return(t)
    \/ \E i \in Applied : Writeback(i)
    \/ \E i \in Applied : \E b \in StrictSectorPrefixes(events[i]) : Tear(i, b)

Spec == Init /\ [][Next]_vars

-----------------------------------------------------------------------------

(* Every variable has its type, calls are performed before they return,    *)
(* and only successful mutations reach the disk.                           *)
TypeOK ==
    /\ model \in FsModels
    /\ events \in Seq(Event)
    /\ Len(events) <= MaxEvents
    /\ running \in [Threads -> Nat]
    /\ \A t \in Threads : running[t] \in 0..Len(events)
    /\ performed \subseteq Calls
    /\ returned \subseteq performed
    /\ file \in [performed -> File]
    /\ names \in [Paths -> File]
    /\ bound \in [Paths -> SUBSET File]
    /\ before \subseteq Calls \X Calls
    /\ disk \subseteq Applied
    /\ torn \subseteq [op : Applied, bytes : Nat]

(* docs/model.md: "A returned fsync or fdatasync is a durability floor."   *)
(* A mutation that had returned when a later successful persistence call   *)
(* on the same path was issued is in every state enumerated at or after    *)
(* that call, however many threads are running.                            *)
DurabilityFloor ==
    \A w \in before :
        /\ Mutation(events[w[1]])
        /\ Persists(events[w[2]])
        /\ Succeeded(events[w[2]])
        /\ events[w[1]].path = events[w[2]].path
        => \A cp \in w[2]..Len(events) :
               \A st \in StatesAt(events, cp, model) : w[1] \in st.persisted

(* Where pinnedBy's reading of a path as a file is exact.                  *)
OneNamePerFile ==
    \A i, j \in performed : events[i].path = events[j].path <=> file[i] = file[j]

NoFailurePinned == PinnedBy(events, Len(events)) \subseteq Performed(events, Len(events))

(* The crash points the current instant belongs to: the last call issued,  *)
(* and the one before it while the last has not been performed.            *)
CrashPoints == {cp \in {Len(events) - 1, Len(events)} : cp >= 1}

WindowHolds == \A cp \in CrashPoints : Older(events, cp) \subseteq disk

(* Call i is a successful persistence call on the path of the mutation j.  *)
SyncOf(i, j) ==
    /\ Persists(events[i]) /\ Succeeded(events[i])
    /\ Mutation(events[j]) /\ j < i
    /\ events[j].path = events[i].path

(* Where a persistence call persists every earlier mutation of its path,   *)
(* by itself or with another.  The filesystem may persist less: not a      *)
(* rename through fsync on xfs and btrfs, and not a size change through    *)
(* fdatasync.                                                              *)
SyncsForce ==
    \A cp \in CrashPoints : \A i, j \in 1..cp :
        SyncOf(i, j) => \E k \in 1..cp : SyncOf(k, j) /\ Forces(model, events[k], events[j])

InDomain == events # <<>> /\ OneNamePerFile /\ NoFailurePinned /\ WindowHolds /\ SyncsForce

Enumerated ==
    \E cp \in CrashPoints : CrashState(cp, disk, torn) \in StatesAt(events, cp, model)

(* What the disk holds at any instant is enumerated for the trace.  Left   *)
(* out by name are the bounds (the window, one torn operation, and torn    *)
(* operations under data journaling, which the code does not enumerate)    *)
(* and the traces on which the code's floor is not the filesystem's: there *)
(* the disk can be in states nobody enumerates.                            *)
Covered == (InDomain /\ (model.totalOrder => torn = {})) => Enumerated

(* What performed persistence calls have put on disk, one thread running.  *)
Forced ==
    {j \in Applied : \E i \in performed :
        /\ Persists(events[i]) /\ Succeeded(events[i])
        /\ j < i /\ file[j] = file[i] /\ Forces(model, events[i], events[j])}

(* enumerateCrashStates reads totalOrder and no other flag.  The others do *)
(* not matter where whatever must come first is in every state anyway.     *)
OrderIsGiven ==
    model.totalOrder \/
        {j \in Applied : \E i \in Applied : j < i /\ MustPrecede(j, i)}
            \subseteq AlwaysPresent(events, Len(events))

(* No state is enumerated that the filesystem could not leave behind: what *)
(* was forced to disk is there, the rest of it could have been written     *)
(* back in some order, and what is torn could have been next.  A state     *)
(* outside this set would be reported against a correct target.  Traces on *)
(* which an unread flag makes a difference are left out by OrderIsGiven;   *)
(* there such states are enumerated.                                       *)
OnlyProducible ==
    (performed = Calls /\ OneNamePerFile /\ NoFailurePinned /\ OrderIsGiven)
    => \A st \in StatesAt(events, Len(events), model) :
           /\ Forced \subseteq st.persisted
           /\ st.persisted \subseteq Applied
           /\ \A i \in st.persisted : Writable(i, st.persisted)
           /\ \A w \in st.partial :
                  /\ w.op \in Applied \ st.persisted
                  /\ Writable(w.op, st.persisted)
                  /\ w.bytes < events[w.op].len

=============================================================================
