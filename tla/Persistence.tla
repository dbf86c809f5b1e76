---------------------------- MODULE Persistence ----------------------------
(***************************************************************************)
(* What a crash may leave on disk, as core/src/enumerate/states.ts decides *)
(* it.  A trace is a sequence of events; an operation is its position in   *)
(* that sequence (1-based here, 0-based in the code) and a crash state is  *)
(* the set of operations it holds whole, with at most one more held as a   *)
(* sector-aligned prefix.  The code keeps `persisted' as a sorted array    *)
(* whose consumers (replaySelection, earliestMissing) turn it into a set.  *)
(*                                                                         *)
(* Only the sign of a return value matters to the code, so an event has    *)
(* ret = 0 or ret = -1.                                                    *)
(***************************************************************************)
EXTENDS Integers, Sequences, FiniteSets

CONSTANTS
    MaxUnpersistedWindow,  \* bounds.jsonc, the enumerated window
    TornWrites             \* bounds.jsonc, whether prefixes are enumerated

ASSUME WindowAssumption == MaxUnpersistedWindow \in Nat
ASSUME TornAssumption == TornWrites \in BOOLEAN

SECTOR_BYTES == 512

-----------------------------------------------------------------------------
(* Calls, trace/reader.ts.                                                 *)

MUTATING == {"write", "pwrite", "writev", "truncate", "ftruncate",
             "mkdir", "unlink", "link", "rename"}

PERSISTENCE == {"fsync", "fdatasync", "sync_file_range"}

NEEDS_EXISTING_FILE == {"truncate", "ftruncate"}

PAYLOAD == {"write", "pwrite", "writev"}

CallName == MUTATING \cup PERSISTENCE \cup {"open", "close"}

Mutation(e) == e.call \in MUTATING
Persists(e) == e.call \in PERSISTENCE
Succeeded(e) == e.ret >= 0

-----------------------------------------------------------------------------
(* Filesystem models, graph/models.ts.                                     *)

ext4Ordered == [name |-> "ext4-ordered", totalOrder |-> FALSE,
                orderedAppendRename |-> TRUE, fsyncPersistsDirEntry |-> TRUE,
                atomicBlockOverwrite |-> FALSE, reordersDirectoryOps |-> FALSE]

ext4Journal == [name |-> "ext4-journal", totalOrder |-> TRUE,
                orderedAppendRename |-> TRUE, fsyncPersistsDirEntry |-> TRUE,
                atomicBlockOverwrite |-> TRUE, reordersDirectoryOps |-> FALSE]

xfs == [name |-> "xfs", totalOrder |-> FALSE,
        orderedAppendRename |-> FALSE, fsyncPersistsDirEntry |-> FALSE,
        atomicBlockOverwrite |-> FALSE, reordersDirectoryOps |-> FALSE]

btrfs == [name |-> "btrfs", totalOrder |-> FALSE,
          orderedAppendRename |-> FALSE, fsyncPersistsDirEntry |-> FALSE,
          atomicBlockOverwrite |-> FALSE, reordersDirectoryOps |-> TRUE]

MODELS == {ext4Ordered, ext4Journal, xfs, btrfs}

-----------------------------------------------------------------------------
(* One crash point cp of the trace es: cp is the last operation issued.    *)

(* Mutant: the persistence call at the crash point itself is not counted.  *)
PinnedByEarly(es, cp) ==
    {j \in 1..cp : /\ Mutation(es[j])
                   /\ \E i \in (j+1)..(cp-1) : /\ Persists(es[i])
                                               /\ Succeeded(es[i])
                                               /\ es[j].path = es[i].path}

(* Mutant: a failed persistence call pins as if it had succeeded.          *)
PinnedByFailed(es, cp) ==
    {j \in 1..cp : /\ Mutation(es[j])
                   /\ \E i \in (j+1)..cp : /\ Persists(es[i])
                                           /\ es[j].path = es[i].path}

(* What a successful persistence call forces to be present: every earlier  *)
(* mutation recorded under the same path, whether or not it succeeded.     *)
PinnedBy(es, cp) ==
    {j \in 1..cp : /\ Mutation(es[j])
                   /\ \E i \in (j+1)..cp : /\ Persists(es[i])
                                           /\ Succeeded(es[i])
                                           /\ es[j].path = es[i].path}

(* Mutations that succeeded, and the ones among them nothing pins.         *)
Performed(es, cp) == {i \in 1..cp : Mutation(es[i]) /\ Succeeded(es[i])}

Free(es, cp) == Performed(es, cp) \ PinnedBy(es, cp)

(* How many free operations are more recent than i.                        *)
Younger(es, cp, i) == Cardinality({j \in Free(es, cp) : j > i})

(* free.slice(-W): the W youngest, but slice(-0) is the whole array.       *)
Window(es, cp) ==
    {i \in Free(es, cp) : \/ MaxUnpersistedWindow = 0
                          \/ Younger(es, cp, i) < MaxUnpersistedWindow}

Older(es, cp) ==
    {i \in Free(es, cp) : Younger(es, cp, i) >= MaxUnpersistedWindow}

AlwaysPresent(es, cp) == PinnedBy(es, cp) \cup Older(es, cp)

Issued(es, cp) == AlwaysPresent(es, cp) \cup Window(es, cp)

(* Mutant: no state is filtered.                                           *)
ExistsAlways(es, S) == TRUE

(* A size change is on disk only if some earlier operation of its file is, *)
(* unless the file has no earlier operation and so predates the trace.     *)
ExistsOnDisk(es, S) ==
    \A k \in S :
        LET earlier == {j \in Performed(es, k - 1) : es[j].path = es[k].path}
        IN  (es[k].call \in NEEDS_EXISTING_FILE /\ earlier # {}) => earlier \cap S # {}

StrictSectorPrefixes(e) ==
    IF e.call \in PAYLOAD
    THEN {s * SECTOR_BYTES : s \in 1..(((e.len + 511) \div SECTOR_BYTES) - 1)}
    ELSE {}

CrashState(cp, S, partial) == [crashPoint |-> cp, persisted |-> S, partial |-> partial]

(* Data journaling: a prefix of what was issued that holds the floor.      *)
PrefixStates(es, cp) ==
    {CrashState(cp, S, {}) :
        S \in {T \in SUBSET Issued(es, cp) :
                 /\ AlwaysPresent(es, cp) \subseteq T
                 /\ \A i \in Issued(es, cp), j \in T : i < j => i \in T}}

(* Otherwise any subset of the window on top of the floor.                 *)
LegalSets(es, cp) ==
    {S \in {AlwaysPresent(es, cp) \cup M : M \in SUBSET Window(es, cp)} : ExistsOnDisk(es, S)}

TornOf(es, cp, S) ==
    IF TornWrites
    THEN UNION {{[op |-> i, bytes |-> b] : b \in StrictSectorPrefixes(es[i])} :
                   i \in Window(es, cp) \ S}
    ELSE {}

SubsetStates(es, cp) ==
    {CrashState(cp, S, {}) : S \in LegalSets(es, cp)}
        \cup UNION {{CrashState(cp, S, {t}) : t \in TornOf(es, cp, S)} : S \in LegalSets(es, cp)}

(* The states enumerateCrashStates emits for one crash point.              *)
StatesAt(es, cp, m) ==
    IF m.totalOrder THEN PrefixStates(es, cp) ELSE SubsetStates(es, cp)

=============================================================================
