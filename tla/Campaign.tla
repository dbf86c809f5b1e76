------------------------------ MODULE Campaign ------------------------------
(***************************************************************************)
(* A traced key-value workload and the campaign over its trace.            *)
(*                                                                         *)
(* Drivers put one value each, by one of the update protocols of the       *)
(* repository's targets, and write a marker on either side of it.  Calls   *)
(* and markers draw stamps from one counter.  Then runCampaign takes the   *)
(* sampled states one after another: it materializes an image, runs the    *)
(* target's recovery in it, asks the oracle, and folds the violations into *)
(* findings.  Recovery is recoverFileKv: a value is whatever the file of   *)
(* that name holds.                                                        *)
(***************************************************************************)
EXTENDS Persistence, Oracle, Replay

CONSTANTS
    NumOperations,   \* how many operations are driven
    Concurrent,      \* whether drivers run in threads of their own
    Protocols,       \* the update protocols a driver may use
    Announced,       \* whether operations are announced durable: a set of BOOLEAN
    KeyOf,           \* the key each operation puts
    Tmp, Dir,        \* the scratch file of each operation, the directory
    FsModels,        \* the filesystem models swept
    MaxTested,       \* bound on the number of states tested
    HostFailures     \* whether mkfs, losetup, mount or umount may fail

ASSUME CampaignAssumption ==
    /\ NumOperations \in Nat
    /\ FsModels \subseteq MODELS
    /\ MaxTested \in Nat
    /\ Announced \subseteq BOOLEAN
    /\ {Concurrent, HostFailures} \subseteq BOOLEAN

Operations == 1..NumOperations

VARIABLES
    model,      \* the filesystem model
    protocol,   \* the protocol of each operation
    durable,    \* whether each operation is announced durable
    pc,         \* the next step of each operation
    stamp,      \* the shared counter
    events,     \* trace.events
    owner,      \* the operation each event belongs to
    markers,    \* trace.markers
    phase,      \* what runs: the drivers, or a stage of the campaign
    queue,      \* the sampled states
    tested,     \* statesTested
    images,     \* the image files on disk, by the number in their name
    recovery,   \* what the target's recovery said
    findings    \* the findings, by signature

vars == <<model, protocol, durable, pc, stamp, events, owner, markers, phase,
          queue, tested, images, recovery, findings>>

driverVars == <<protocol, durable, pc, stamp, events, owner, markers>>

-----------------------------------------------------------------------------
(* The drivers.                                                            *)

(* targets/unsafe-kv/main.c: nothing is synced.                            *)
unsafeKv == <<"begin", "open", "write", "close", "rename", "ack">>

(* An append to a file that exists, synced before the ack: what SQLite     *)
(* does to its WAL at synchronous=FULL.                                    *)
syncedInPlace == <<"begin", "put", "sync", "ack", "close">>

(* The replacement of a file in integration/trace.test.ts, its opens left  *)
(* out: the file synced, renamed, and then the directory synced.           *)
syncedRename == <<"begin", "write", "syncTmp", "rename", "syncDir", "ack", "close">>

ValueBytes == 1024

Value(o) == CASE o = 1 -> "v1" [] o = 2 -> "v2" [] OTHER -> "v3"

Call(o, name, path, path2, len) ==
    [call |-> name, path |-> path, path2 |-> path2, off |-> 0, len |-> len, ret |-> 0,
     stamp |-> stamp, value |-> Value(o)]

(* The call a step of the protocol makes.                                  *)
StepCall(o, step) ==
    CASE step = "open"    -> Call(o, "open", Tmp[o], Tmp[o], 0)
      [] step = "write"   -> Call(o, "write", Tmp[o], Tmp[o], ValueBytes)
      [] step = "put"     -> Call(o, "pwrite", KeyOf[o], KeyOf[o], ValueBytes)
      [] step = "close"   -> Call(o, "close", Tmp[o], Tmp[o], 0)
      [] step = "rename"  -> Call(o, "rename", Tmp[o], KeyOf[o], 0)
      [] step = "sync"    -> Call(o, "fdatasync", KeyOf[o], KeyOf[o], 0)
      [] step = "syncTmp" -> Call(o, "fsync", Tmp[o], Tmp[o], 0)
      [] step = "syncDir" -> Call(o, "fsync", Dir, Dir, 0)

StepMarker(o, step) ==
    [index |-> stamp, phase |-> step, op |-> o, key |-> KeyOf[o],
     digest |-> IF step = "ack" THEN Value(o) ELSE "",
     durable |-> step = "ack" /\ durable[o]]

Init ==
    /\ model \in FsModels
    /\ protocol \in [Operations -> Protocols]
    /\ durable \in [Operations -> Announced]
    /\ pc = [o \in Operations |-> 1]
    /\ stamp = 0
    /\ events = <<>>
    /\ owner = <<>>
    /\ markers = <<>>
    /\ phase = "drive"
    /\ queue = <<>>
    /\ tested = 0
    /\ images = [i \in {} |-> {}]
    /\ recovery = [status |-> "none"]
    /\ findings = [s \in {} |-> {}]

Finished(o) == pc[o] > Len(protocol[o])

(* One step of one driver: it stamps a marker or a call.                   *)
Drive(o) ==
    LET step == protocol[o][pc[o]]
    IN  /\ phase = "drive"
        /\ ~Finished(o)
        /\ Concurrent \/ \A p \in Operations : p < o => Finished(p)
        /\ pc' = [pc EXCEPT ![o] = @ + 1]
        /\ stamp' = stamp + 1
        /\ IF step \in {"begin", "ack"}
           THEN /\ markers' = Append(markers, StepMarker(o, step))
                /\ UNCHANGED <<events, owner>>
           ELSE /\ events' = Append(events, StepCall(o, step))
                /\ owner' = Append(owner, o)
                /\ UNCHANGED markers
        /\ UNCHANGED <<model, protocol, durable, phase, queue, tested, images, recovery, findings>>

-----------------------------------------------------------------------------
(* The campaign.                                                           *)

AllStates == UNION {StatesAt(events, cp, model) : cp \in DOMAIN events}

(* Sampling keeps any states, in ascending order of crash point.           *)
StartCampaign ==
    /\ phase = "drive"
    /\ \A o \in Operations : Finished(o)
    /\ \E n \in 0..MaxTested :
         \E q \in [1..n -> AllStates] :
            /\ \A k, l \in 1..n : k < l => /\ q[k] # q[l]
                                           /\ q[k].crashPoint <= q[l].crashPoint
            /\ queue' = q
    /\ phase' = "materialize"
    /\ UNCHANGED <<model, driverVars, tested, images, recovery, findings>>

Current == queue[tested + 1]

(* createImage: a file of its own for this state, and an empty filesystem. *)
CreateImage ==
    /\ phase = "materialize" /\ tested < Len(queue)
    /\ images' = [i \in DOMAIN images \cup {tested + 1} |->
                    IF i = tested + 1
                    THEN [fs |-> EmptyFs(Len(events)), state |-> Current]
                    ELSE images[i]]
    /\ phase' = "populate"
    /\ UNCHANGED <<model, driverVars, queue, tested, recovery, findings>>

(* replaySelection inside the mount.  A call that throws ends the campaign.*)
Populate ==
    LET fs == ReplaySelection(events, Current)
    IN  /\ phase = "populate"
        /\ images' = [images EXCEPT ![tested + 1].fs = fs]
        /\ phase' = IF fs.ok THEN "recover" ELSE "aborted"
        /\ UNCHANGED <<model, driverVars, queue, tested, recovery, findings>>

(* recoverFileKv: a value is whatever file bears its name; the digest of   *)
(* anything but a whole value is no value's digest.                        *)
DigestOf(content) ==
    IF \E o \in Operations : content = [k \in 1..Sectors(ValueBytes) |-> Value(o)]
    THEN content[1] ELSE "other"

RecoverFileKv(fs) ==
    [status |-> "opened", integrityOk |-> TRUE,
     values |-> [k \in {p \in {KeyOf[o] : o \in Operations} : fs.names[p] # 0} |->
                   DigestOf(Content(fs, k))]]

(* Mutant: the oldest image on disk is recovered from.                     *)
RecoverEvidence ==
    /\ phase = "recover"
    /\ recovery' = RecoverFileKv(images[CHOOSE i \in DOMAIN images :
                                          \A j \in DOMAIN images : i <= j].fs)
    /\ phase' = "judge"
    /\ UNCHANGED <<model, driverVars, queue, tested, images, findings>>

(* The target runs inside the mounted image.  What recovery writes to it   *)
(* is not kept: nothing reads the image again.                             *)
Recover ==
    /\ phase = "recover"
    /\ recovery' = RecoverFileKv(images[tested + 1].fs)
    /\ phase' = "judge"
    /\ UNCHANGED <<model, driverVars, queue, tested, images, findings>>

(* mkfs, losetup, mount or umount fails: the exception leaves runCampaign. *)
HostFails ==
    /\ HostFailures
    /\ phase \in {"populate", "recover"}
    /\ phase' = "aborted"
    /\ UNCHANGED <<model, driverVars, queue, tested, images, recovery, findings>>

CrashStamp(st) == events[st.crashPoint].stamp

Violations(st, rec) == CheckOracle(CrashStamp(st), ParseAckLog(markers), rec)

(* The record behind a violation, or a stand-in for one that names none.   *)
OperationOf(v) ==
    LET log == ParseAckLog(markers)
    IN  IF \E a \in log : a.op = v.op THEN CHOOSE a \in log : a.op = v.op
        ELSE [op |-> -1, key |-> "", digest |-> "", beganAt |-> 0,
              acknowledgedAt |-> v.crashStamp, durable |-> FALSE]

Sig(v, st) == SignatureOf(v, st, events, OperationOf(v))

(* The violations of one state that carry signature s, and the one the     *)
(* oracle reports first: it follows the log, which is in order of beginning*)
WithSignature(st, rec, s) == {v \in Violations(st, rec) : Sig(v, st) = s}

FirstOf(vs) ==
    CHOOSE v \in vs : \A w \in vs : OperationOf(v).beganAt <= OperationOf(w).beganAt

(* Mutant: a known signature takes over the newer violation.               *)
FoldLatest(found, st, rec, image) ==
    LET now == {Sig(v, st) : v \in Violations(st, rec)}
        count(s) == Cardinality(WithSignature(st, rec, s))
        first(s) == FirstOf(WithSignature(st, rec, s))
    IN  [s \in DOMAIN found \cup now |->
           IF s \notin now THEN found[s]
           ELSE IF s \in DOMAIN found
           THEN [found[s] EXCEPT !.occurrences = @ + count(s), !.violation = first(s)]
           ELSE [violation |-> first(s), occurrences |-> count(s), state |-> st, image |-> image]]

(* Mutant: a new finding starts with no occurrence.                        *)
FoldFromZero(found, st, rec, image) ==
    LET now == {Sig(v, st) : v \in Violations(st, rec)}
        count(s) == Cardinality(WithSignature(st, rec, s))
    IN  [s \in DOMAIN found \cup now |->
           IF s \notin now THEN found[s]
           ELSE IF s \in DOMAIN found THEN [found[s] EXCEPT !.occurrences = @ + count(s)]
           ELSE [violation |-> FirstOf(WithSignature(st, rec, s)), occurrences |-> count(s) - 1,
                 state |-> st, image |-> image]]

(* Every violation of the state, folded into the findings: the first state *)
(* to show a signature is kept, every later violation is counted.          *)
FoldFindings(found, st, rec, image) ==
    LET now == {Sig(v, st) : v \in Violations(st, rec)}
        count(s) == Cardinality(WithSignature(st, rec, s))
    IN  [s \in DOMAIN found \cup now |->
           IF s \notin now THEN found[s]
           ELSE IF s \in DOMAIN found THEN [found[s] EXCEPT !.occurrences = @ + count(s)]
           ELSE [violation |-> FirstOf(WithSignature(st, rec, s)), occurrences |-> count(s),
                 state |-> st, image |-> image]]

(* Mutant: the image is deleted whatever was found in it.                  *)
RemoveAll(found, image) == DOMAIN images \ {image}

(* An image that no finding points at is deleted.                          *)
KeptImages(found, image) ==
    IF \E s \in DOMAIN found : found[s].image = image THEN DOMAIN images
    ELSE DOMAIN images \ {image}

Judge ==
    /\ phase = "judge"
    /\ findings' = FoldFindings(findings, Current, recovery, tested + 1)
    /\ images' = [i \in KeptImages(findings', tested + 1) |-> images[i]]
    /\ tested' = tested + 1
    /\ phase' = "materialize"
    /\ UNCHANGED <<model, driverVars, queue, recovery>>

FinishCampaign ==
    /\ phase = "materialize" /\ tested = Len(queue)
    /\ phase' = "done"
    /\ UNCHANGED <<model, driverVars, queue, tested, images, recovery, findings>>

Ended ==
    /\ phase \in {"done", "aborted"}
    /\ UNCHANGED vars

Next ==
    \/ \E o \in Operations : Drive(o)
    \/ StartCampaign
    \/ CreateImage
    \/ Populate
    \/ Recover
    \/ HostFails
    \/ Judge
    \/ FinishCampaign
    \/ Ended

Spec == Init /\ [][Next]_vars

-----------------------------------------------------------------------------

(* Types, and a campaign never counts more states than it was given.       *)
TypeOK ==
    /\ model \in FsModels
    /\ pc \in [Operations -> Nat]
    /\ stamp = Len(events) + Len(markers)
    /\ Len(owner) = Len(events)
    /\ phase \in {"drive", "materialize", "populate", "recover", "judge", "done", "aborted"}
    /\ tested \in 0..Len(queue)
    /\ DOMAIN images \subseteq 1..Len(queue)
    /\ \A s \in DOMAIN findings : findings[s].occurrences \in Nat \ {0}

(* campaign.ts: "The image behind the first state to produce each          *)
(* signature is kept; the rest are overwritten."  The images on disk are   *)
(* the ones findings point at, each built from the state its finding       *)
(* shows, and the one being worked on; an exception leaves no more.        *)
EvidenceKept ==
    LET evidence == {findings[s].image : s \in DOMAIN findings}
        inHand == IF phase \in {"populate", "recover", "judge", "aborted"} THEN {tested + 1} ELSE {}
    IN  /\ DOMAIN images = evidence \cup inHand
        /\ \A s \in DOMAIN findings : images[findings[s].image].state = findings[s].state

(* How far the state in hand is, by what is in its image and in the answer *)
(* of recovery, whatever the phase says.                                   *)
Stage ==
    LET image == images[tested + 1]
        whole == ReplaySelection(events, Current)
    IN  CASE phase = "drive" -> "idle"
          [] phase \in {"materialize", "done"} -> "next"
          [] phase = "aborted" -> "stopped"
          [] phase = "populate" /\ image = [fs |-> EmptyFs(Len(events)), state |-> Current] -> "made"
          [] phase = "recover" /\ image = [fs |-> whole, state |-> Current] -> "whole"
          [] phase = "judge" /\ recovery = RecoverFileKv(whole) -> "recovered"
          [] OTHER -> "mixed up"

Loop == INSTANCE StateTesting WITH left <- Len(queue) - tested, stage <- Stage

(* campaign.ts: each state is judged once, in order, by what recovery says *)
(* of an image that holds exactly that state and nothing of another.       *)
TestsStates == Loop!Safety

(* A finding can be shown again: replaying the state it kept and asking    *)
(* the oracle gives its violation, under its signature.                    *)
FindingsReproduce ==
    \A s \in DOMAIN findings :
        LET f == findings[s]
            fs == ReplaySelection(events, f.state)
        IN  f.violation \in WithSignature(f.state, RecoverFileKv(fs), s)

(* Where the markers of operation o are, and the calls of others between.  *)
MarkerStamp(o, kind) == (CHOOSE m \in {markers[k] : k \in DOMAIN markers} : m.op = o /\ m.phase = kind).index

Intruders(o) ==
    {i \in DOMAIN events : /\ owner[i] # o /\ Mutation(events[i])
                           /\ MarkerStamp(o, "begin") < events[i].stamp
                           /\ events[i].stamp < MarkerStamp(o, "ack")}

(* dedup.ts: a signature is "built from the earliest operation the         *)
(* acknowledgement depended on that the state did not persist".  A loss is *)
(* put down to a call of the operation that was lost, one the state lacks, *)
(* whatever else it lacks of operations that came before or go on around   *)
(* it; unless somebody else's call fell between its two markers, because a *)
(* signature goes by time.                                                 *)
BlamesItsOwn ==
    \A s \in DOMAIN findings :
        LET f == findings[s]
            o == f.violation.op
        IN  Intruders(o) = {} =>
              \E i \in DOMAIN events :
                 /\ owner[i] = o
                 /\ i \notin f.state.persisted \/ \E w \in f.state.partial : w.op = i
                 /\ s[2].call = events[i].call /\ s[2].path = events[i].path

(* No operation is reported lost that was not announced durable, or whose  *)
(* bytes were synced under their own path before it was announced.         *)
OnlyBrokenPromises ==
    \A s \in DOMAIN findings :
        LET o == findings[s].violation.op
        IN  durable[o] /\ protocol[o] # syncedInPlace

(* The trace is complete: every state of it could be tested next.          *)
Traced == phase = "drive" /\ \A o \in Operations : Finished(o)

(* The positive control: an operation announced durable without a sync is  *)
(* reported lost in some state of the first crash point after the          *)
(* announcement, unless the filesystem orders everything.                  *)
UnsafeIsExposed ==
    (Traced /\ ~model.totalOrder) =>
        \A a \in ParseAckLog(markers) :
            LET later == {i \in DOMAIN events : events[i].stamp > a.acknowledgedAt}
            IN  (a.durable /\ protocol[a.op] = unsafeKv /\ later # {}) =>
                  \E st \in StatesAt(events, CHOOSE i \in later : \A j \in later : i <= j, model) :
                    \E v \in Violations(st, RecoverFileKv(ReplaySelection(events, st))) : v.op = a.op

(* Between materialization and the oracle nothing is hidden or invented:   *)
(* of the operations announced durable by the crash point, each on a key   *)
(* of its own, those reported lost are those with a mutation the state     *)
(* does not hold whole, torn ones included.                                *)
LossIsExact ==
    Traced =>
        \A st \in AllStates :
            LET reported == {v.op : v \in Violations(st, RecoverFileKv(ReplaySelection(events, st)))}
                promised == {o \in Operations :
                               \E m \in DOMAIN markers : /\ markers[m].op = o /\ markers[m].durable
                                                         /\ markers[m].index < CrashStamp(st)}
            IN  reported = {o \in promised :
                              \E i \in DOMAIN events :
                                 owner[i] = o /\ Mutation(events[i]) /\ i \notin st.persisted}

(* integration/trace.test.ts: "The directory fsync is what makes the       *)
(* rename durable."  A replacement that syncs file and directory is never  *)
(* reported.                                                               *)
SyncedRenameIsSafe ==
    \A s \in DOMAIN findings : protocol[findings[s].violation.op] # syncedRename

=============================================================================
