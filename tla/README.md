# crashFuzz in TLA+

crashFuzz looks for crash-consistency bugs. It records the file I/O of a program,
works out which states of the disk a power failure could have left behind, builds
those states as real filesystem images, lets the program recover in each of them
and asks whether anything it had announced as durable is gone. Its verdicts are
only as good as three things that are hard to test: that the recorded trace says
what happened, that the enumerated states are the possible ones, and that nothing
is lost or invented between a state and a finding. The modules here are about those
three, and about what is done with findings in the end: the sweep that publishes them,
and the experiment that settled whether one of them can happen on a real disk.

## 1. The system

| Component | State it keeps | Operations | Interacts with |
|---|---|---|---|
| `shim/src/shim.c` | stamp counter, descriptor tables, per-thread `pending_flags`, payload store, trace file | every interposed call, `emit_marker`, `store_payload` | loaded into the target; writes the trace `parseTrace` reads |
| `trace/reader.ts` | none | `parseTrace` | trace file to `Trace` |
| `enumerate/crash-points.ts` | none | `selectCrashPoints` | first stage of `runCampaign` |
| `enumerate/states.ts` | none | `pinnedBy`, `existsOnDisk`, `enumerateCrashStates` | second stage; parameterised by a filesystem model and the bounds |
| `enumerate/sample.ts` | none | `sampleStates` | third stage |
| `graph/models.ts` | four flag records | | read by `states.ts` (one of its five flags) |
| `trace/replay.ts` | a directory | `replaySelection`, `replayTrace` | fills an image; `replayTrace` is the CLI's check of a trace |
| `image/image.ts` | image files, mount directories, loop devices | `createImage`, `withMount`, `materializeState` | called per state by `runCampaign` |
| `oracle/acklog.ts`, `oracle/oracle.ts` | none | `parseAckLog`, `checkOracle` | markers and recovery result to violations |
| `oracle/dedup.ts` | none | `signatureOf` | violation to the key of a finding |
| `oracle/recover.ts` | none | `recoverFileKv`, `queryTarget` | runs the target in a mounted image |
| `campaign/campaign.ts` | findings, images on disk | `runCampaign` | drives all of the above |
| `oracle/reproducer.ts` | an artifact directory | `tracePrefix`, `writeReproducer` | packages a finding |
| `targets/*` | files and a marker file, an operation counter | update loops, query tools | traced by the shim; queried on an image |
| `core/tools/campaign-run.ts`, `campaign/sweep.ts`, `campaign/results.ts` | findings directory, `campaign.csv`, `results.md` | `sweepPlan`, `captureTrace`, `resultsTable`, `main` | a campaign per filesystem and shape, an artifact per finding, two reports |
| `core/tools/ftruncate-vs-overwrite.ts` | an image and a copy of it | `writebackWaitIsSufficient`, `runExperiment`, `interpretObservation` | `withMount`; races the kernel's flusher and commit timer |
| `index.ts`, `core/tools/state-explosion.ts`, `core/tools/tdd-report.ts`, `targets.ts`, `bounds.ts` | none | CLI, reports, builds, constants | outside of the model (section 5) |

What is hard about it:

* **Concurrency.** The shim runs unlocked in every thread of the target: stamps,
  descriptor tables, offsets, payload objects and the trace file are shared. The
  enumerator reads a trace of overlapping calls as if it were a sequence.
* **Crashes.** The product is a set of crash states. Whether it is the right set is
  a statement about every instant of every execution, which no test of the tool can
  enumerate.
* **Failure.** Every host command of the image lifecycle can fail in the middle of
  nested `finally` blocks; traced calls can fail and still be pinned or replayed; a
  sweep can end anywhere and is run again on what it left.
* **Timing.** The experiment's answer rests on a sleep that has to outlast two kernel
  timers and stay short of a third, and on a copy of a mounted device.
* **Identity.** A path recorded at open stands for a file throughout.
* **Boundaries.** The window, the sample cap, the exhaustive bound and the torn-write
  bound each have an edge where they mean something else than they say.

`PROJECT.json` lists the hazards at their lines with the properties that cover them.

## 2. The modules

| Module | Models | Remarks |
|---|---|---|
| `Persistence` | `states.ts`, `models.ts` | operators only: the states of one crash point as a set |
| `CrashSpace` | a traced program over a filesystem | extends `Persistence`; the filesystem is external, from `docs/model.md` |
| `CrashSpaceProofs` | | theorems about `CrashSpace` |
| `Enumerate` | `parseTrace`, `selectCrashPoints`, the loops of `enumerateCrashStates`, `sampleStates` | extends `Persistence`, whose sets the loops are compared with |
| `EnumerateProofs` | | theorems about `Enumerate` |
| `Replay` | `replay.ts` | operators; a recursive function over the records |
| `TraceFile` | the two readers of a trace file | operators |
| `Oracle` | `acklog.ts`, `oracle.ts`, `dedup.ts` | operators |
| `StateTesting` | what the loop of `runCampaign` promises about its states | abstract; implemented by `Image` and by `Campaign` |
| `Campaign` | the targets' update loops and `runCampaign` | composes `Persistence`, `Replay` and `Oracle`; implements `StateTesting` |
| `CampaignProofs` | | theorems about `Campaign` |
| `DatabaseTargets` | the redb and SQLite workloads, their query tools, and the oracle over arbitrary images | extends `Oracle`; the databases are external |
| `DatabaseProofs` | | theorems about `DatabaseTargets` |
| `Shim` | `shim.c` under threads | composes `Replay` and `TraceFile`; the kernel is external |
| `ShimProofs` | | theorems about `Shim` |
| `Image` | `image.ts` under failing commands | implements `StateTesting` |
| `ImageProofs` | | theorems about `Image` |
| `Sweep` | `campaign-run.ts`, `sweep.ts`, `results.ts`, `writeReproducer` | a campaign is one step and finds anything |
| `SweepProofs` | | theorems about `Sweep` |
| `WritebackExperiment` | `ftruncate-vs-overwrite.ts` | ext4 and the flusher are external |
| `WritebackProofs` | | theorems about `WritebackExperiment` |
| `MC*` | | values for the constants |

### State and actions against the code

**Persistence.** An operation is its position in the trace, 1-based where the code is
0-based. A crash state keeps the code's three fields; `persisted` is a set because
both of its readers make it one. `PinnedBy`, `ExistsOnDisk` and
`StrictSectorPrefixes` are the functions of those names. `Window` has the
`slice(-0)` case. `StatesAt` is what `enumerateCrashStates` returns for one crash
point, without its order.

**CrashSpace.** `Issue`, `Perform` (or `PerformSync`) and `Return` are the three
moments of a traced call: the submission stamp, the kernel's work, the completion
stamp. `Writeback` and `Tear` are the filesystem, which writes operations back in the
orders `docs/model.md` gives the model at hand (`MustPrecede`): all of them under data
journaling, appends before a rename on ext4, directory operations everywhere but across
directories on btrfs (`DirectoryOf`). `PerformSync` waits until what the call persists is
on disk (`Forces`): bytes always, a size change through `fsync` only, a name through
`fsync` on ext4. `disk` and `torn` are what a power failure at this instant would leave;
an operation is on disk when its bytes or its name are. `file` remembers
which file a call really acted on, so that the code's comparison of paths can be
judged: a descriptor opened before a rename still acts on the old file. `before`
remembers which calls had returned when another was issued.

**Enumerate.** One step per mask or prefix, in the code's order, because
`sampleStates` gives the first and the last state of a group a meaning. `unitHash`
is a fixed function of the seed nobody relies on, so its outcomes are chosen freely:
`lucky` for crash points, any set of positions for sampling. `Shl1` is `1 << n` on
32 bits. A sorted sequence is defined by how many elements are before each (`Sorted`)
and not by the library's sorting operators, which the provers cannot expand.

**Campaign.** `Drive` is one step of one driver: a marker or a call, each with the
next stamp. Three protocols: `unsafeKv` is the loop of `targets/unsafe-kv`,
`syncedInPlace` the shape of a committed put of the SQLite workload, `syncedRename`
the replacement protocol of `integration/trace.test.ts`. After that, `CreateImage`,
`Populate`, `Recover` and `Judge` are the body of the loop of `runCampaign`, and
`HostFails` is any command of it throwing. `StartCampaign` chooses any states in the
order of their crash points: what selection and sampling leave over is the subject
of `Enumerate`. What recovery writes to the image is not kept, since nothing in the
campaign reads the image again.

**StateTesting.** The abstract specification of the loop of `runCampaign`: each state
is made, populated, recovered from and judged, once and in this order, and an exception
ends the loop for good. `Stage` in `Image` and in `Campaign` is the refinement mapping.
`Image` reaches a stage by the commands of `image.ts`, of which any may fail; `Campaign`
by replay, recovery and the oracle on what a state holds.

**DatabaseTargets.** The writers of `workload.rs` and the loop of the SQLite workload:
`TakeOperation` is the shared `fetch_add`, `MarkBegin` and `MarkAck` the markers,
`BeginWrite` to `Commit` the transaction, which redb gives to one writer at a time.
`CloseDatabase` is `sqlite3_close`. Every traced call remembers what was on disk for
certain, what had been started and what had been acknowledged when it was issued
(`floor`, `started`, `acked`). `Crash` takes the finished trace, any of its calls and any
image; `LegalAt` says which images the database's promise allows there, and
`RecoverDatabase` is the query tool behind `queryTarget`.

**Shim.** A wrapper is split where another thread can see the difference: stamp,
real call, table update, payload creation, payload bytes, `lseek`, second stamp,
record, table clearing. `TargetCalls` is a correct program: it uses a descriptor only
between its open and its close. `Programs` says what a target is: its threads, the calls
it makes, and whether the kernel may fail one (`Failure`), cut a write short, or fail
`store_payload` in its own open or write (`StorePayload`, `FillPayload`), after which an
object is absent or stays partial and counts as stored with every later writer. `truth`
records where each call really went. Writes are two sectors, so that a short one is one.
The 64-bit and `*at` spellings are one call. A write to the marker file goes to the
kernel and leaves a marker record.

**Image.** One action per command of `withMount`, with `raised` for the exception on
its way through the two `finally` blocks and `stuck` for the one thing they cannot
make up for, a command of their own that fails. `Interrupt` is a kill: the process
installs no handler.

**Sweep.** `Start` to `WriteResults` are the statements of `main`, in its order and with
its two loops: `CaptureTrace` runs only for a shape without a trace, `WriteReproducer`
once per finding, `PushRow` when none is left. A campaign is one step and finds any set
of signatures. `Dies` is an exception or a kill anywhere; what was being deleted or
written is left in part, up to which of the files of an artifact exist. `RunAgain` is
the next sweep, in a process that knows nothing of the one before: `artifacts`, `csv`
and `results` are what survives.

**WritebackExperiment.** The steps of `runExperiment` for both arms, with `Throws` for a
command that fails, against a kernel that goes its own way: `Tick`, `Wake` (the flusher,
anywhere in its period), `WriteBackEarly` (memory pressure), `Commit` (the journal).
`expire` and `wakeup` are what `/proc/sys/vm` may say; `reorders` is what the tool is to
find out. `cp` reads the device in two parts with anything in between, because it copies
a mounted image. A unit of time is a centisecond.

## 3. What the runs show

### Properties that hold

| Run | Bounds | Shows |
|---|---|---|
| `MCSequential` | 1 thread, 4 calls out of 9 kinds, 2 files in 2 directories, 4 filesystem models, window 2, torn writes | what is enumerated is what a power failure can leave: no less (`Covered`), no more (`OnlyProducible`), each within the exclusions below, and never without the floor (`DurabilityFloor`) |
| `MCEnumerate` | every trace of up to 3 calls out of 6, every hash outcome, window 2, cap 3 | loops against sets, boundaries, cap, selection, termination |
| `MCCampaign` | 2 operations in sequence, 2 tested states, host failures, 2 filesystem models | evidence, reproducibility, implements `StateTesting` |
| `MCCampaignConcurrent` | 2 interleaved operations, torn writes, window 3 | losses are exact and blamed on the operation's own writes, no false report, and no unsafe acknowledgement missed |
| `MCDatabases` | 3 operations; redb with 1 writer with and without non-durable commits, or 2 contending writers; SQLite; errors, every crash point, every image | no false report, exact verdicts over the whole log, promises stand, the workloads end |
| `MCShim` | 1 thread with 5 calls of any kind, 2 files and the marker file, 2 payloads; 1 thread with 4 calls that fail or write less, the payload store's own included; 2 threads with 4 calls | offsets, markers and replay are right for one thread; stamps, the payload store (while its own calls work) and what a prefix keeps for two |
| `MCImage` | 6 images, every command fails, kills | nothing leaks unless cleanup itself fails, a leak ends the campaign, only whole states are recovered, implements `StateTesting` |
| `MCSweep` | 3 configurations, two of one filesystem, 2 shapes, campaigns that find nothing or two signatures, 2 sweeps, exceptions and kills anywhere | counted findings are packaged, one trace per shape, the reports of a sweep that ended agree with each other and with the artifacts |
| `MCWriteback` | a wait of 6 units, deadlines of 0 to 4, periods of 0 to 3, 2 units of slack | the wait suffices wherever the flusher is, the exit code answers the question on a quiet machine |

Why these bounds are enough for the questions asked. A durability question needs a
mutation, a persistence call, something between them and something after: four
calls. A window of 2 with four calls makes operations fall out of it. Three calls in
`MCEnumerate` give a group of up to eight states at a cap of 3, so that both ends, a
chosen middle and a dropped one all occur. Two tested states are what it takes for a
signature to be met again. Two operations are what it takes for one to be blamed, or
saved, by the other. Five calls of one thread are open, write, close, rename and
another open; two threads with four calls are two opens and a race between any two
calls after them. In `MCImage` six images allow a leak to be met by five more states.
In `MCSweep` two configurations of one filesystem tell the name of a configuration from
that of its filesystem, and a second sweep meets everything a first one can leave. In
`MCWriteback` the sums of deadline and period lie on both sides of the wait, so that the
check both passes and refuses, at its edge too.
`CrashSpace` and `Shim` do not check for deadlock, because a program may stop at any
time and the bound on its calls is ours; in the other modules a run that stops early
is an error and the check is on.

`Covered` is the central statement: the disk at any instant is one of the enumerated
states. It excludes, by name, what the bounds exclude: an operation older than the
window that is not on disk (`WindowHolds`), a second torn write, torn writes under
data journaling, a path that stands for two files (`OneNamePerFile`), a failed
operation that is pinned (`NoFailurePinned`) and a persistence call on a path that leaves
an earlier mutation of it unpersisted (`SyncsForce`): a size change under `fdatasync`, a
rename or an unlink under the `fsync` of its path on xfs and btrfs. `OnlyProducible` is the converse and the
one that matters for false reports. It is about all four models, and leaves out the
traces on which an order the code does not read makes a difference (`OrderIsGiven`): a
write and then a rename of the file on ext4, two directory operations on any model but
data journaling, across directories on btrfs alone excepted, unless the first of the two
is in every state anyway. On what these exclusions leave out the code is listed below as
departing from its documents; without them nothing else could be said. Both readings
stop at operations: `docs/model.md:56-67` and `docs/findings.md:114-121` record that a
kept write past the end of a file gives it a length no ext4 leaves, and lengths are not
in the model.

`LossIsExact` is its counterpart for the second half of the tool: over every state of
a finished trace, the operations that materialization, recovery and the oracle report
lost are exactly those announced durable by the crash point of which the state misses
something. It is asked when the trace is complete, which is once per interleaving of
the drivers. `BlamesItsOwn` adds who is to blame: where nobody else's call lies between
an operation's begin and its acknowledgement, the signature names a write of its own.

`ReportedIsPackaged` and `PublishedAgree` are its counterpart for a sweep: a number in
the table stands for artifacts that exist, whole, of this sweep and of the right
filesystem and trace, whatever earlier sweeps left behind.

### Where the code and its documentation part

Each of these runs checks one sentence of the repository, and TLC finds a shortest
counterexample. The sentences and lines are in `PROJECT.json`.

| Run | What happens |
|---|---|
| `MCConcurrentCover` | an fsync that has been submitted and has not returned already pins |
| `MCSyncedRename` | pins go by path: a rename whose directory is synced stays free, and a correct replacement is reported lost |
| `MCShimFdReuse` | close forgets a descriptor another thread was just given |

The modules follow the code where it departs from its documentation in other places
too. These have no run of their own; a property that would meet one of them excludes
it by name, as said in its comment.

* A write under one name and an fsync under the name it was renamed to: the write stays
  free (`states.ts:72`; `OneNamePerFile`).
* A failed write is pinned by a later fsync and replayed (`states.ts:72`;
  `NoFailurePinned`).
* No torn states under data journaling (`states.ts:174`).
* Append-then-rename is not kept in order on ext4 (`models.ts:30` is not read;
  `OrderIsGiven`).
* Directory operations are reordered on ext4 and xfs, whose models say they do not, and
  within one directory on btrfs (`models.ts:33`, `:51` are not read; `model.md:26`;
  `OrderIsGiven`).
* A rename or an unlink is pinned by an `fsync` of its path on xfs and btrfs too
  (`states.ts:72`; `models.ts:49`, `:58` are not read; `model.md:25` and `:117`), and a
  size change by `fdatasync` (`states.ts:72`; `model.md:43-54` records it;
  `SyncsForce`). The creation of a file is no operation, so no state has a synced file
  without its directory entry (`states.ts:45` against `model.md:117`).
* A kept write past the end of a file extends it (`replay.ts:57`; `model.md:56-67`
  records it; not in the model).
* Torn states exceed the cap the comment gives (`bounds.jsonc:13`).
* The exhaustive bound counts calls, not operations (`crash-points.ts:38`).
* Traces with a failed fsync are analysed (`reader.ts:81` against `coverage.md:33`).
* Occurrences count violations, not states (`campaign.ts:138` against `:54`).
* The image kept as evidence is the one recovery wrote to (`campaign.ts:116`).
* The signature of an operation that overlaps another may name the other's write
  (`dedup.ts:64` against `dedup.ts:8`).
* Two threads that write on one descriptor are recorded at one offset (`shim.c:161`).
* Flags of a marker open leak onto the next record (`shim.c:373`).
* A record may name a payload that is still being written (`shim.c:227`).
* Replay writes to the old name of a file renamed while open, and ignores `O_TRUNC`
  (`replay.ts:57`, `:128`; `RenameWhileOpen`, `OpenFlags`).
* The reproducer's prefix keeps every marker, of operations after the crash point too
  (`reproducer.ts:67-73` against the comment at `:57`). Its calls are cut in completion
  order (`:70`): exact for one thread; with two, calls of the other thread, and the crash
  call itself, may fall on either side. What does hold is `PrefixKeepsPast`.
* A short write is stored and replayed whole (`shim.c:338` against `replay.ts:57`;
  `Short`).
* A payload whose object could not be created, or only in part, is named by records all
  the same (`shim.c:227`, `:233`): replay throws, or writes less than was written. That
  `trace-format.md` has a trace and its `cas` directory suffice holds only while the
  store's own calls work (`StoreWorks`).
* A failed write of a payload that is stored already returns with the errno of the
  store's `EEXIST` (`shim.c:333`, `:227`; errno is not modelled).
* A failed unmount is followed by the recursive removal of the directory the image is
  still mounted on (`image.ts:110` against `:124`). The exception then ends the campaign
  (`LeakEndsCampaign`), so that the emptied image is never judged.
* A sweep deletes the findings of the last one before it has any of its own: until it
  publishes, and for good if it dies, the table counts artifacts that are gone
  (`campaign-run.ts:85`).
* A sweep that dies between the writes of its two reports leaves a `campaign.csv` of its
  own and a `results.md` that is older, or half written (`campaign-run.ts:159`, `:163`).
* With the flusher off, at `dirty_writeback_centisecs` 0, the experiment's check passes
  although the page is never due (`ftruncate-vs-overwrite.ts:188` against `:179`;
  `wakeup > 0` in `WaitSuffices`).
* A killed run leaves the loop device attached (`EXECUTION-PLAN.md:328`; `Interrupt`).

Several are documented as deliberate limits elsewhere in the repository; that they are
listed shows only that the quoted sentence is not what the code does.

### Fairness

Liveness is asked where a loop or a lock could go wrong. `Enumerate` is one sequential
function that calls nothing which waits for another party: it assumes `WF_vars(Next)`,
that the process keeps running. `DatabaseTargets` assumes `WF` of each writer, of the
main thread and of the analysis that follows: threads of the operating system keep
running. That a waiting writer gets the transaction needs no more, because the others run
out of operations. The other modules state safety only and assume nothing; where deadlock
is checked, a run that stops before its end is an error all the same.

## 4. What is proved

The theorems hold for every value of the constants that satisfies the named
assumptions: any sets of threads, paths and calls, any window, any length of trace.

**CrashSpaceProofs.** `TypeCorrect` is type correctness. `FloorHolds` proves
`DurabilityFloor` for any number of threads. Its argument: `before` only relates a
call to one issued later (`BeforeOrdered`), so the earlier one is in `PinnedBy` of
every crash point from the persistence call on, and every member of `StatesAt`
contains `AlwaysPresent` (`FloorInEveryState`).

`EveryDiskIsEnumerated` proves `Covered` for one thread, where `MCConcurrentCover`
shows that it fails for two. Like `Covered` it is about the traces on which persistence
calls persist every earlier mutation of their path (`SyncsForce`). The inductive
invariant `SerialInv` says how far the
disk can be from the trace: at most the last call is unfinished (`OneUnfinished`);
what a performed persistence call covers is on disk (`SyncedOnDisk`); under data
journaling the disk is closed under earlier operations (`OrderedOnDisk`); a size
change on disk has an earlier operation of its file there (`ExistingOnDisk`); a torn
operation is a strict prefix of one that is not on disk (`TornIsStrict`). `Covered`
itself is not inductive, because the next call changes the crash point and with it
what is pinned. From the invariant the crash point is chosen, the last call if it has
been performed and the one before if not, and the disk is shown to be the floor plus
a part of the window (`WindowOrOlder`), torn at most once (`TornStateEnumerated`).

`OnlyProducibleIsEnumerated` is the converse, for any number of threads and all four
models: a state enumerated for the whole trace contains what its persistence calls
forced, the rest of it could have been written back in some order the model keeps, and
what is torn was under way. It follows from `TypeOK` and the shape of `StatesAt`: under
data journaling a state is a prefix, and elsewhere `OrderIsGiven` puts whatever a
write-back waits for into every state.

**EnumerateProofs.** For any trace of any calls, any seed, model and cap.
`EnumerateTypes` needs nothing else. The others assume `WindowFits`: a
`maxUnpersistedWindow` from 1 to 30, where `bounds.jsonc` has 8. At 0, `slice(-0)` is the
whole array; from 31 on, `1 << window.length` is not the number of the window's subsets.

The two loops are first brought into one form (`Turn`, `TryIsTurn`): a turn names a set
(`SetOf`), tests it (`Legal`) and appends a batch, the whole state and the torn ones.
`MasksCount` counts in binary: below `1 << n` every subset of n bits is named by one mask,
by induction on n with the mask's half. So the masks are the subsets of the window, from
none to all (`MaskTries`), and the prefixes the downward closed sets of what was issued
(`PrefixTries`); with the fact that the floor and everything issued can exist on disk
(`EndsExist`), the turns of a crash point are exactly `StatesAt`, each set once, the least
first and the fullest last (`Turns`). The inductive invariant `Emitting` says that of the
crash points in ascending order those done with have all their states and the fullest
last, the one in hand has those of the turns it has had, and the rest have none; that no
state is there twice, and that the first of a crash point is whole and within every other.
`EnumerationIsExact` is its end. `Sampling` continues from there: every sampled state is
one enumerated, of a crash point done with, in the same order (`Narrows`), and every crash
point done with is within the cap and has both ends of its group (`Bounded`). A group is
never empty, since the fullest state is always legal. `SampleIsSound` and
`PersistencePointsAreTested` follow.

**ImageProofs.** `ImageInv` ties the program counter to what is held: which of
device, mount and directory exist at each step (`HeldAt`), what is left over when an
exception has been raised (`InHand`) and what the image contains (`ContentAt`).
`RecoveryIsOfTheState` (recovery is run only on the whole state, the oracle judges only a
recovery that ran) and `LeaksStop` need it with any set of failing commands and
kills. `WithMountReleases` is the promise of `withMount`: whatever fails, nothing is
attached or mounted once it has been left, unless `umount` or `losetup --detach` itself
failed (`stuck`). `ImageTestsStates` is the refinement: the initial states map to
initial states of `StateTesting`, and `ImageInv` gives for each command the stage before
and after it.

**SweepProofs.** Four invariants, each resting on the ones before. `Typed` is types with
the program counter: `unpacked` is empty except while packaging. `Traced` says what every
pushed row is, configuration and shape of its place in the plan and the trace of its
shape, and that a captured trace is named by a run of its shape; `OneTracePerShape`
follows. `Packaged` says that every finding of a row, and every one of the current run
that is off the list, has its whole artifact, and that every directory belongs to a run
not later than the current one. It is inductive because no two runs share a directory
(`OutDirApart`, from the plan being a product of distinct names, `PlanApart`).
`Accurate` says what the two reports are at each step and that only claimed directories
exist; `PublishedAgree` follows. All for any plan and any number of sweeps, and for
signatures that the sanitised directory name tells apart: `OutDir` is injective in
configuration, shape and signature, which is right for one database file and the names of
`SWEEP` (`campaign-run.ts:118`). Nothing is said of the reports of a sweep that died.

**WritebackProofs.** `Timing` is the argument of the comment above
`writebackWaitIsSufficient`: the next wakeup is never more than a period away, time does
not pass it, and a page still dirty means that no wakeup since its deadline has been
missed; so when deadline plus period fit into the wait, no copy starts on a dirty page.
`Settled` adds what a quiet device shows then, from which `Decides` follows: with no
commit before the deadline of the mount, both parts of the copy are of one state
whenever they are read.

**CampaignProofs.** For any protocol, any schedule of the drivers, any states and any step
that throws. `CampaignInv` says that there is no campaign while the drivers run
(`NothingYet`), that the image in hand is as far as the phase says (`HandIsWhole`: made
for the current state, then its replay, then recovered from), and that evidence comes from
the states judged before (`OneInHand`). `EvidenceIsKept` and `FindingsCanBeShown` follow:
the first violation of a signature keeps the image it was found on and the replay of its
state shows it again. Folding a state's violations in keeps what was found and adds one of the
state's own for each new signature (`FoldKeeps`); it counts them, so there must be finitely
many (`ViolationsFinite`).
`CampaignTestsStates` is the second refinement of `StateTesting`.

The other four theorems follow an operation from its markers to its finding. They assume
`OwnFiles`: every operation has a key and a scratch file of its own, as with the keys
`k%ld` of `unsafe-kv/main.c:70`, and follows one of the three protocols of `Campaign`.
Their invariant is about the trace. `Stamped`: events and markers ascend and share no
stamp. `Driven`: there is for each operation the list of the stamps its steps were taken
at, and what the trace has of the operation is what those steps left (`Took`). `InTurn`:
without threads the operations come one after the other. `FinishedOperation` reads off it
that a finished operation has one begin, one ack, and between them a synced write in place
(`PutsAt`) or a write and a rename (`ReplacesAt`). `OfTheTrace` adds that what is queued
and found are states of a trace that stands still.

Replay is followed by the least counterexample over its steps (`SelectionRuns`): every
name has a file of its own (`Sound`), a step changes the files of the operation that made
the call and of no other (`SelectionStepped`), and the key ends up with the whole value, a
sector of it or nothing (`KeyOfPut`, `KeyOfRename`, `PartIs`). So the value is read back
exactly if the state holds the operation's mutations whole (`ReadsBack`), and the oracle
reports exactly the operations announced before the crash that lack one
(`LostWhenLacking`). This is `LossesAreExact`. `PromisesAreBroken` needs in addition that
a sync stamped below the ack is at or before the crash point, so what it covers is pinned
(`SyncedIsPinned`). For `BlameIsRight`, the missing mutation is among those the
deduplicator searches, so the earliest of them exists, and by its stamp it is the
operation's own or an intruder's. `UnsafeKvIsExposed` takes the least state of the first
crash point after the ack: nobody syncs under the path of the rename (`RenameIsFree`), so
it is missing there unless it is older than the window. `WideWindow` is what excludes
that: a window of 2 if the operations come in turn, since then nothing but the call at
the crash point can be younger, and of `2 * NumOperations - 1` if they run in threads,
since each of the others has at most two mutations (`Seat`, an injection). With the 8 of
`bounds.jsonc` this is any number of operations in turn, or four in threads. The bounds
are needed: with a window of 1, or of 0 (`slice(-0)`), the rename can be below the floor
of every state of that crash point.

**DatabaseProofs.** For any number of writers and operations, any image and any crash
point. `OperationsApart`: the counter gives no operation to two writers. `LogInOrder`:
one begin and at most one acknowledgement of each, in this order. `HistoryTrue` is the
heart: what a call remembers as acknowledged is what the log announces below its stamp
(`Announced`), and was committed and synced when the call was made (`CallTrue`); it is
inductive because a writer about to acknowledge a durable operation has it below `floor`
(`Pending`). `VerdictIsOwedAlways` and `NoFalseReportEver` follow: the oracle reports
exactly the broken promises of an image, and none if the database kept its own.
`PromisesStandAlways` is the action property: what a writer has been told is never taken
back.

**ShimProofs.** `StampsOrderTheCalls` proves `StampsOrderCalls` for any number of
threads, making any calls, under any faults and any number of descriptors. A thread
carries the stamps it has taken and not yet written (`Carries`). `Taken` says that no
stamp is in two places, records or threads (`Apart`), and that what a thread has written
is older than what it carries (`Ascending`); each step takes one stamp, keeps what the
thread has, or writes all of it (`TakeStamp`, `KeepStamps`, `WriteStamps`). `Bracketed`
extends the order of calls to those in flight: what has its completion stamp below
another's submission stamp was performed before it, whether or not either is in the
trace yet. It is inductive because a completion stamp is newer than every submission
stamp there is, and a call just performed is the last one performed (`BracketedNext`).

For a target of one thread `Serial` says more. `Tracing` follows a call from the target
to its record: what was asked (`Asked`), the way it takes (`Routed`), what the kernel did
it to (`Answered`), and that an open descriptor is in the tables, or about to be
(`Tables`). `Told` says that a record names what the kernel acted on. `OffsetsAreTrue`
needs no more. `MarkersStayApart` and `PathsAreCached` hold if every descriptor has a
place in the tables (`Fits`): the shim records nothing about one beyond `MAX_FD`.
`MCShimFdReuse` shows what becomes of them with a second thread.
`PrefixesKeepThePast` is for any threads and needs that each thread's records are in the
file in the order it issued them (`Queued`): what precedes the crash call in its thread
then precedes it in the file too, and is among the records counted before the cut. For one
thread the order of the file and the order of submission are the same (`PlacesAscend`,
`PlaceInFile`), so that a cut in one is a cut in the other.

`Kept` is again for any threads: types, and the payload store. While the store's own calls
work (`StoreWorks`) an object that is not whole has a thread about to fill it, and no
record is written that names an absent one; so at rest every payload a record names is
stored (`PayloadsAreStored`), which is the half of `ReplayIsFaithful` that does not depend
on the order of the trace. Once one of them fails nothing of the sort holds.

`ReplayReproduces` is the other half, for one thread, a trace whose payloads are stored
and a target that is `Plain`: its
descriptors fit the tables, it leaves the names of its open files alone and empties no
file by opening it (the cases in which replay departs from the kernel, listed above). The
invariant is in two parts. `KernelSound` is the kernel's side: no two paths share a file,
unused files are empty, an open descriptor's path still names its file, and files, which
are numbered by stamps, do not run out (two stamps a call). `Sound` is the trace's side:
there is a chronicle of contents, path by path, that starts empty and follows the events
in submission order (`Chronicle`), and the disk holds what its last entry says, but for the
effect of a call the kernel has done and no record shows (`Ahead`). A record has the effect
of its call because it names what the kernel acted on (`EmitSound`); the new record is the
last in submission order (`SubmittedLast`). That replay, a recursion of its own with files
numbered by events, arrives at the same contents is `ReplayOfChronicle`, on any trace whose
records can be replayed.

**How induction is avoided.** The provers cannot instantiate the library's induction
theorems. Where one is needed (the first free descriptor, the run of a recursive function
over a trace or a selection, the masks of n bits), it is an argument by the least counterexample, from lemma `Smallest`, which
takes a set and not an operator: it is proved from the well-foundedness of the strict
subsets of a finite set, a library theorem that takes none either.

**Only model-checked.** Liveness, `Terminates` in two modules, which the prover does not
cover. In `Enumerate`, windows of no operation or of more than 30. In `Shim`, what becomes of
`ReplayIsFaithful` beyond the hypotheses of its theorem. Every other invariant and action
property of a passing run is stated by a theorem, some under the hypotheses named above.

## 5. What is not modelled

JSON and marker text, digests (a digest is its value), sub-sector offsets, errno,
`writev` beyond its staging buffer, path resolution through directory descriptors, fork
and exec, the inside of redb and SQLite, the script an artifact is rerun with. Metadata is
one operation per call. `fdatasync` and `sync_file_range` pin like `fsync` in `Persistence`,
as in `states.ts`, and persist bytes only in the filesystem of `CrashSpace`. The fsync of a
directory, the length of a file beyond the operations on it, and the entry of a file that
was just created are not in that filesystem. In the experiment, `classifyHeader`'s
`ambiguous` is left out: a header within one sector is read old or new.

Left out as whole components: the CLI, the bounds loader and the target builds (no state
between their statements, nothing concurrent); `state-explosion.ts` and `tdd-report.ts`
(they print what modelled functions or the git log return); the probes, which were run
once to choose a target.

## 6. Plan

1. Done: the space of crash states, the pipeline, the campaign and its abstract
   specification, the shim under threads and failures, the image lifecycle, both
   databases, the sweep, the writeback experiment, and the theorems above.
2. Next: fork and exec in the shim, with segments of a trace per process; descriptors
   beyond the table; a linking workload, where replay can throw; malformed marker
   sequences.
