-------------------------- MODULE DatabaseTargets --------------------------
(***************************************************************************)
(* The two databases: targets/redb-workload under the sweep's shapes and   *)
(* the control, targets/sqlite-workload, their query tools on a crash      *)
(* image, and what the oracle says of the two.                             *)
(*                                                                         *)
(* redb's writers share an operation counter and contend for its one write *)
(* transaction; SQLite has one writer.  Each brackets its commit with      *)
(* markers.  The databases are external: transactions are serialized, a    *)
(* durable commit is on disk when it returns, and a crash leaves the       *)
(* commits up to some point that is no earlier than the last durable one.  *)
(* Once the workload has ended and its trace is complete, one crash point  *)
(* is taken together with any image, legal or not, and put to the oracle.  *)
(***************************************************************************)
EXTENDS Oracle

CONSTANTS
    NumOperations,      \* the operations argument
    ConcurrentThreads,  \* bound on the writers of the concurrent shape, 4 in the code
    CommitsFail         \* whether a transaction may end in an error

ASSUME DatabaseAssumption ==
    /\ NumOperations \in Nat
    /\ ConcurrentThreads \in Nat \ {0}
    /\ CommitsFail \in BOOLEAN

VARIABLES
    shape,     \* the database and the shape argument
    next,      \* the shared operation counter
    pc, op,    \* each writer's place and the operation it runs
    writer,    \* who holds the write transaction, 0 if nobody
    commits,   \* operations in the order their commits were written
    floor,     \* how many of the commits are on disk for certain
    acked,     \* history: operations acknowledged as durable
    stamp,     \* the shim's counter
    events,    \* the traced calls, each with what was true when it was issued
    markers,   \* trace.markers
    phase,     \* "create", "run", then "traced" and "judged", or "aborted"
    crash      \* the crash point and image put to the oracle

vars == <<shape, next, pc, op, writer, commits, floor, acked, stamp, events, markers,
          phase, crash>>

Operations == 1..NumOperations

(* Every value size is the same to the model.  SQLite runs in WAL mode     *)
(* with synchronous=FULL, so that each of its commits is durable.          *)
Shapes == {[engine |-> "redb", threads |-> 1, non_durable_every |-> 0],
           [engine |-> "redb", threads |-> 1, non_durable_every |-> 2],
           [engine |-> "redb", threads |-> ConcurrentThreads, non_durable_every |-> 0],
           [engine |-> "sqlite", threads |-> 1, non_durable_every |-> 0]}

Writers == 1..shape.threads

Durable(o) == shape.non_durable_every = 0 \/ o % shape.non_durable_every # 0

(* A value depends on its key, so what is read back is the value of the    *)
(* key or another one.                                                     *)
DIGEST == "own"

-----------------------------------------------------------------------------

Init ==
    /\ shape \in Shapes
    /\ next = 1
    /\ pc = [t \in Writers |-> "next"]
    /\ op = [t \in Writers |-> 0]
    /\ writer = 0 /\ commits = <<>> /\ floor = 0 /\ acked = {}
    /\ stamp = 0 /\ events = <<>> /\ markers = <<>>
    /\ phase = "create"
    /\ crash = [crashPoint |-> 0]

(* A traced call takes its stamp.                                          *)
Traced(call) ==
    /\ events' = Append(events, [stamp |-> stamp, call |-> call, floor |-> floor,
                                 started |-> Len(commits), made |-> phase = "run",
                                 acked |-> acked])
    /\ stamp' = stamp + 1

(* Database::create makes the file, then syncs it, before any writer runs; *)
(* SQLite does so for the pragmas and CREATE TABLE.                        *)
CreateDatabase ==
    /\ phase = "create"
    /\ IF events = <<>> THEN Traced("open") /\ phase' = phase
                        ELSE Traced("fdatasync") /\ phase' = "run"
    /\ UNCHANGED <<shape, next, pc, op, writer, commits, floor, acked, markers, crash>>

(* Mutant: every writer counts for itself.                                 *)
TakeUnshared(t) ==
    /\ phase = "run" /\ pc[t] = "next"
    /\ op' = [op EXCEPT ![t] = @ + 1]
    /\ pc' = [pc EXCEPT ![t] = IF op[t] + 1 > NumOperations THEN "done" ELSE "begin"]
    /\ UNCHANGED <<shape, next, writer, commits, floor, acked, stamp, events, markers, phase, crash>>

(* Mutant: the loop is not left when the operations have run out.          *)
TakeForever(t) ==
    /\ phase = "run" /\ pc[t] = "next"
    /\ IF next > NumOperations THEN UNCHANGED <<next, op, pc>>
       ELSE /\ op' = [op EXCEPT ![t] = next]
            /\ next' = next + 1
            /\ pc' = [pc EXCEPT ![t] = "begin"]
    /\ UNCHANGED <<shape, writer, commits, floor, acked, stamp, events, markers, phase, crash>>

(* next.fetch_add, or the next turn of a single writer's loop.             *)
TakeOperation(t) ==
    /\ phase = "run" /\ pc[t] = "next"
    /\ op' = [op EXCEPT ![t] = next]
    /\ next' = next + 1
    /\ pc' = [pc EXCEPT ![t] = IF next > NumOperations THEN "done" ELSE "begin"]
    /\ UNCHANGED <<shape, writer, commits, floor, acked, stamp, events, markers, phase, crash>>

(* A marker is one unbuffered write, in redb's case under a mutex.         *)
Marked(o, text, digest, durable) ==
    /\ markers' = Append(markers, [index |-> stamp, phase |-> text, op |-> o, key |-> o,
                                   digest |-> digest, durable |-> durable])
    /\ stamp' = stamp + 1

MarkBegin(t) ==
    /\ pc[t] = "begin"
    /\ Marked(op[t], "begin", "", FALSE)
    /\ pc' = [pc EXCEPT ![t] = "lock"]
    /\ UNCHANGED <<shape, next, op, writer, commits, floor, acked, events, phase, crash>>

(* begin_write waits for the transaction before it; SQLite's single writer *)
(* never does.                                                             *)
BeginWrite(t) ==
    /\ pc[t] = "lock" /\ writer = 0
    /\ writer' = t
    /\ pc' = [pc EXCEPT ![t] = "write"]
    /\ UNCHANGED <<shape, next, op, commits, floor, acked, stamp, events, markers, phase, crash>>

(* The commit's pages are written.                                         *)
WriteCommit(t) ==
    /\ pc[t] = "write"
    /\ Traced("pwrite")
    /\ commits' = Append(commits, op[t])
    /\ pc' = [pc EXCEPT ![t] = IF Durable(op[t]) THEN "sync" ELSE "commit"]
    /\ UNCHANGED <<shape, next, op, writer, floor, acked, markers, phase, crash>>

(* ... and, at Durability::Immediate or synchronous=FULL, synced.          *)
SyncCommit(t) ==
    /\ pc[t] = "sync"
    /\ Traced("fdatasync")
    /\ floor' = Len(commits)
    /\ pc' = [pc EXCEPT ![t] = "commit"]
    /\ UNCHANGED <<shape, next, op, writer, commits, acked, markers, phase, crash>>

(* Mutant: the transaction is not released.                                *)
CommitKeeps(t) ==
    /\ pc[t] = "commit"
    /\ pc' = [pc EXCEPT ![t] = "ack"]
    /\ UNCHANGED <<shape, next, op, writer, commits, floor, acked, stamp, events, markers, phase, crash>>

(* commit, or sqlite3_step, returns and the next writer may begin.         *)
Commit(t) ==
    /\ pc[t] = "commit"
    /\ writer' = 0
    /\ pc' = [pc EXCEPT ![t] = "ack"]
    /\ UNCHANGED <<shape, next, op, commits, floor, acked, stamp, events, markers, phase, crash>>

MarkAck(t) ==
    /\ pc[t] = "ack"
    /\ Marked(op[t], "ack", DIGEST, Durable(op[t]))
    /\ acked' = IF Durable(op[t]) THEN acked \cup {op[t]} ELSE acked
    /\ pc' = [pc EXCEPT ![t] = "next"]
    /\ UNCHANGED <<shape, next, op, writer, commits, floor, events, phase, crash>>

(* An error unwinds the writer and drops its transaction.                  *)
Fail(t) ==
    /\ CommitsFail
    /\ pc[t] \in {"write", "sync"}
    /\ writer' = 0
    /\ pc' = [pc EXCEPT ![t] = "failed"]
    /\ UNCHANGED <<shape, next, op, commits, floor, acked, stamp, events, markers, phase, crash>>

(* sqlite3_close moves what the log holds into the database.  Only here is *)
(* there a traced call after the last acknowledgement.                     *)
Closed == events # <<>> /\ events[Len(events)].call = "checkpoint"

CloseDatabase ==
    /\ phase = "run" /\ shape.engine = "sqlite"
    /\ \A t \in Writers : pc[t] = "done"
    /\ ~Closed
    /\ Traced("checkpoint")
    /\ UNCHANGED <<shape, next, pc, op, writer, commits, floor, acked, markers, phase, crash>>

(* main joins its writers; captureTrace throws if the exit code is not 0.  *)
Exit ==
    /\ phase = "run"
    /\ \A t \in Writers : pc[t] \in {"done", "failed"}
    /\ shape.engine = "sqlite" => Closed \/ pc[1] = "failed"
    /\ phase' = IF \E t \in Writers : pc[t] = "failed" THEN "aborted" ELSE "traced"
    /\ UNCHANGED <<shape, next, pc, op, writer, commits, floor, acked, stamp, events, markers, crash>>

-----------------------------------------------------------------------------
(* The image and the query tool.                                           *)

ABSENT == [exists |-> FALSE]
UNOPENABLE == [exists |-> TRUE, opens |-> FALSE]
UNREADABLE == [exists |-> TRUE, opens |-> TRUE, reads |-> FALSE]

(* What opening it, checking it and beginning to read it say of an image,  *)
(* and what each key reads back as.                                        *)
Images ==
    {ABSENT, UNOPENABLE, UNREADABLE} \cup
    [exists : {TRUE}, opens : {TRUE}, reads : {TRUE},
     check : {"passed", "repaired", "corrupted"},
     rows : [Operations -> {"none", DIGEST, "other"}]]

(* Mutant: a repair counts as corruption.                                  *)
OnlyPassed(image) == image.check = "passed"

(* check_integrity of redb: a repair after a crash is no corruption.       *)
(* SQLite recovers before its check, whose answer is "ok" or not.          *)
IntegrityOk(image) ==
    IF shape.engine = "redb" THEN image.check # "corrupted" ELSE image.check = "passed"

(* The query tools exit non-zero when they cannot open or cannot begin to  *)
(* read.  A table that is missing, or a scan that stops, shows as rows     *)
(* that are not there.                                                     *)
QueryFails(image) == ~image.opens \/ ~image.reads

(* queryTarget: a file that is not there is an empty database.             *)
RecoverDatabase(image) ==
    IF ~image.exists
    THEN [status |-> "opened", integrityOk |-> TRUE, values |-> [k \in {} |-> ""]]
    ELSE IF QueryFails(image) THEN [status |-> "failed"]
    ELSE [status |-> "opened", integrityOk |-> IntegrityOk(image),
          values |-> [k \in {o \in Operations : image.rows[o] # "none"} |-> image.rows[k]]]

(* The images a crash at an event may leave.  Before the database was      *)
(* surely on disk there may be no file, or one that does not open.         *)
LegalAt(e, image) ==
    \/ ~e.made /\ image \in {ABSENT, UNOPENABLE}
    \/ /\ image.exists /\ image.opens /\ image.reads
       /\ image.check = "passed" \/ (image.check = "repaired" /\ shape.engine = "redb")
       /\ \E n \in e.floor..(e.started + IF e.call = "pwrite" THEN 1 ELSE 0) :
            \A o \in Operations :
                image.rows[o] = IF \E k \in 1..n : commits[k] = o THEN DIGEST ELSE "none"

Crash ==
    /\ phase = "traced"
    /\ \E cp \in DOMAIN events, image \in Images :
         crash' = [crashPoint |-> cp, image |-> image]
    /\ phase' = "judged"
    /\ UNCHANGED <<shape, next, pc, op, writer, commits, floor, acked, stamp, events, markers>>

Ended ==
    /\ phase \in {"judged", "aborted"}
    /\ UNCHANGED vars

Write(t) ==
    \/ TakeOperation(t)
    \/ MarkBegin(t)
    \/ BeginWrite(t)
    \/ WriteCommit(t)
    \/ SyncCommit(t)
    \/ Commit(t)
    \/ MarkAck(t)

Next ==
    \/ CreateDatabase
    \/ \E t \in Writers : Write(t) \/ Fail(t)
    \/ CloseDatabase
    \/ Exit
    \/ Crash
    \/ Ended

(* Every writer keeps running; begin_write lets a waiting writer in once   *)
(* the others have nothing left to commit.                                 *)
Spec ==
    /\ Init /\ [][Next]_vars
    /\ WF_vars(CreateDatabase) /\ WF_vars(CloseDatabase) /\ WF_vars(Exit) /\ WF_vars(Crash)
    /\ \A t \in 1..ConcurrentThreads : WF_vars(t \in Writers /\ Write(t))

-----------------------------------------------------------------------------

(* Types; the write transaction is held by the one writer inside it.       *)
TypeOK ==
    /\ shape \in Shapes
    /\ next \in Nat /\ stamp = Len(events) + Len(markers)
    /\ op \in [Writers -> Nat]
    /\ floor \in 0..Len(commits)
    /\ acked \subseteq Operations
    /\ phase \in {"create", "run", "traced", "judged", "aborted"}
    /\ \A t \in Writers : pc[t] \in {"write", "sync", "commit"} <=> writer = t

Verdict ==
    CheckOracle(events[crash.crashPoint].stamp, ParseAckLog(markers), RecoverDatabase(crash.image))

(* acklog.ts, oracle.ts: a target that keeps its word is never reported,   *)
(* however its writers interleave, wherever the crash falls, whatever was  *)
(* committed without durability and whether or not redb had to repair.     *)
NoFalseReport ==
    (phase = "judged" /\ LegalAt(events[crash.crashPoint], crash.image)) => Verdict = {}

Reported(class) == {v \in Verdict : v.violationClass = class}

(* The oracle reads the whole log of a finished trace and must judge by    *)
(* what had been acknowledged when the crash happened: it reports exactly  *)
(* the operations owed by then whose value is not read back, a target that *)
(* does not open once, and a failed integrity check besides.               *)
VerdictIsOwed ==
    phase = "judged" =>
        LET owed == events[crash.crashPoint].acked
            rec == RecoverDatabase(crash.image)
            opened == rec.status = "opened"
        IN  /\ {v.op : v \in Reported("LOST_ACKED")} =
                   {o \in owed : opened /\ (o \notin DOMAIN rec.values \/ rec.values[o] # DIGEST)}
            /\ Cardinality(Reported("RECOVERY_FAILED")) = IF owed # {} /\ ~opened THEN 1 ELSE 0
            /\ (Reported("CORRUPT_INVARIANT") # {}) <=>
                   (owed # {} /\ opened /\ ~rec.integrityOk)

(* A promise in the log stands: no later marker, of any writer, takes back *)
(* or changes what an operation was acknowledged with.                     *)
PromisesStand ==
    [][\A a \in ParseAckLog(markers) : a.acknowledgedAt # NEVER => a \in ParseAckLog(markers')]_vars

(* Every writer gets its transactions and the workload ends.               *)
Terminates == <>(phase \in {"judged", "aborted"})

=============================================================================
