------------------------------- MODULE Oracle -------------------------------
(***************************************************************************)
(* What was promised, what was lost and what to call it: oracle/acklog.ts, *)
(* oracle/oracle.ts and oracle/dedup.ts.  Marker text is kept as the record*)
(* fields() parses it into; digests are the values themselves.             *)
(***************************************************************************)
EXTENDS Integers, Sequences, FiniteSetsExt

(* The calls dedup.ts repeats from states.ts.                              *)
DedupMutating == {"write", "pwrite", "writev", "truncate", "ftruncate",
                  "mkdir", "unlink", "link", "rename"}

NEVER == -1         \* acknowledgedAt: null
NOVALUE == "<absent>"

-----------------------------------------------------------------------------
(* The acknowledgement log.  Markers are [index, phase, op, key, digest,   *)
(* durable], in ascending order of index.                                  *)

Begins(ms, o) == {i \in DOMAIN ms : ms[i].op = o /\ ms[i].phase = "begin"}

(* The acks that count: a begin replaces the record, so those after the    *)
(* last begin.                                                             *)
Acks(ms, o) ==
    {i \in DOMAIN ms : /\ ms[i].op = o /\ ms[i].phase = "ack"
                       /\ \A b \in Begins(ms, o) : b < i}

(* One record per operation.  An ack without a begin opens the record      *)
(* itself, and every ack overwrites what the one before it said.           *)
AckRecord(ms, o) ==
    LET opened == ms[IF Begins(ms, o) # {} THEN Max(Begins(ms, o)) ELSE Min(Acks(ms, o))]
        acks == Acks(ms, o)
        last == ms[Max(acks)]
    IN  [op |-> o, key |-> opened.key, beganAt |-> opened.index,
         digest |-> IF acks = {} THEN "" ELSE last.digest,
         acknowledgedAt |-> IF acks = {} THEN NEVER ELSE last.index,
         durable |-> acks # {} /\ last.durable]

ParseAckLog(ms) == {AckRecord(ms, o) : o \in {ms[i].op : i \in DOMAIN ms}}

-----------------------------------------------------------------------------
(* The oracle.  A recovery is [status, integrityOk, values], values a      *)
(* function from the keys that were read back.                             *)

(* Mutant: durability is not looked at.                                    *)
AckedBefore(log, crashStamp) ==
    {a \in log : a.acknowledgedAt # NEVER /\ a.acknowledgedAt < crashStamp}

(* Mutant: the comparison with the crash point is turned round.            *)
PromisedAfter(log, crashStamp) ==
    {a \in log : a.durable /\ a.acknowledgedAt # NEVER /\ a.acknowledgedAt > crashStamp}

(* What was promised when the crash happened: operations announced durable *)
(* before the call that was issued last.                                   *)
PromisedBefore(log, crashStamp) ==
    {a \in log : /\ a.durable
                 /\ a.acknowledgedAt # NEVER
                 /\ a.acknowledgedAt < crashStamp}

ReadBack(recovery, key) ==
    IF key \in DOMAIN recovery.values THEN recovery.values[key] ELSE NOVALUE

Violation(class, crashStamp, op, key, expected, actual) ==
    [violationClass |-> class, crashStamp |-> crashStamp, op |-> op, key |-> key,
     expected |-> expected, actual |-> actual]

NOOP == 0           \* op: null

Lost(crashStamp, promised, recovery) ==
    {Violation("LOST_ACKED", crashStamp, a.op, a.key, a.digest, ReadBack(recovery, a.key)) :
        a \in {b \in promised : ReadBack(recovery, b.key) # b.digest}}

(* Nothing is owed at a crash point that was promised nothing; a target    *)
(* that does not open is one violation, not one per key.                   *)
CheckOracle(crashStamp, log, recovery) ==
    LET promised == PromisedBefore(log, crashStamp)
    IN  IF promised = {} THEN {}
        ELSE IF recovery.status = "failed"
        THEN {Violation("RECOVERY_FAILED", crashStamp, NOOP, "", "<opens and recovers>", "failed")}
        ELSE Lost(crashStamp, promised, recovery) \cup
             IF recovery.integrityOk THEN {}
             ELSE {Violation("CORRUPT_INVARIANT", crashStamp, NOOP, "",
                             "<integrity check passes>", "<integrity check failed>")}

-----------------------------------------------------------------------------
(* Root-cause signatures.  Events carry their submission stamp.            *)

Missing(kind, call, path) == [kind |-> kind, call |-> call, path |-> path]

(* Mutant: everything issued before the acknowledgement is blamed.         *)
NotWholeUntilAck(state, es, a) ==
    {i \in DOMAIN es : /\ es[i].call \in DedupMutating /\ es[i].ret >= 0
                       /\ a.acknowledgedAt = NEVER \/ es[i].stamp <= a.acknowledgedAt
                       /\ i \notin state.persisted \/ \E w \in state.partial : w.op = i}

(* The mutations issued while the operation was in flight, by anyone, that *)
(* the state does not hold whole.                                          *)
NotWhole(state, es, a) ==
    {i \in DOMAIN es : /\ es[i].call \in DedupMutating /\ es[i].ret >= 0
                       /\ es[i].stamp >= a.beganAt
                       /\ a.acknowledgedAt = NEVER \/ es[i].stamp <= a.acknowledgedAt
                       /\ i \notin state.persisted \/ \E w \in state.partial : w.op = i}

(* The earliest of them.                                                   *)
EarliestMissing(state, es, a) ==
    IF NotWhole(state, es, a) = {} THEN Missing("missing", "none", "none")
    ELSE LET i == Min(NotWhole(state, es, a))
         IN  Missing(IF \E w \in state.partial : w.op = i THEN "torn" ELSE "missing",
                     es[i].call, es[i].path)

SignatureOf(violation, state, es, a) ==
    <<violation.violationClass, EarliestMissing(state, es, a)>>

=============================================================================
