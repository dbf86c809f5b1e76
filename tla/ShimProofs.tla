---------------------------- MODULE ShimProofs ----------------------------
(***************************************************************************)
(* Theorems about Shim, for any targets, threads, calls and kernel faults. *)
(***************************************************************************)
EXTENDS Shim, FiniteSetTheorems, SequenceTheorems, WellFoundedInduction, TLAPS

-----------------------------------------------------------------------------
(* What a step does to the frames, as far as the stamps go.                *)

FIELDS == {"call", "fd", "path", "path2", "value", "flags", "i", "j", "off", "ret", "at", "step"}

(* The real call has returned, and the record has not been written.        *)
RETURNED == {"remember", "store", "fill", "seek", "complete", "emit"}

(* The call has its submission stamp, and its record has not been written. *)
OPEN == RETURNED \cup {"marker", "perform"}

Shaped ==
    /\ frame = [t \in Threads |-> frame[t]]
    /\ \A t \in Threads :
         /\ frame[t].step \in OPEN \cup {"idle", "clear"}
         /\ frame[t].step # "idle" => DOMAIN frame[t] = FIELDS

(* Only thread t moves.                                                    *)
Others(t) == \A u \in Threads \ {t} : frame'[u] = frame[u]

LEMMA ShapedInit == Init => Shaped
<1> SUFFICES ASSUME Init PROVE Shaped
  OBVIOUS
<1>1. frame = [t \in Threads |-> Idle]
  BY DEF Init
<1>2. \A t \in Threads : frame[t].step = "idle"
  BY <1>1 DEF Idle
<1>3. frame = [t \in Threads |-> frame[t]]
  BY <1>1
<1> QED
  BY <1>2, <1>3 DEF Shaped

(* What each action does to the stamps, the trace and the history.         *)
LEMMA EnterView ==
    ASSUME Shaped, NEW t \in Threads, NEW c, Enter(t, c)
    PROVE  /\ Shaped' /\ Others(t)
           /\ frame[t].step = "idle" /\ frame'[t].step \in {"marker", "perform"}
           /\ frame'[t].i = counter /\ counter' = counter + 1
           /\ UNCHANGED <<program, records, performed, truth>>
<1>1. Threads' = Threads
  BY DEF Enter, Threads
<1> QED
  BY <1>1 DEF Enter, Shaped, Others, OPEN, RETURNED, FIELDS, history

LEMMA PerformView ==
    ASSUME Shaped, NEW t \in Threads, Perform(t)
    PROVE  /\ Shaped' /\ Others(t)
           /\ frame[t].step = "perform" /\ frame'[t].step \in RETURNED \ {"emit"}
           /\ frame'[t].i = frame[t].i /\ frame'[t].at.nth = performed + 1
           /\ performed' = performed + 1
           /\ UNCHANGED <<program, counter, records, truth>>
<1>1. Threads' = Threads
  BY DEF Perform, Threads
<1>2. PICK k, at :
        /\ frame' = [frame EXCEPT ![t].ret = k.ret, ![t].fd = k.fd,
                                  ![t].step = AfterCall(frame[t].call), ![t].at = at]
        /\ at.nth = performed + 1
  <2>1. PICK k \in KernelCalls(frame[t]) :
          frame' =
            [frame EXCEPT ![t].ret = k.ret, ![t].fd = k.fd, ![t].step = AfterCall(frame[t].call),
                          ![t].at = [nth |-> performed + 1,
                                     path |-> IF frame[t].call \in FdCall THEN desc[frame[t].fd].path
                                              ELSE frame[t].path,
                                     off |-> IF frame[t].call \in FdCall THEN desc[frame[t].fd].off
                                             ELSE 0]]
    BY DEF Perform
  <2> DEFINE at == [nth |-> performed + 1,
                    path |-> IF frame[t].call \in FdCall THEN desc[frame[t].fd].path
                             ELSE frame[t].path,
                    off |-> IF frame[t].call \in FdCall THEN desc[frame[t].fd].off ELSE 0]
  <2>2. at.nth = performed + 1
    OBVIOUS
  <2> QED
    BY <2>1, <2>2
<1>3. AfterCall(frame[t].call) \in RETURNED \ {"emit"}
  BY DEF AfterCall, RETURNED
<1>4. frame[t].step = "perform" /\ performed' = performed + 1
  BY DEF Perform
<1>5. UNCHANGED <<program, counter, records, truth>>
  BY DEF Perform
<1>6. /\ DOMAIN frame = Threads /\ DOMAIN frame[t] = FIELDS
      /\ frame'[t] = [frame[t] EXCEPT !.ret = k.ret, !.fd = k.fd,
                                     !.step = AfterCall(frame[t].call), !.at = at]
  BY <1>2, <1>4 DEF Shaped
<1>7. /\ frame'[t].step = AfterCall(frame[t].call) /\ frame'[t].i = frame[t].i
      /\ frame'[t].at.nth = performed + 1 /\ DOMAIN frame'[t] = FIELDS
  BY <1>2, <1>6 DEF FIELDS
<1>8. Others(t) /\ frame' = [u \in Threads |-> frame'[u]]
  BY <1>2, <1>6 DEF Others
<1>9. Shaped'
  BY <1>1, <1>3, <1>7, <1>8 DEF Shaped, Others, OPEN
<1> QED
  BY <1>3, <1>4, <1>5, <1>7, <1>8, <1>9

(* Steps between the real call and the completion stamp.                   *)
Between(t) ==
    \/ Remember(t)
    \/ StorePayload(t)
    \/ FillPayload(t)
    \/ Seek(t)

LEMMA BetweenView ==
    ASSUME Shaped, NEW t \in Threads, Between(t)
    PROVE  /\ Shaped' /\ Others(t)
           /\ frame[t].step \in RETURNED \ {"emit"} /\ frame'[t].step \in RETURNED \ {"emit"}
           /\ frame'[t].i = frame[t].i /\ frame'[t].at = frame[t].at
           /\ UNCHANGED <<program, counter, records, performed, truth>>
<1>1. Threads' = Threads
  BY DEF Between, Remember, StorePayload, FillPayload, Seek, Threads
<1>2. AfterStore(frame[t].call) \in RETURNED \ {"emit"}
  BY DEF AfterStore, RETURNED
<1>3. CASE Remember(t)
  BY <1>1, <1>3 DEF Remember, Shaped, Others, OPEN, RETURNED, FIELDS, history
<1>4. CASE StorePayload(t)
  BY <1>1, <1>2, <1>4 DEF StorePayload, Shaped, Others, OPEN, RETURNED, FIELDS, history
<1>5. CASE FillPayload(t)
  BY <1>1, <1>2, <1>5 DEF FillPayload, Shaped, Others, OPEN, RETURNED, FIELDS, history
<1>6. CASE Seek(t)
  BY <1>1, <1>6 DEF Seek, Shaped, Others, OPEN, RETURNED, FIELDS, history
<1> QED
  BY <1>3, <1>4, <1>5, <1>6 DEF Between

LEMMA CompleteView ==
    ASSUME Shaped, NEW t \in Threads, Complete(t)
    PROVE  /\ Shaped' /\ Others(t)
           /\ frame[t].step = "complete"
           /\ \/ /\ frame'[t].step \in {"idle", "clear"} /\ UNCHANGED counter
              \/ /\ frame'[t].step = "emit"
                 /\ frame'[t].i = frame[t].i /\ frame'[t].at = frame[t].at
                 /\ frame'[t].j = counter /\ counter' = counter + 1
           /\ UNCHANGED <<program, records, performed, truth>>
<1>1. Threads' = Threads
  BY DEF Complete, Threads
<1>2. CASE frame[t].call \in {"open", "close"} /\ is_marker_fd(frame[t].fd)
  <2>1. CASE frame[t].call = "open"
    <3>1. frame' = [frame EXCEPT ![t] = Idle]
      BY <1>2, <2>1 DEF Complete
    <3> QED
      BY <1>1, <1>2, <3>1 DEF Complete, Shaped, Others, OPEN, RETURNED, history, Idle
  <2>2. CASE frame[t].call # "open"
    <3>1. frame' = [frame EXCEPT ![t].step = "clear"]
      BY <1>2, <2>2 DEF Complete, Shaped
    <3> QED
      BY <1>1, <1>2, <3>1 DEF Complete, Shaped, Others, OPEN, RETURNED, FIELDS, history
  <2> QED
    BY <2>1, <2>2
<1>3. CASE ~(frame[t].call \in {"open", "close"} /\ is_marker_fd(frame[t].fd))
  <2>1. frame' = [frame EXCEPT ![t].j = counter, ![t].step = "emit"] /\ counter' = counter + 1
    BY <1>3 DEF Complete
  <2>2. frame[t].step = "complete" /\ UNCHANGED <<program, records, performed, truth>>
    BY DEF Complete, history
  <2> QED
    BY <1>1, <2>1, <2>2 DEF Shaped, Others, OPEN, RETURNED, FIELDS
<1> QED
  BY <1>2, <1>3

LEMMA EmitMarkerView ==
    ASSUME Shaped, NEW t \in Threads, EmitMarker(t)
    PROVE  /\ Shaped' /\ Others(t)
           /\ frame[t].step = "marker" /\ frame'[t].step = "idle"
           /\ records' = Append(records, [rec |-> "marker", i |-> frame[t].i, tid |-> t])
           /\ performed' = performed + 1
           /\ UNCHANGED <<program, counter, truth>>
<1>1. Threads' = Threads
  BY DEF EmitMarker, Threads
<1> QED
  BY <1>1 DEF EmitMarker, Shaped, Others, OPEN, RETURNED, FIELDS, Idle

LEMMA ClearView ==
    ASSUME Shaped, NEW t \in Threads, Clear(t)
    PROVE  /\ Shaped' /\ Others(t)
           /\ frame[t].step = "clear" /\ frame'[t].step = "idle"
           /\ UNCHANGED <<program, counter, records, performed, truth>>
<1>1. Threads' = Threads
  BY DEF Clear, Threads
<1> QED
  BY <1>1 DEF Clear, Shaped, Others, OPEN, RETURNED, FIELDS, Idle, history

LEMMA EmitView ==
    ASSUME Shaped, NEW t \in Threads, Emit(t)
    PROVE  /\ Shaped' /\ Others(t)
           /\ frame[t].step = "emit" /\ frame'[t].step \in {"idle", "clear"}
           /\ truth' = Append(truth, [i |-> frame[t].i, at |-> frame[t].at])
           /\ UNCHANGED <<program, counter, performed>>
<1>1. Threads' = Threads
  BY DEF Emit, Threads
<1>2. Shaped' /\ Others(t) /\ frame'[t].step \in {"idle", "clear"}
  BY <1>1 DEF Emit, Shaped, Others, OPEN, RETURNED, FIELDS, Idle
<1> QED
  BY <1>2 DEF Emit

LEMMA EmitRecord ==
    ASSUME NEW t \in Threads, Emit(t)
    PROVE  \E r : /\ records' = Append(records, r)
                 /\ r.rec = "event" /\ r.i = frame[t].i /\ r.j = frame[t].j /\ r.tid = t
BY DEF Emit

-----------------------------------------------------------------------------
(* The stamps.  A thread carries those it has taken and not yet written.   *)

Carries(t) ==
    IF frame[t].step = "emit" THEN {frame[t].i, frame[t].j}
    ELSE IF frame[t].step \in OPEN THEN {frame[t].i}
    ELSE {}

IsSequence(s) == s \in Seq({s[k] : k \in DOMAIN s})

RecordsSound ==
    /\ counter \in Nat /\ IsSequence(records)
    /\ \A k \in DOMAIN records : StampsOf(records[k]) \subseteq 0..(counter - 1)
    /\ \A t \in Threads : Carries(t) \subseteq 0..(counter - 1)

(* No stamp is in two places.                                              *)
Apart ==
    /\ \A k, l \in DOMAIN records : k # l => StampsOf(records[k]) \cap StampsOf(records[l]) = {}
    /\ \A k \in DOMAIN records, t \in Threads : StampsOf(records[k]) \cap Carries(t) = {}
    /\ \A t, u \in Threads : t # u => Carries(t) \cap Carries(u) = {}

(* What a thread wrote is older than what it carries.                      *)
Ascending ==
    /\ \A k, l \in DOMAIN records :
         (k < l /\ records[k].tid = records[l].tid) =>
             \A m \in StampsOf(records[k]), n \in StampsOf(records[l]) : m < n
    /\ \A k \in DOMAIN records, t \in Threads :
         records[k].tid = t => \A m \in StampsOf(records[k]), n \in Carries(t) : m < n

Taken == RecordsSound /\ Apart /\ Ascending

(* A sequence with one more element.                                       *)
LEMMA AppendOne ==
    ASSUME NEW s, IsSequence(s), NEW r
    PROVE  /\ Len(s) \in Nat /\ DOMAIN s = 1..Len(s)
           /\ IsSequence(Append(s, r))
           /\ DOMAIN Append(s, r) = 1..(Len(s) + 1)
           /\ \A k \in DOMAIN s : Append(s, r)[k] = s[k]
           /\ Append(s, r)[Len(s) + 1] = r
<1> DEFINE S == {s[k] : k \in DOMAIN s}
           T == S \cup {r}
<1>1. s \in Seq(T)
  BY SeqMonotonic, S \subseteq T DEF IsSequence
<1>2. Len(s) \in Nat /\ DOMAIN s = 1..Len(s)
  BY <1>1, LenProperties
<1>3. /\ Append(s, r) \in Seq(T) /\ Len(Append(s, r)) = Len(s) + 1
      /\ \A k \in 1..Len(s) : Append(s, r)[k] = s[k]
      /\ Append(s, r)[Len(s) + 1] = r
  BY <1>1, AppendProperties
<1>4. DOMAIN Append(s, r) = 1..(Len(s) + 1)
  BY <1>3, LenProperties
<1> DEFINE A == Append(s, r)
           V == {A[k] : k \in DOMAIN A}
<1>5. T \subseteq V
  BY <1>2, <1>3, <1>4
<1>6. A \in Seq(V)
  BY <1>3, <1>5, SeqMonotonic
<1> QED
  BY <1>2, <1>3, <1>4, <1>6 DEF IsSequence

(* A thread takes a stamp ...                                              *)
LEMMA TakeStamp ==
    ASSUME Taken, NEW t \in Threads, Threads' = Threads,
           \A u \in Threads \ {t} : Carries(u)' = Carries(u),
           Carries(t)' = Carries(t) \cup {counter},
           counter' = counter + 1, records' = records
    PROVE  Taken'
<1> USE DEF Taken
<1>1. RecordsSound'
  <2>1. counter' \in Nat /\ IsSequence(records)'
    BY DEF RecordsSound, IsSequence
  <2>2. 0..(counter - 1) \subseteq 0..(counter' - 1) /\ counter \in 0..(counter' - 1)
    BY DEF RecordsSound
  <2>3. \A k \in DOMAIN records' : StampsOf(records[k])' \subseteq 0..(counter' - 1)
    BY <2>2 DEF RecordsSound, StampsOf
  <2>4. \A u \in Threads' : Carries(u)' \subseteq 0..(counter' - 1)
    BY <2>2 DEF RecordsSound
  <2> QED
    BY <2>1, <2>3, <2>4 DEF RecordsSound
<1>2. Apart'
  <2>1. \A k \in DOMAIN records : counter \notin StampsOf(records[k])
    BY DEF RecordsSound
  <2>2. \A u \in Threads : counter \notin Carries(u)
    BY DEF RecordsSound
  <2>3. \A k \in DOMAIN records : StampsOf(records[k])' = StampsOf(records[k])
    BY DEF StampsOf
  <2>4. \A k, l \in DOMAIN records' :
          k # l => StampsOf(records[k])' \cap StampsOf(records[l])' = {}
    BY <2>3 DEF Apart
  <2>5. \A k \in DOMAIN records', u \in Threads : StampsOf(records[k])' \cap Carries(u)' = {}
    BY <2>1, <2>3 DEF Apart
  <2>6. \A u, v \in Threads : u # v => Carries(u)' \cap Carries(v)' = {}
    BY <2>2 DEF Apart
  <2> QED
    BY <2>4, <2>5, <2>6 DEF Apart
<1>3. Ascending'
  BY DEF RecordsSound, Ascending, StampsOf
<1> QED
  BY <1>1, <1>2, <1>3 DEF Taken

(* ... keeps what it has, or forgets some ...                              *)
LEMMA KeepStamps ==
    ASSUME Taken, NEW t \in Threads, Threads' = Threads,
           \A u \in Threads \ {t} : Carries(u)' = Carries(u),
           Carries(t)' \subseteq Carries(t),
           counter' = counter, records' = records
    PROVE  Taken'
<1>1. RecordsSound'
  BY DEF Taken, RecordsSound, StampsOf, IsSequence
<1>2. Apart'
  BY DEF Taken, RecordsSound, Apart, StampsOf
<1>3. Ascending'
  BY DEF Taken, RecordsSound, Ascending, StampsOf
<1> QED
  BY <1>1, <1>2, <1>3 DEF Taken

(* ... or writes them all into a record.                                   *)
LEMMA WriteStamps ==
    ASSUME Taken, NEW t \in Threads, Threads' = Threads,
           \A u \in Threads \ {t} : Carries(u)' = Carries(u),
           Carries(t)' = {}, counter' = counter,
           NEW r, records' = Append(records, r), StampsOf(r) = Carries(t), r.tid = t
    PROVE  Taken'
<1> DEFINE n == Len(records) + 1
<1>1. /\ Len(records) \in Nat /\ DOMAIN records = 1..Len(records)
      /\ IsSequence(records')
      /\ DOMAIN records' = 1..n
      /\ \A k \in DOMAIN records : records'[k] = records[k]
      /\ records'[n] = r
  BY AppendOne DEF Taken, RecordsSound
<1>2. \A k \in DOMAIN records : StampsOf(records'[k]) = StampsOf(records[k])
  BY <1>1
<1>3. StampsOf(records'[n]) = Carries(t) /\ records'[n].tid = t
  BY <1>1
<1>4. \A k \in DOMAIN records' : k \in DOMAIN records \/ k = n
  BY <1>1
<1>5. \A k \in DOMAIN records : k < n
  BY <1>1
<1> HIDE DEF n
<1>6. \A k \in DOMAIN records' : StampsOf(records[k])' = StampsOf(records'[k])
  BY DEF StampsOf
<1>7. RecordsSound'
  BY <1>1, <1>2, <1>3, <1>4, <1>6 DEF Taken, RecordsSound
<1>8. Apart'
  <2>1. \A k, l \in DOMAIN records' : k # l => StampsOf(records'[k]) \cap StampsOf(records'[l]) = {}
    BY <1>2, <1>3, <1>4 DEF Taken, Apart
  <2>2. \A k \in DOMAIN records', u \in Threads : StampsOf(records'[k]) \cap Carries(u)' = {}
    BY <1>2, <1>3, <1>4 DEF Taken, Apart
  <2>3. \A u, v \in Threads : u # v => Carries(u)' \cap Carries(v)' = {}
    BY DEF Taken, Apart
  <2> QED
    BY <2>1, <2>2, <2>3, <1>6 DEF Apart
<1>9. Ascending'
  <2>1. ASSUME NEW k \in DOMAIN records', NEW l \in DOMAIN records', k < l,
               records'[k].tid = records'[l].tid
        PROVE  \A x \in StampsOf(records'[k]), y \in StampsOf(records'[l]) : x < y
    <3>1. k \in DOMAIN records
      BY <2>1, <1>1, <1>4 DEF n
    <3>2. CASE l \in DOMAIN records
      BY <2>1, <3>1, <3>2, <1>1, <1>2 DEF Taken, Ascending
    <3>3. CASE l = n
      BY <2>1, <3>1, <3>3, <1>1, <1>2, <1>3 DEF Taken, Ascending
    <3> QED
      BY <3>2, <3>3, <1>4
  <2>2. ASSUME NEW k \in DOMAIN records', NEW u \in Threads, records'[k].tid = u
        PROVE  \A x \in StampsOf(records'[k]), y \in Carries(u)' : x < y
    <3>1. CASE u = t
      BY <3>1
    <3>2. CASE u # t
      BY <2>2, <3>2, <1>1, <1>2, <1>3, <1>4 DEF Taken, Ascending
    <3> QED
      BY <3>1, <3>2
  <2> QED
    BY <2>1, <2>2, <1>6 DEF Ascending
<1> QED
  BY <1>7, <1>8, <1>9 DEF Taken

(* A call's submission stamp is below its completion stamp.                *)
Ordered ==
    /\ \A k \in DOMAIN records : records[k].rec = "event" => records[k].i < records[k].j
    /\ \A t \in Threads : frame[t].step = "emit" => frame[t].i < frame[t].j

Stamped == Shaped /\ Taken /\ Ordered

LEMMA StampedInit == Init => Stamped
<1> SUFFICES ASSUME Init PROVE Stamped
  OBVIOUS
<1>1. records = <<>> /\ DOMAIN records = {} /\ counter = 0
  <2>1. records = <<>> /\ counter = 0
    BY DEF Init
  <2>2. Len(<<>>) = 0 /\ DOMAIN <<>> = 1..0
    OBVIOUS
  <2> QED
    BY <2>1, <2>2
<1>2. \A t \in Threads : frame[t].step = "idle"
  BY DEF Init, Idle
<1>3. \A t \in Threads : Carries(t) = {}
  BY <1>2 DEF Carries, OPEN, RETURNED
<1>4. IsSequence(records)
  BY <1>1, EmptySeq DEF IsSequence
<1> QED
  BY <1>1, <1>2, <1>3, <1>4, ShapedInit DEF Stamped, Taken, RecordsSound, Apart, Ascending, Ordered

LEMMA SameCarries ==
    ASSUME NEW t \in Threads, Others(t)
    PROVE  \A u \in Threads \ {t} : Carries(u)' = Carries(u)
BY DEF Others, Carries

(* Every action takes a stamp, keeps what the thread has, or writes it.    *)
LEMMA StampedNext ==
    ASSUME Stamped, [Next]_vars
    PROVE  Stamped'
<1> USE DEF Stamped
<1>1. CASE UNCHANGED vars
  <2>1. UNCHANGED <<program, frame, records, counter>>
    BY <1>1 DEF vars
  <2>2. Shaped' /\ Ordered'
    BY <2>1 DEF Shaped, Ordered, Threads
  <2>3. Threads' = Threads /\ \A t \in Threads : Carries(t)' = Carries(t)
    BY <2>1 DEF Threads, Carries
  <2>4. RecordsSound'
    BY <2>1, <2>3 DEF Taken, RecordsSound, StampsOf, IsSequence
  <2>5. Apart'
    BY <2>1, <2>3 DEF Taken, Apart, StampsOf
  <2>6. Ascending'
    BY <2>1, <2>3 DEF Taken, Ascending, StampsOf
  <2> QED
    BY <2>2, <2>4, <2>5, <2>6 DEF Taken
<1>2. ASSUME NEW t \in Threads, NEW c, Enter(t, c)
      PROVE  Stamped'
  <2>1. /\ Shaped' /\ Others(t) /\ Threads' = Threads
        /\ frame[t].step = "idle" /\ frame'[t].step \in {"marker", "perform"}
        /\ frame'[t].i = counter /\ counter' = counter + 1 /\ records' = records
    BY <1>2, EnterView DEF Threads
  <2>2. Carries(t)' = Carries(t) \cup {counter}
    BY <2>1 DEF Carries, OPEN, RETURNED
  <2>3. Taken'
    BY <2>1, <2>2, SameCarries, TakeStamp
  <2>4. Ordered'
    BY <2>1 DEF Ordered, Others
  <2> QED
    BY <2>1, <2>3, <2>4
<1>3. ASSUME NEW t \in Threads, EmitMarker(t)
      PROVE  Stamped'
  <2> DEFINE r == [rec |-> "marker", i |-> frame[t].i, tid |-> t]
  <2>1. /\ Shaped' /\ Others(t) /\ Threads' = Threads
        /\ frame[t].step = "marker" /\ frame'[t].step = "idle"
        /\ records' = Append(records, r) /\ counter' = counter
    BY <1>3, EmitMarkerView DEF Threads
  <2>2. r.rec = "marker" /\ r.tid = t /\ StampsOf(r) = Carries(t) /\ Carries(t)' = {}
    BY <2>1 DEF Carries, OPEN, RETURNED, StampsOf
  <2> HIDE DEF r
  <2>3. Taken'
    <3>1. \A u \in Threads \ {t} : Carries(u)' = Carries(u)
      BY <2>1, SameCarries
    <3> QED
      BY <2>1, <2>2, <3>1, WriteStamps
  <2>4. Ordered'
    <3>1. \A k \in DOMAIN records' :
            (k \in DOMAIN records /\ records'[k] = records[k]) \/ records'[k] = r
      BY <2>1, AppendOne DEF Taken, RecordsSound
    <3> QED
      BY <2>1, <2>2, <3>1 DEF Ordered, Others
  <2> QED
    BY <2>1, <2>3, <2>4
<1>4. ASSUME NEW t \in Threads, Perform(t) \/ Between(t)
      PROVE  Stamped'
  <2>1. /\ Shaped' /\ Others(t) /\ Threads' = Threads
        /\ frame[t].step \in OPEN \ {"emit"} /\ frame'[t].step \in OPEN \ {"emit"}
        /\ frame'[t].i = frame[t].i
        /\ records' = records /\ counter' = counter
    BY <1>4, PerformView, BetweenView DEF Threads, OPEN, RETURNED
  <2>2. Carries(t)' \subseteq Carries(t)
    BY <2>1 DEF Carries
  <2>3. Taken'
    BY <2>1, <2>2, SameCarries, KeepStamps
  <2>4. Ordered'
    BY <2>1 DEF Ordered, Others
  <2> QED
    BY <2>1, <2>3, <2>4
<1>5. ASSUME NEW t \in Threads, Complete(t)
      PROVE  Stamped'
  <2>1. /\ Shaped' /\ Others(t) /\ Threads' = Threads
        /\ frame[t].step = "complete" /\ records' = records
    BY <1>5, CompleteView DEF Threads
  <2>2. CASE frame'[t].step \in {"idle", "clear"} /\ UNCHANGED counter
    <3>1. Carries(t)' \subseteq Carries(t)
      BY <2>2 DEF Carries, OPEN, RETURNED
    <3>2. Taken'
      BY <2>1, <2>2, <3>1, SameCarries, KeepStamps
    <3>3. Ordered'
      BY <2>1, <2>2 DEF Ordered, Others
    <3> QED
      BY <2>1, <3>2, <3>3
  <2>3. CASE /\ frame'[t].step = "emit" /\ frame'[t].i = frame[t].i
             /\ frame'[t].j = counter /\ counter' = counter + 1
    <3>1. Carries(t)' = Carries(t) \cup {counter} /\ frame[t].i \in Carries(t)
      BY <2>1, <2>3 DEF Carries, OPEN, RETURNED
    <3>2. Taken'
      BY <2>1, <2>3, <3>1, SameCarries, TakeStamp
    <3>3. frame'[t].i < frame'[t].j
      BY <2>3, <3>1 DEF Taken, RecordsSound
    <3>4. Ordered'
      BY <2>1, <3>3 DEF Ordered, Others
    <3> QED
      BY <2>1, <3>2, <3>4
  <2> QED
    BY <2>2, <2>3, <1>5, CompleteView
<1>6. ASSUME NEW t \in Threads, Emit(t)
      PROVE  Stamped'
  <2>1. PICK r : /\ records' = Append(records, r)
                 /\ r.rec = "event" /\ r.i = frame[t].i /\ r.j = frame[t].j /\ r.tid = t
    BY <1>6, EmitRecord
  <2>2. /\ Shaped' /\ Others(t) /\ Threads' = Threads
        /\ frame[t].step = "emit" /\ frame'[t].step \in {"idle", "clear"}
        /\ counter' = counter
    BY <1>6, EmitView DEF Threads
  <2>3. StampsOf(r) = Carries(t) /\ Carries(t)' = {}
    BY <2>1, <2>2 DEF Carries, OPEN, RETURNED, StampsOf
  <2>4. Taken'
    BY <2>1, <2>2, <2>3, SameCarries, WriteStamps
  <2>5. Ordered'
    <3>1. \A k \in DOMAIN records' :
            (k \in DOMAIN records /\ records'[k] = records[k]) \/ records'[k] = r
      BY <2>1, AppendOne DEF Taken, RecordsSound
    <3>2. r.i < r.j
      BY <2>1, <2>2 DEF Ordered
    <3> QED
      BY <2>2, <3>1, <3>2 DEF Ordered, Others
  <2> QED
    BY <2>2, <2>4, <2>5
<1>7. ASSUME NEW t \in Threads, Clear(t)
      PROVE  Stamped'
  <2>1. /\ Shaped' /\ Others(t) /\ Threads' = Threads
        /\ frame'[t].step = "idle"
        /\ records' = records /\ counter' = counter
    BY <1>7, ClearView DEF Threads
  <2>2. Carries(t)' \subseteq Carries(t)
    BY <2>1 DEF Carries, OPEN, RETURNED
  <2>3. Taken'
    BY <2>1, <2>2, SameCarries, KeepStamps
  <2>4. Ordered'
    BY <2>1 DEF Ordered, Others
  <2> QED
    BY <2>1, <2>3, <2>4
<1> QED
  BY <1>1, <1>2, <1>3, <1>4, <1>5, <1>6, <1>7 DEF Next, Between

-----------------------------------------------------------------------------
(* The times.  The history has one entry for each event of the trace, and  *)
(* whatever ended before something was submitted was performed before it.  *)

Matched ==
    /\ IsSequence(truth)
    /\ \A k \in DOMAIN records :
         records[k].rec = "event" => \E m \in DOMAIN truth : truth[m].i = records[k].i
    /\ \A m \in DOMAIN truth :
         \E k \in DOMAIN records : records[k].rec = "event" /\ records[k].i = truth[m].i
    /\ \A l, m \in DOMAIN truth : l # m => truth[l].i # truth[m].i

Timed ==
    /\ performed \in Nat
    /\ \A m \in DOMAIN truth : truth[m].at.nth \in 1..performed
    /\ \A t \in Threads : frame[t].step \in RETURNED => frame[t].at.nth \in 1..performed

(* A call whose completion stamp is j was the m-th the kernel performed.   *)
EndedAt(j, m) ==
    \/ \E k \in DOMAIN records, l \in DOMAIN truth :
         /\ records[k].rec = "event" /\ records[k].i = truth[l].i
         /\ records[k].j = j /\ truth[l].at.nth = m
    \/ \E t \in Threads : frame[t].step = "emit" /\ frame[t].j = j /\ frame[t].at.nth = m

(* A call whose submission stamp is i was the n-th.                        *)
SubmittedAt(i, n) ==
    \/ \E l \in DOMAIN truth : truth[l].i = i /\ truth[l].at.nth = n
    \/ \E t \in Threads : frame[t].step \in RETURNED /\ frame[t].i = i /\ frame[t].at.nth = n

Bracketed == \A j, m, i, n : (EndedAt(j, m) /\ SubmittedAt(i, n) /\ j < i) => m < n

Tracked == Stamped /\ Matched /\ Timed /\ Bracketed

(* A step keeps the order when what it ends has the newest stamp and what  *)
(* it performs is performed last.                                          *)
LEMMA BracketedNext ==
    ASSUME Tracked,
           \A j, m : EndedAt(j, m)' => EndedAt(j, m) \/ j = counter,
           \A i, n : SubmittedAt(i, n)' =>
               SubmittedAt(i, n) \/ (n = performed + 1 /\ i \in 0..(counter - 1))
    PROVE  Bracketed'
<1>1. ASSUME NEW j, NEW m, EndedAt(j, m)
      PROVE  m \in 1..performed
  BY <1>1 DEF EndedAt, Tracked, Timed, RETURNED
<1>2. ASSUME NEW i, NEW n, SubmittedAt(i, n)
      PROVE  i \in 0..(counter - 1)
  <2>1. \A k \in DOMAIN records : records[k].rec = "event" => records[k].i \in 0..(counter - 1)
    BY DEF Tracked, Stamped, Taken, RecordsSound, StampsOf
  <2>2. \A t \in Threads : frame[t].step \in RETURNED => frame[t].i \in 0..(counter - 1)
    BY DEF Tracked, Stamped, Taken, RecordsSound, Carries, OPEN
  <2> QED
    BY <1>2, <2>1, <2>2 DEF SubmittedAt, Tracked, Matched
<1>3. counter \in Nat /\ performed \in Nat
  BY DEF Tracked, Stamped, Taken, RecordsSound, Timed
<1>4. ASSUME NEW j, NEW m, NEW i, NEW n, EndedAt(j, m)', SubmittedAt(i, n)', j < i
      PROVE  m < n
  <2>1. i \in 0..(counter - 1)
    BY <1>2, <1>4
  <2>2. EndedAt(j, m)
    BY <1>3, <1>4, <2>1
  <2>3. CASE SubmittedAt(i, n)
    BY <1>4, <2>2, <2>3 DEF Tracked, Bracketed
  <2>4. CASE n = performed + 1
    BY <1>1, <1>3, <2>2, <2>4
  <2> QED
    BY <1>4, <2>3, <2>4
<1> QED
  BY <1>4 DEF Bracketed

LEMMA TrackedInit == Init => Tracked
<1> SUFFICES ASSUME Init PROVE Tracked
  OBVIOUS
<1>1. records = <<>> /\ truth = <<>> /\ performed = 0
  BY DEF Init, history
<1>2. Len(<<>>) = 0 /\ DOMAIN <<>> = 1..0 /\ IsSequence(<<>>)
  BY EmptySeq DEF IsSequence
<1>3. \A t \in Threads : frame[t].step = "idle"
  BY DEF Init, Idle
<1>4. Matched /\ Timed
  BY <1>1, <1>2, <1>3 DEF Matched, Timed, RETURNED
<1>5. Bracketed
  BY <1>1, <1>2, <1>3 DEF Bracketed, EndedAt
<1> QED
  BY <1>4, <1>5, StampedInit DEF Tracked

(* A step that writes no record of an event.                               *)
LEMMA TrackedSilent ==
    ASSUME Tracked, NEW t \in Threads, Threads' = Threads, Others(t), truth' = truth,
           \/ records' = records
           \/ \E r : r.rec = "marker" /\ records' = Append(records, r),
           performed' \in {performed, performed + 1},
           frame'[t].step \in RETURNED => frame'[t].at.nth \in 1..performed',
           \A j, m : frame'[t].step = "emit" /\ frame'[t].j = j /\ frame'[t].at.nth = m =>
               EndedAt(j, m) \/ j = counter,
           \A i, n : frame'[t].step \in RETURNED /\ frame'[t].i = i /\ frame'[t].at.nth = n =>
               SubmittedAt(i, n) \/ (n = performed + 1 /\ i \in 0..(counter - 1))
    PROVE  Matched' /\ Timed' /\ Bracketed'
<1> DEFINE SameEvents ==
             /\ \A k \in DOMAIN records' : records'[k].rec = "event" =>
                  k \in DOMAIN records /\ records'[k] = records[k]
             /\ \A k \in DOMAIN records : k \in DOMAIN records' /\ records'[k] = records[k]
<1>1. SameEvents
  <2>1. CASE records' = records
    BY <2>1
  <2>2. ASSUME NEW r, r.rec = "marker", records' = Append(records, r)
        PROVE  SameEvents
    <3>1. /\ Len(records) \in Nat /\ DOMAIN records = 1..Len(records)
          /\ DOMAIN records' = 1..(Len(records) + 1)
          /\ \A k \in DOMAIN records : records'[k] = records[k]
          /\ records'[Len(records) + 1] = r
      BY <2>2, AppendOne DEF Tracked, Stamped, Taken, RecordsSound
    <3>2. \A k \in DOMAIN records' : k \in DOMAIN records \/ k = Len(records) + 1
      BY <3>1
    <3>3. \A k \in DOMAIN records : k \in DOMAIN records'
      BY <3>1
    <3>4. records'[Len(records) + 1].rec # "event"
      BY <2>2, <3>1
    <3> QED
      BY <3>1, <3>2, <3>3, <3>4
  <2> QED
    BY <2>1, <2>2
<1>2. Matched'
  BY <1>1 DEF Tracked, Matched, IsSequence
<1>3. Timed'
  <2>1. performed \in Nat /\ performed' \in Nat /\ 1..performed \subseteq 1..performed'
    BY DEF Tracked, Timed
  <2>2. \A m \in DOMAIN truth' : truth'[m].at.nth \in 1..performed'
    BY <2>1 DEF Tracked, Timed
  <2>3. \A u \in Threads : frame'[u].step \in RETURNED => frame'[u].at.nth \in 1..performed'
    BY <2>1 DEF Tracked, Timed, Others
  <2> QED
    BY <2>1, <2>2, <2>3 DEF Timed
<1>4. ASSUME NEW j, NEW m, EndedAt(j, m)'
      PROVE  EndedAt(j, m) \/ j = counter
  BY <1>1, <1>4 DEF EndedAt, Others
<1>5. ASSUME NEW i, NEW n, SubmittedAt(i, n)'
      PROVE  SubmittedAt(i, n) \/ (n = performed + 1 /\ i \in 0..(counter - 1))
  BY <1>5 DEF SubmittedAt, Others
<1>6. Bracketed'
  BY <1>4, <1>5, BracketedNext
<1> QED
  BY <1>2, <1>3, <1>6

(* The step that does.                                                     *)
LEMMA TrackedEmit ==
    ASSUME Tracked, NEW t \in Threads, Threads' = Threads, Others(t),
           frame[t].step = "emit", frame'[t].step \in {"idle", "clear"},
           performed' = performed,
           truth' = Append(truth, [i |-> frame[t].i, at |-> frame[t].at]),
           NEW r, records' = Append(records, r),
           r.rec = "event", r.i = frame[t].i, r.j = frame[t].j
    PROVE  Matched' /\ Timed' /\ Bracketed'
<1> DEFINE x == [i |-> frame[t].i, at |-> frame[t].at]
           n == Len(records) + 1
           p == Len(truth) + 1
<1>1. /\ \A k \in DOMAIN records : k \in DOMAIN records' /\ records'[k] = records[k]
      /\ n \in DOMAIN records' /\ records'[n] = r
      /\ \A k \in DOMAIN records' : k \in DOMAIN records \/ k = n
  BY AppendOne DEF Tracked, Stamped, Taken, RecordsSound
<1>2. /\ \A l \in DOMAIN truth : l \in DOMAIN truth' /\ truth'[l] = truth[l]
      /\ p \in DOMAIN truth' /\ truth'[p] = x
      /\ \A l \in DOMAIN truth' : l \in DOMAIN truth \/ l = p
      /\ IsSequence(truth')
  BY AppendOne DEF Tracked, Matched
<1>3. x.i = frame[t].i /\ x.at = frame[t].at
  OBVIOUS
<1> HIDE DEF x, n, p
<1>4. \A k \in DOMAIN records : records[k].rec = "event" => records[k].i # frame[t].i
  BY DEF Tracked, Stamped, Taken, Apart, StampsOf, Carries
<1>5. \A l \in DOMAIN truth : truth[l].i # frame[t].i
  BY <1>4 DEF Tracked, Matched
<1>6. Matched'
  <2>1. \A k \in DOMAIN records' :
          records'[k].rec = "event" => \E l \in DOMAIN truth' : truth'[l].i = records'[k].i
    BY <1>1, <1>2, <1>3 DEF Tracked, Matched
  <2>2. \A l \in DOMAIN truth' :
          \E k \in DOMAIN records' : records'[k].rec = "event" /\ records'[k].i = truth'[l].i
    <3>1. ASSUME NEW l \in DOMAIN truth
          PROVE  \E k \in DOMAIN records' : records'[k].rec = "event" /\ records'[k].i = truth'[l].i
      <4>1. PICK k \in DOMAIN records : records[k].rec = "event" /\ records[k].i = truth[l].i
        BY DEF Tracked, Matched
      <4> QED
        BY <4>1, <1>1, <1>2
    <3>2. records'[n].rec = "event" /\ records'[n].i = truth'[p].i
      BY <1>1, <1>2, <1>3
    <3> QED
      BY <3>1, <3>2, <1>1, <1>2
  <2>3. \A l, m \in DOMAIN truth' : l # m => truth'[l].i # truth'[m].i
    BY <1>2, <1>3, <1>5 DEF Tracked, Matched
  <2>4. IsSequence(truth)'
    BY <1>2 DEF IsSequence
  <2> QED
    BY <2>1, <2>2, <2>3, <2>4 DEF Matched
<1>7. Timed'
  BY <1>2, <1>3 DEF Tracked, Timed, Others, RETURNED
<1>8. ASSUME NEW j, NEW m, EndedAt(j, m)'
      PROVE  EndedAt(j, m)
  <2>1. CASE \E u \in Threads : frame'[u].step = "emit" /\ frame'[u].j = j /\ frame'[u].at.nth = m
    BY <2>1 DEF EndedAt, Others
  <2>2. ASSUME NEW k \in DOMAIN records', NEW l \in DOMAIN truth',
               records'[k].rec = "event", records'[k].i = truth'[l].i,
               records'[k].j = j, truth'[l].at.nth = m
        PROVE  EndedAt(j, m)
    <3>1. (k \in DOMAIN records /\ l \in DOMAIN truth) \/ (k = n /\ l = p)
      BY <2>2, <1>1, <1>2, <1>3, <1>4, <1>5
    <3>2. CASE k \in DOMAIN records /\ l \in DOMAIN truth
      BY <2>2, <3>2, <1>1, <1>2 DEF EndedAt
    <3>3. CASE k = n /\ l = p
      BY <2>2, <3>3, <1>1, <1>2, <1>3 DEF EndedAt
    <3> QED
      BY <3>1, <3>2, <3>3
  <2> QED
    BY <2>1, <2>2, <1>8 DEF EndedAt
<1>9. ASSUME NEW i, NEW m, SubmittedAt(i, m)'
      PROVE  SubmittedAt(i, m)
  BY <1>9, <1>2, <1>3 DEF SubmittedAt, Others, RETURNED
<1>10. Bracketed'
  BY <1>8, <1>9, BracketedNext
<1> QED
  BY <1>6, <1>7, <1>10

(* One event ends with the newest stamp, one is performed last; the rest   *)
(* change nothing the order is about.                                      *)
LEMMA TrackedNext ==
    ASSUME Tracked, [Next]_vars
    PROVE  Tracked'
<1>1. Stamped' /\ Shaped
  BY StampedNext DEF Tracked, Stamped
<1>2. performed \in Nat /\ counter \in Nat
  BY DEF Tracked, Timed, Stamped, Taken, RecordsSound
<1> SUFFICES Matched' /\ Timed' /\ Bracketed'
  BY <1>1 DEF Tracked
<1>3. CASE UNCHANGED vars
  <2>1. UNCHANGED <<program, frame, records, counter, performed, truth>>
    BY <1>3 DEF vars, history
  <2> QED
    BY <2>1 DEF Tracked, Matched, Timed, Bracketed, EndedAt, SubmittedAt, IsSequence, Threads
<1>4. ASSUME NEW t \in Threads, NEW c, Enter(t, c)
      PROVE  Matched' /\ Timed' /\ Bracketed'
  <2>1. /\ Others(t) /\ Threads' = Threads /\ frame'[t].step \in {"marker", "perform"}
        /\ UNCHANGED <<records, performed, truth>>
    BY <1>1, <1>4, EnterView DEF Threads
  <2>2. frame'[t].step \notin RETURNED /\ frame'[t].step # "emit"
    BY <2>1 DEF RETURNED
  <2> QED
    BY <1>2, <2>1, <2>2, TrackedSilent
<1>5. ASSUME NEW t \in Threads, EmitMarker(t)
      PROVE  Matched' /\ Timed' /\ Bracketed'
  <2> DEFINE r == [rec |-> "marker", i |-> frame[t].i, tid |-> t]
  <2>1. /\ Others(t) /\ Threads' = Threads /\ frame'[t].step = "idle"
        /\ records' = Append(records, r)
        /\ truth' = truth /\ performed' = performed + 1
    BY <1>1, <1>5, EmitMarkerView DEF Threads
  <2>2. r.rec = "marker"
    OBVIOUS
  <2>3. frame'[t].step \notin RETURNED /\ frame'[t].step # "emit"
    BY <2>1 DEF RETURNED
  <2> HIDE DEF r
  <2> QED
    BY <1>2, <2>1, <2>2, <2>3, TrackedSilent
<1>6. ASSUME NEW t \in Threads, Perform(t)
      PROVE  Matched' /\ Timed' /\ Bracketed'
  <2>1. /\ Others(t) /\ Threads' = Threads
        /\ frame[t].step = "perform" /\ frame'[t].step \in RETURNED \ {"emit"}
        /\ frame'[t].i = frame[t].i /\ frame'[t].at.nth = performed + 1
        /\ performed' = performed + 1 /\ UNCHANGED <<records, truth>>
    BY <1>1, <1>6, PerformView DEF Threads
  <2>2. frame[t].i \in 0..(counter - 1)
    BY <2>1 DEF Tracked, Stamped, Taken, RecordsSound, Carries, OPEN, RETURNED
  <2>3. frame'[t].at.nth \in 1..performed'
    BY <1>2, <2>1
  <2> QED
    BY <1>2, <2>1, <2>2, <2>3, TrackedSilent
<1>7. ASSUME NEW t \in Threads, Between(t)
      PROVE  Matched' /\ Timed' /\ Bracketed'
  <2>1. /\ Others(t) /\ Threads' = Threads
        /\ frame[t].step \in RETURNED /\ frame'[t].step \in RETURNED \ {"emit"}
        /\ frame'[t].i = frame[t].i /\ frame'[t].at = frame[t].at
        /\ UNCHANGED <<records, performed, truth>>
    BY <1>1, <1>7, BetweenView DEF Threads
  <2>2. frame'[t].at.nth \in 1..performed'
    BY <2>1 DEF Tracked, Timed
  <2>3. \A i, n : frame'[t].i = i /\ frame'[t].at.nth = n => SubmittedAt(i, n)
    BY <2>1 DEF SubmittedAt
  <2> QED
    BY <1>2, <2>1, <2>2, <2>3, TrackedSilent
<1>8. ASSUME NEW t \in Threads, Complete(t)
      PROVE  Matched' /\ Timed' /\ Bracketed'
  <2>1. /\ Others(t) /\ Threads' = Threads /\ frame[t].step = "complete"
        /\ UNCHANGED <<records, performed, truth>>
    BY <1>1, <1>8, CompleteView DEF Threads
  <2>2. CASE frame'[t].step \in {"idle", "clear"}
    <3>1. frame'[t].step \notin RETURNED /\ frame'[t].step # "emit"
      BY <2>2 DEF RETURNED
    <3> QED
      BY <1>2, <2>1, <3>1, TrackedSilent
  <2>3. CASE frame'[t].i = frame[t].i /\ frame'[t].at = frame[t].at /\ frame'[t].j = counter
    <3>1. frame'[t].at.nth \in 1..performed'
      BY <2>1, <2>3 DEF Tracked, Timed, RETURNED
    <3>2. \A i, n : frame'[t].i = i /\ frame'[t].at.nth = n => SubmittedAt(i, n)
      BY <2>1, <2>3 DEF SubmittedAt, RETURNED
    <3> QED
      BY <1>2, <2>1, <2>3, <3>1, <3>2, TrackedSilent
  <2> QED
    BY <1>1, <1>8, <2>2, <2>3, CompleteView
<1>9. ASSUME NEW t \in Threads, Emit(t)
      PROVE  Matched' /\ Timed' /\ Bracketed'
  <2>1. PICK r : /\ records' = Append(records, r)
                 /\ r.rec = "event" /\ r.i = frame[t].i /\ r.j = frame[t].j /\ r.tid = t
    BY <1>9, EmitRecord
  <2>2. /\ Others(t) /\ Threads' = Threads
        /\ frame[t].step = "emit" /\ frame'[t].step \in {"idle", "clear"}
        /\ truth' = Append(truth, [i |-> frame[t].i, at |-> frame[t].at])
        /\ performed' = performed
    BY <1>1, <1>9, EmitView DEF Threads
  <2> QED
    BY <2>1, <2>2, TrackedEmit
<1>10. ASSUME NEW t \in Threads, Clear(t)
       PROVE  Matched' /\ Timed' /\ Bracketed'
  <2>1. /\ Others(t) /\ Threads' = Threads /\ frame'[t].step = "idle"
        /\ UNCHANGED <<records, performed, truth>>
    BY <1>1, <1>10, ClearView DEF Threads
  <2>2. frame'[t].step \notin RETURNED /\ frame'[t].step # "emit"
    BY <2>1 DEF RETURNED
  <2> QED
    BY <1>2, <2>1, <2>2, TrackedSilent
<1> QED
  BY <1>3, <1>4, <1>5, <1>6, <1>7, <1>8, <1>9, <1>10 DEF Next, Between

(* What the history says of an event is what At returns.                   *)
LEMMA AtIsTruth ==
    ASSUME Matched, NEW e, NEW l \in DOMAIN truth, truth[l].i = e.i
    PROVE  At(e) = truth[l].at
<1>1. truth[l] \in {truth[n] : n \in DOMAIN truth}
  OBVIOUS
<1>2. \A x \in {truth[n] : n \in DOMAIN truth} : x.i = e.i => x = truth[l]
  BY DEF Matched
<1> QED
  BY <1>1, <1>2 DEF At

LEMMA TrackedOrders == Tracked => StampsOrderCalls
<1> SUFFICES ASSUME Tracked PROVE StampsOrderCalls
  OBVIOUS
<1>1. \A e \in Events : \E k \in DOMAIN records : records[k].rec = "event" /\ e = records[k]
  BY DEF Events, RecordsOf
<1>2. OneOrder
  BY <1>1 DEF OneOrder, Tracked, Stamped, Taken, Apart, Ascending, Ordered
<1>3. ASSUME NEW a \in Events, NEW b \in Events, a.j < b.i
      PROVE  At(a).nth < At(b).nth
  <2>1. PICK k \in DOMAIN records : records[k].rec = "event" /\ a = records[k]
    BY <1>1
  <2>2. PICK l \in DOMAIN truth : truth[l].i = a.i
    BY <2>1 DEF Tracked, Matched
  <2>3. PICK m \in DOMAIN truth : truth[m].i = b.i
    BY <1>1 DEF Tracked, Matched
  <2>4. EndedAt(a.j, truth[l].at.nth)
    BY <2>1, <2>2 DEF EndedAt
  <2>5. SubmittedAt(b.i, truth[m].at.nth)
    BY <2>3 DEF SubmittedAt
  <2>6. truth[l].at.nth < truth[m].at.nth
    BY <1>3, <2>4, <2>5 DEF Tracked, Bracketed
  <2> QED
    BY <2>2, <2>3, <2>6, AtIsTruth DEF Tracked
<1> QED
  BY <1>2, <1>3 DEF StampsOrderCalls

(* trace-format.md: "i and j come from one counter, so the two stamps of   *)
(* all events together form a total order over submission and completion   *)
(* points."  Whatever the target's threads do, no stamp is given twice,    *)
(* and a call that completed before another was submitted was performed by *)
(* the kernel before it.                                                   *)
THEOREM StampsOrderTheCalls == Spec => []StampsOrderCalls
<1>1. Init => Tracked
  BY TrackedInit
<1>2. Tracked /\ [Next]_vars => Tracked'
  BY TrackedNext
<1>3. Tracked => StampsOrderCalls
  BY TrackedOrders
<1> QED
  BY <1>1, <1>2, <1>3, PTL DEF Spec

-----------------------------------------------------------------------------
(* One thread.  What the tables and the frame say of a descriptor is then  *)
(* what the kernel does with it, if the descriptor has a place in them.    *)

Fits == \A fd \in Fds : fd < MAX_FD

LEMMA OneThreadOnly ==
    ASSUME IsFiniteSet(Threads), Alone
    PROVE  \E t : Threads = {t}
BY FS_Singleton DEF Alone

LEMMA Smallest ==
    ASSUME NEW T \in SUBSET Nat, T # {}
    PROVE  \E x \in T : \A y \in T : x <= y
<1>1. PICK n : n \in T
  OBVIOUS
<1> DEFINE B == 0..n
           F == {0..x : x \in {y \in T : y <= n}}
<1>2. F \subseteq FiniteSubsetsOf(B) /\ F # {}
  <2>1. \A x \in T : IsFiniteSet(0..x)
    BY FS_Interval
  <2>2. 0..n \in F
    BY <1>1
  <2>3. ASSUME NEW x \in T, x <= n PROVE 0..x \in SUBSET B
    BY <1>1, <2>3
  <2> QED
    BY <2>1, <2>2, <2>3 DEF FiniteSubsetsOf
<1>3. PICK U \in F : \A V \in F : ~(<<V, U>> \in StrictSubsetOrdering(B))
  <2> HIDE DEF B, F
  <2>1. IsWellFoundedOn(StrictSubsetOrdering(B), FiniteSubsetsOf(B))
    BY FS_StrictSubsetOrderingWellFounded
  <2> QED
    BY <1>2, <2>1, WFMin
<1>4. PICK x \in T : x <= n /\ U = 0..x
  OBVIOUS
<1>5. ASSUME NEW y \in T PROVE x <= y
  <2> SUFFICES ASSUME y < x PROVE FALSE
    BY <1>4
  <2>1. 0..y \in F
    BY <1>1, <1>4
  <2>2. 0..y \subseteq 0..x /\ 0..y \subseteq B /\ 0..x \subseteq B /\ 0..y # 0..x
    BY <1>1, <1>4
  <2> HIDE DEF B, F
  <2>3. <<0..y, 0..x>> \in StrictSubsetOrdering(B)
    BY <2>2 DEF StrictSubsetOrdering
  <2> QED
    BY <2>1, <2>3, <1>3, <1>4
<1> QED
  BY <1>5

(* The calls of the target, without their spelling.                        *)
LEMMA CallIs ==
    ASSUME NEW n, NEW fd, NEW p, NEW q, NEW v, NEW f
    PROVE  LET c == Call(n, fd, p, q, v, f)
           IN  c.call = n /\ c.fd = fd /\ c.path = p /\ c.path2 = q /\ c.value = v /\ c.flags = f
BY DEF Call

MovedPath(p) == p \in program.paths /\ MayMove(p)

LEMMA TargetCallsAre ==
    ASSUME NEW c \in TargetCalls
    PROVE  /\ c.call \in FdCall => c.fd \in Fds /\ Usable(c.fd)
           /\ c.call = "open" => c.fd = -1 /\ c.path \in program.paths \cup {MARKER}
                                 /\ c.flags \in OpenFlags
           /\ c.call = "rename" => MovedPath(c.path) /\ MovedPath(c.path2) /\ c.path # c.path2
           /\ c.call = "unlink" => MovedPath(c.path)
           /\ c.call \in {"write", "pwrite"} => c.value \in program.values
           /\ c.call \notin {"write", "pwrite"} => c.value = NONE
           /\ c.call \in {"pwrite", "ftruncate", "fsync"} => desc[c.fd].path # MARKER
           /\ c.call \in CALLS
<1> DEFINE Good ==
           /\ c.call \in FdCall => c.fd \in Fds /\ Usable(c.fd)
           /\ c.call = "open" => c.fd = -1 /\ c.path \in program.paths \cup {MARKER}
                                 /\ c.flags \in OpenFlags
           /\ c.call = "rename" => MovedPath(c.path) /\ MovedPath(c.path2)
           /\ c.call = "unlink" => MovedPath(c.path)
           /\ c.call \in {"write", "pwrite"} => c.value \in program.values
           /\ c.call \notin {"write", "pwrite"} => c.value = NONE
           /\ c.call \in CALLS
<1>2. CASE c \in Opens
  <2>1. PICK p \in program.paths \cup {MARKER}, f \in OpenFlags : c = Call("open", -1, p, NONE, NONE, f)
    BY <1>2 DEF Opens
  <2>2. c.call = "open" /\ c.fd = -1 /\ c.path = p /\ c.flags = f /\ c.value = NONE
    BY <2>1, CallIs
  <2> QED
    BY <2>2 DEF FdCall, CALLS, TargetCalls
<1>3. CASE c \in Writes
  <2>1. PICK n \in {"write", "pwrite"}, fd \in {d \in Fds : Usable(d)}, v \in program.values :
            c = Call(n, fd, NONE, NONE, v, NOFLAGS)
    BY <1>3 DEF Writes
  <2>2. c.call = n /\ c.fd = fd /\ c.value = v
    BY <2>1, CallIs
  <2> QED
    BY <2>1, <2>2 DEF FdCall, CALLS, TargetCalls
<1>4. CASE c \in DescriptorCalls
  <2>1. PICK n \in {"ftruncate", "fsync"}, fd \in {d \in Fds : Usable(d)} :
            c = Call(n, fd, NONE, NONE, NONE, NOFLAGS)
    BY <1>4 DEF DescriptorCalls
  <2>2. c.call = n /\ c.fd = fd /\ c.value = NONE
    BY <2>1, CallIs
  <2> QED
    BY <2>1, <2>2 DEF FdCall, CALLS, TargetCalls
<1>5. CASE c \in Closes
  <2>1. PICK fd \in {d \in Fds : Usable(d)} : c = Call("close", fd, NONE, NONE, NONE, NOFLAGS)
    BY <1>5 DEF Closes
  <2>2. c.call = "close" /\ c.fd = fd /\ c.value = NONE
    BY <2>1, CallIs
  <2> QED
    BY <2>1, <2>2 DEF FdCall, CALLS, TargetCalls
<1>6. CASE c \in Moves
  <2>1. CASE \E p, q \in {r \in program.paths : MayMove(r)} : c = Call("rename", -1, p, q, NONE, NOFLAGS)
    <3>1. PICK p, q \in {r \in program.paths : MayMove(r)} : c = Call("rename", -1, p, q, NONE, NOFLAGS)
      BY <2>1
    <3>2. c.call = "rename" /\ c.path = p /\ c.path2 = q /\ c.value = NONE
      BY <3>1, CallIs
    <3> QED
      BY <3>1, <3>2 DEF FdCall, CALLS, TargetCalls, MovedPath
  <2>2. CASE \E p \in {r \in program.paths : MayMove(r)} : c = Call("unlink", -1, p, NONE, NONE, NOFLAGS)
    <3>1. PICK p \in {r \in program.paths : MayMove(r)} : c = Call("unlink", -1, p, NONE, NONE, NOFLAGS)
      BY <2>2
    <3>2. c.call = "unlink" /\ c.path = p /\ c.value = NONE
      BY <3>1, CallIs
    <3> QED
      BY <3>1, <3>2 DEF FdCall, CALLS, TargetCalls, MovedPath
  <2> QED
    BY <1>6, <2>1, <2>2 DEF Moves
<1> QED
  BY <1>2, <1>3, <1>4, <1>5, <1>6 DEF TargetCalls
-----------------------------------------------------------------------------
(* The descriptor tables of one thread.                                    *)

SAMEFILE == {"write", "pwrite", "ftruncate", "fsync"}

(* The tables, if they are large enough, know descriptor fd as one of p.   *)
Known(fd, p) == Fits => fd_paths[fd] = p /\ (fd_is_marker[fd] <=> p = MARKER)

Tabled ==
    /\ DOMAIN fd_paths = Fds /\ fd_is_marker \in [Fds -> BOOLEAN]
    /\ DOMAIN desc = Fds
    /\ \A fd \in Fds : DOMAIN desc[fd] = {"file", "path", "off"} /\ desc[fd].off \in Nat

(* The call has been made, and the kernel has not been asked.              *)
Asked(t) ==
    frame[t].step \in {"marker", "perform"} =>
        /\ frame[t].call \in CALLS
        /\ frame[t].step = "marker" => frame[t].call = "write"
        /\ frame[t].call = "open" => frame[t].fd = -1
        /\ frame[t].call \in FdCall => frame[t].fd \in Fds /\ desc[frame[t].fd].file # 0
        /\ (Fits /\ frame[t].step = "perform" /\ frame[t].call \in SAMEFILE) =>
               desc[frame[t].fd].path # MARKER
        /\ frame[t].call \in {"rename", "unlink"} => frame[t].path # MARKER

(* Which call goes which way from the kernel to the record.                *)
Routed(t) ==
    /\ frame[t].step # "idle" => frame[t].call \in CALLS
    /\ frame[t].step = "remember" => frame[t].call = "open"
    /\ frame[t].step \in {"store", "fill"} => frame[t].call \in {"write", "pwrite"}
    /\ frame[t].step = "seek" => frame[t].call = "write"
    /\ frame[t].step = "clear" => frame[t].call = "close"

(* A call that the kernel has done is known for what it was done to.       *)
Answered(t) ==
    frame[t].step \in RETURNED =>
        /\ frame[t].ret \in Int
        /\ frame[t].call = "close" => frame[t].fd \in Fds /\ desc[frame[t].fd].file = 0
        /\ (frame[t].call = "open" /\ frame[t].fd \in Fds) => frame[t].ret >= 0
        /\ frame[t].ret >= 0 =>
             /\ frame[t].call \in FdCall \cup {"open"} => frame[t].fd \in Fds
             /\ frame[t].call \notin FdCall => frame[t].at.path = frame[t].path
             /\ frame[t].step = "remember" => desc[frame[t].fd].path = frame[t].path
             /\ (frame[t].call \in FdCall \cup {"open"} /\ frame[t].step # "remember") =>
                    Known(frame[t].fd, frame[t].at.path)
             /\ (Fits /\ (frame[t].step = "emit" \/ frame[t].call \notin {"open", "close"})) =>
                    frame[t].at.path # MARKER
             /\ frame[t].call = "write" =>
                    frame[t].at.off =
                        IF frame[t].step \in {"complete", "emit"} THEN frame[t].off
                        ELSE desc[frame[t].fd].off - Sectors(frame[t].ret)

Cleared(t) ==
    frame[t].step = "clear" => frame[t].fd \in Fds /\ desc[frame[t].fd].file = 0

(* An open descriptor is in the tables, or about to be.                    *)
Tables ==
    \A fd \in Fds : desc[fd].file # 0 =>
        \/ Known(fd, desc[fd].path)
        \/ \E t \in Threads : frame[t].step = "remember" /\ frame[t].ret >= 0 /\ frame[t].fd = fd

(* A record says where the kernel did the call.                            *)
Told ==
    \A k \in DOMAIN records, l \in DOMAIN truth :
        (records[k].rec = "event" /\ records[k].i = truth[l].i /\ records[k].ret >= 0) =>
            /\ Fits => truth[l].at.path # MARKER /\ records[k].path = truth[l].at.path
            /\ records[k].call = "write" => records[k].off = truth[l].at.off

Frames == \A t \in Threads : Asked(t) /\ Routed(t) /\ Answered(t) /\ Cleared(t)

Tracing == program \in Programs /\ Tabled /\ Frames /\ Tables

-----------------------------------------------------------------------------
(* What the kernel may do.                                                 *)

LEMMA FirstFree ==
    ASSUME Fds \subseteq Nat, FreeFds # {}
    PROVE  LowestFree \in FreeFds
<1>1. \E n \in FreeFds : \A m \in FreeFds : n <= m
  BY Smallest DEF FreeFds
<1> QED
  BY <1>1 DEF LowestFree

LEMMA KernelMay ==
    ASSUME NEW f, NEW k \in KernelCalls(f)
    PROVE  \/ k = Failure(f)
           \/ k = KernelCall(f, WRITTEN)
           \/ f.call \in {"write", "pwrite"} /\ k = KernelCall(f, 1)
BY DEF KernelCalls

(* ... to the descriptors.                                                 *)
LEMMA KernelDescriptors ==
    ASSUME Fds \subseteq Nat, NEW f, f.call \in CALLS, f.call = "open" => f.fd = -1,
           NEW k \in KernelCalls(f)
    PROVE  /\ k.ret \in Int
           /\ f.call \in FdCall => k.fd = f.fd
           /\ f.call = "open" =>
                \/ k.ret < 0 /\ k.desc = desc /\ k.fd = -1
                \/ /\ k.fd \in FreeFds /\ k.ret = 0
                   /\ \E file : k.desc = [desc EXCEPT ![k.fd] = [file |-> file, path |-> f.path, off |-> 0]]
           /\ f.call = "write" =>
                \/ k.ret < 0 /\ k.desc = desc
                \/ \E n \in {1, 2} : /\ k.ret = n * SectorSize
                                     /\ k.desc = [desc EXCEPT ![f.fd].off = @ + n]
           /\ f.call = "close" => k.desc = [desc EXCEPT ![f.fd].file = 0]
           /\ f.call \notin {"open", "write", "close"} => k.desc = desc
<1> DEFINE Opened ==
             \/ k.ret < 0 /\ k.desc = desc /\ k.fd = -1
             \/ /\ k.fd \in FreeFds /\ k.ret = 0
                /\ \E file : k.desc = [desc EXCEPT ![k.fd] = [file |-> file, path |-> f.path, off |-> 0]]
           Wrote ==
             \/ k.ret < 0 /\ k.desc = desc
             \/ \E n \in {1, 2} : /\ k.ret = n * SectorSize
                                  /\ k.desc = [desc EXCEPT ![f.fd].off = @ + n]
           Good == /\ k.ret \in Int
                   /\ f.call \in FdCall => k.fd = f.fd
                   /\ f.call = "open" => Opened
                   /\ f.call = "write" => Wrote
                   /\ f.call = "close" => k.desc = [desc EXCEPT ![f.fd].file = 0]
                   /\ f.call \notin {"open", "write", "close"} => k.desc = desc
<1> SUFFICES Good
  OBVIOUS
<1>1. CASE k = Failure(f)
  BY <1>1 DEF Failure, Outcome
<1>2. ASSUME NEW n \in {1, 2}, k = KernelCall(f, n)
      PROVE  Good
  <2>1. n * SectorSize \in Int
    BY DEF SectorSize
  <2>2. CASE f.call = "open"
    <3>1. k = KernelOpen(f)
      BY <1>2, <2>2 DEF KernelCall
    <3>2. Opened /\ k.ret \in Int
      <4>1. CASE FreeFds = {}
        BY <3>1, <4>1 DEF KernelOpen, Outcome
      <4>2. CASE FreeFds # {}
        <5> DEFINE fd == LowestFree
        <5>1. PICK file, ns, fl :
                k = Outcome(0, fd, ns, fl,
                            [desc EXCEPT ![fd] = [file |-> file, path |-> f.path, off |-> 0]])
          BY <3>1, <4>2 DEF KernelOpen
        <5>2. fd \in FreeFds
          BY <4>2, FirstFree
        <5> HIDE DEF fd
        <5>3. /\ k.ret = 0 /\ k.fd = fd
              /\ k.desc = [desc EXCEPT ![fd] = [file |-> file, path |-> f.path, off |-> 0]]
          BY <5>1 DEF Outcome
        <5>4. k.desc = [desc EXCEPT ![k.fd] = [file |-> file, path |-> f.path, off |-> 0]]
          BY <5>3
        <5>5. Opened
          BY <5>2, <5>3, <5>4, Zenon
        <5>6. k.ret \in Int
          BY <5>3
        <5> QED
          BY <5>5, <5>6
      <4> QED
        BY <4>1, <4>2
    <3> QED
      BY <2>2, <3>2 DEF FdCall
  <2>3. CASE f.call = "write"
    <3>1. k = Outcome(n * SectorSize, f.fd, names,
                [files EXCEPT ![desc[f.fd].file] = Overlay(@, f.value, desc[f.fd].off, n)],
                [desc EXCEPT ![f.fd].off = @ + n])
      BY <1>2, <2>3 DEF KernelCall
    <3>2. /\ k.ret = n * SectorSize /\ k.fd = f.fd
          /\ k.desc = [desc EXCEPT ![f.fd].off = @ + n]
      BY <3>1 DEF Outcome
    <3> QED
      BY <2>1, <2>3, <3>2
  <2>4. CASE f.call = "close"
    <3>1. k = Outcome(0, f.fd, names, files, [desc EXCEPT ![f.fd].file = 0])
      BY <1>2, <2>4 DEF KernelCall
    <3> QED
      BY <2>4, <3>1 DEF Outcome
  <2>5. CASE f.call \in {"pwrite", "ftruncate", "fsync"}
    <3>1. k.ret \in Int /\ k.fd = f.fd /\ k.desc = desc
      <4>1. CASE f.call = "pwrite"
        BY <1>2, <2>1, <4>1 DEF KernelCall, Outcome
      <4>2. CASE f.call = "ftruncate"
        BY <1>2, <4>2 DEF KernelCall, Outcome
      <4>3. CASE f.call = "fsync"
        BY <1>2, <4>3 DEF KernelCall, Outcome
      <4> QED
        BY <2>5, <4>1, <4>2, <4>3
    <3> QED
      BY <2>5, <3>1
  <2>6. CASE f.call \in {"rename", "unlink"}
    <3>1. k.ret \in Int /\ k.desc = desc
      <4>1. CASE f.call = "rename"
        BY <1>2, <4>1 DEF KernelCall, Outcome
      <4>2. CASE f.call = "unlink"
        BY <1>2, <4>2 DEF KernelCall, Outcome
      <4> QED
        BY <2>6, <4>1, <4>2
    <3> QED
      BY <2>6, <3>1 DEF FdCall
  <2> QED
    BY <2>2, <2>3, <2>4, <2>5, <2>6 DEF CALLS
<1> QED
  BY <1>1, <1>2, KernelMay DEF WRITTEN

-----------------------------------------------------------------------------
(* One step of the one thread.                                             *)

LEMMA InFits == Fits => \A fd \in Fds : InTable(fd)
BY DEF Fits, InTable

(* A thread at rest finds every open descriptor in the tables.             *)
LEMMA KnownAtRest ==
    ASSUME Tracing, NEW t, Threads = {t}, frame[t].step # "remember",
           NEW fd \in Fds, desc[fd].file # 0
    PROVE  Known(fd, desc[fd].path)
BY DEF Tracing, Tables

LEMMA EnterTracing ==
    ASSUME Shaped, Tracing, NEW t, Threads = {t}, NEW c \in TargetCalls, Enter(t, c)
    PROVE  Tracing'
<1>1. /\ program' = program /\ Threads' = Threads /\ t \in Threads
      /\ UNCHANGED <<fd_paths, fd_is_marker, desc>>
  BY DEF Enter, Threads, tables, kernel
<1>2. /\ frame[t].step = "idle" /\ DOMAIN frame = Threads
      /\ frame'[t].call = c.call /\ frame'[t].fd = c.fd /\ frame'[t].path = c.path
      /\ frame'[t].step = IF c.call = "write" /\ is_marker_fd(c.fd) THEN "marker" ELSE "perform"
  BY <1>1 DEF Enter, Shaped
<1>3. frame'[t].step \in {"marker", "perform"}
  BY <1>2
<1>4. c.call \in FdCall => /\ c.fd \in Fds /\ desc[c.fd].file # 0
                           /\ Known(c.fd, desc[c.fd].path)
  BY <1>1, <1>2, TargetCallsAre, KnownAtRest DEF Usable
<1>5. (Fits /\ c.call = "write" /\ ~is_marker_fd(c.fd)) => desc[c.fd].path # MARKER
  BY <1>4, InFits DEF is_marker_fd, Known, FdCall
<1>6. c.call \in {"rename", "unlink"} => c.path # MARKER
  BY TargetCallsAre, ShimAssumption DEF MovedPath, Tracing
<1>7. Asked(t)'
  BY <1>1, <1>2, <1>4, <1>5, <1>6, TargetCallsAre DEF Asked, SAMEFILE
<1>8. Routed(t)' /\ Answered(t)' /\ Cleared(t)'
  BY <1>2, <1>3, TargetCallsAre DEF Routed, Answered, Cleared, RETURNED
<1>9. Tabled' /\ Tables'
  BY <1>1, <1>2 DEF Tracing, Tabled, Tables, Known
<1> QED
  BY <1>1, <1>7, <1>8, <1>9 DEF Tracing, Frames

LEMMA EmitMarkerTracing ==
    ASSUME Fds \subseteq Nat, Shaped, Tracing, NEW t, Threads = {t}, EmitMarker(t)
    PROVE  Tracing'
<1>1. /\ program' = program /\ Threads' = Threads /\ t \in Threads
      /\ UNCHANGED <<fd_paths, fd_is_marker>>
      /\ frame[t].step = "marker" /\ frame'[t] = Idle
  BY DEF EmitMarker, Threads, tables, Shaped
<1>2. frame[t].call = "write" /\ frame[t].fd \in Fds
  BY <1>1 DEF Tracing, Frames, Asked, FdCall
<1>3. desc' = [desc EXCEPT ![frame[t].fd].off = @ + WRITTEN]
  BY <1>2 DEF EmitMarker, KernelCall, Outcome
<1>4. Tabled' /\ \A fd \in Fds : desc'[fd].file = desc[fd].file /\ desc'[fd].path = desc[fd].path
  BY <1>1, <1>2, <1>3 DEF Tracing, Tabled, WRITTEN
<1>5. Tables'
  BY <1>1, <1>4 DEF Tracing, Tables, Known
<1>6. Asked(t)' /\ Routed(t)' /\ Answered(t)' /\ Cleared(t)'
  BY <1>1 DEF Idle, Asked, Routed, Answered, Cleared, RETURNED
<1> QED
  BY <1>1, <1>4, <1>5, <1>6 DEF Tracing, Frames

(* The frame of a thread whose call has just returned.                     *)
LEMMA PerformFrame ==
    ASSUME Shaped, NEW t \in Threads, Perform(t)
    PROVE  \E k \in KernelCalls(frame[t]) :
             /\ names' = k.names /\ files' = k.files /\ desc' = k.desc
             /\ frame'[t].call = frame[t].call /\ frame'[t].path = frame[t].path
             /\ frame'[t].path2 = frame[t].path2 /\ frame'[t].value = frame[t].value
             /\ frame'[t].i = frame[t].i /\ frame'[t].off = frame[t].off
             /\ frame'[t].ret = k.ret /\ frame'[t].fd = k.fd
             /\ frame'[t].step = AfterCall(frame[t].call)
             /\ frame'[t].at.path = IF frame[t].call \in FdCall THEN desc[frame[t].fd].path
                                    ELSE frame[t].path
             /\ frame'[t].at.off = IF frame[t].call \in FdCall THEN desc[frame[t].fd].off ELSE 0
<1> DEFINE at == [nth |-> performed + 1,
                  path |-> IF frame[t].call \in FdCall THEN desc[frame[t].fd].path
                           ELSE frame[t].path,
                  off |-> IF frame[t].call \in FdCall THEN desc[frame[t].fd].off ELSE 0]
<1>1. PICK k \in KernelCalls(frame[t]) :
        /\ names' = k.names /\ files' = k.files /\ desc' = k.desc
        /\ frame' = [frame EXCEPT ![t].ret = k.ret, ![t].fd = k.fd,
                                  ![t].step = AfterCall(frame[t].call), ![t].at = at]
  BY DEF Perform
<1>2. /\ at.path = IF frame[t].call \in FdCall THEN desc[frame[t].fd].path ELSE frame[t].path
      /\ at.off = IF frame[t].call \in FdCall THEN desc[frame[t].fd].off ELSE 0
  OBVIOUS
<1> HIDE DEF at
<1>3. DOMAIN frame = Threads /\ DOMAIN frame[t] = FIELDS
  BY DEF Shaped, Perform
<1>4. frame'[t] = [frame[t] EXCEPT !.ret = k.ret, !.fd = k.fd, !.step = AfterCall(frame[t].call),
                                   !.at = at]
  BY <1>1, <1>3
<1>5. /\ frame'[t].call = frame[t].call /\ frame'[t].path = frame[t].path
      /\ frame'[t].path2 = frame[t].path2 /\ frame'[t].value = frame[t].value
      /\ frame'[t].i = frame[t].i /\ frame'[t].off = frame[t].off
      /\ frame'[t].ret = k.ret /\ frame'[t].fd = k.fd /\ frame'[t].at = at
      /\ frame'[t].step = AfterCall(frame[t].call)
  BY <1>3, <1>4 DEF FIELDS
<1> QED
  BY <1>1, <1>2, <1>5

LEMMA PerformTracing ==
    ASSUME Fds \subseteq Nat, Shaped, Tracing, NEW t, Threads = {t}, Perform(t)
    PROVE  Tracing'
<1> DEFINE f == frame[t]
           g == frame'[t]
<1>1. /\ program' = program /\ Threads' = Threads /\ t \in Threads
      /\ UNCHANGED <<fd_paths, fd_is_marker>> /\ f.step = "perform"
  BY DEF Perform, Threads, tables
<1>2. /\ f.call \in CALLS /\ (f.call = "open" => f.fd = -1)
      /\ f.call \in FdCall => f.fd \in Fds /\ Known(f.fd, desc[f.fd].path)
      /\ (Fits /\ f.call \in SAMEFILE) => desc[f.fd].path # MARKER
      /\ f.call \in {"rename", "unlink"} => f.path # MARKER
  BY <1>1, KnownAtRest DEF Tracing, Frames, Asked
<1>3. PICK k \in KernelCalls(f) :
        /\ desc' = k.desc
        /\ g.call = f.call /\ g.path = f.path /\ g.ret = k.ret /\ g.fd = k.fd
        /\ g.step = AfterCall(f.call)
        /\ g.at.path = IF f.call \in FdCall THEN desc[f.fd].path ELSE f.path
        /\ g.at.off = IF f.call \in FdCall THEN desc[f.fd].off ELSE 0
  BY <1>1, PerformFrame
<1> HIDE DEF f, g
<1>4. /\ k.ret \in Int
      /\ f.call \in FdCall => k.fd = f.fd
      /\ f.call = "open" =>
           \/ k.ret < 0 /\ k.desc = desc /\ k.fd = -1
           \/ /\ k.fd \in FreeFds /\ k.ret = 0
              /\ \E file : k.desc = [desc EXCEPT ![k.fd] = [file |-> file, path |-> f.path, off |-> 0]]
      /\ f.call = "write" =>
           \/ k.ret < 0 /\ k.desc = desc
           \/ \E n \in {1, 2} : /\ k.ret = n * SectorSize
                                /\ k.desc = [desc EXCEPT ![f.fd].off = @ + n]
      /\ f.call = "close" => k.desc = [desc EXCEPT ![f.fd].file = 0]
      /\ f.call \notin {"open", "write", "close"} => k.desc = desc
  BY <1>2, KernelDescriptors
<1>5. Tabled
  BY DEF Tracing
<1>6. Tables => \A fd \in Fds : desc[fd].file # 0 => Known(fd, desc[fd].path)
  BY <1>1, KnownAtRest DEF Tracing, f
<1> DEFINE Result ==
             /\ Tabled' /\ Tables'
             /\ f.call = "close" => g.fd \in Fds /\ desc'[g.fd].file = 0
             /\ (f.call = "open" /\ g.fd \in Fds) => g.ret >= 0
             /\ (g.ret >= 0 /\ f.call \in FdCall \cup {"open"}) => g.fd \in Fds
             /\ (g.ret >= 0 /\ f.call = "open") => desc'[g.fd].path = f.path
             /\ (g.ret >= 0 /\ f.call = "write") =>
                    g.at.off = desc'[g.fd].off - Sectors(g.ret)
<1>7. Result
  <2>1. CASE f.call = "open"
    <3>1. CASE k.ret < 0 /\ desc' = desc
      BY <1>1, <1>3, <1>4, <1>5, <1>6, <2>1, <3>1 DEF Tabled, Tables, Known, Tracing
    <3>2. ASSUME k.fd \in FreeFds, k.ret = 0, NEW file,
                 desc' = [desc EXCEPT ![k.fd] = [file |-> file, path |-> f.path, off |-> 0]]
          PROVE  Result
      <4>1. k.fd \in Fds
        BY <3>2 DEF FreeFds
      <4>2. /\ desc'[k.fd] = [file |-> file, path |-> f.path, off |-> 0]
            /\ \A fd \in Fds \ {k.fd} : desc'[fd] = desc[fd]
            /\ DOMAIN desc' = Fds
        BY <3>2, <4>1, <1>5 DEF Tabled
      <4>3. Tabled'
        <5>1. \A fd \in Fds \ {k.fd} : /\ DOMAIN desc'[fd] = {"file", "path", "off"}
                                        /\ desc'[fd].off \in Nat
          BY <1>5, <4>2 DEF Tabled
        <5>2. DOMAIN desc'[k.fd] = {"file", "path", "off"} /\ desc'[k.fd].off \in Nat
          BY <4>2
        <5> QED
          BY <1>1, <1>5, <4>2, <5>1, <5>2 DEF Tabled
      <4>4. Tables'
        <5>1. g.step = "remember"
          BY <1>3, <2>1 DEF AfterCall
        <5>2. \E u \in Threads' : frame'[u].step = "remember" /\ frame'[u].ret >= 0
                                                /\ frame'[u].fd = k.fd
          BY <1>1, <1>3, <3>2, <5>1 DEF g
        <5> QED
          BY <1>1, <1>6, <4>2, <5>2 DEF Tables, Known, Tracing
      <4> QED
        BY <1>3, <2>1, <3>2, <4>1, <4>2, <4>3, <4>4
    <3> QED
      BY <1>3, <1>4, <2>1, <3>1, <3>2
  <2>2. CASE f.call = "write"
    <3>1. f.fd \in Fds /\ g.fd = f.fd /\ g.at.off = desc[f.fd].off /\ desc[f.fd].off \in Nat
      BY <1>2, <1>3, <1>4, <1>5, <2>2 DEF FdCall, Tabled
    <3>2. CASE k.ret < 0 /\ desc' = desc
      BY <1>1, <1>3, <1>4, <1>5, <1>6, <2>2, <3>1, <3>2 DEF Tabled, Tables, Known, Tracing
    <3>3. ASSUME NEW n \in {1, 2}, k.ret = n * SectorSize, desc' = [desc EXCEPT ![f.fd].off = @ + n]
          PROVE  Result
      <4>1. Sectors(g.ret) = n
        BY <1>3, <3>3 DEF Sectors, SectorSize
      <4>2. Tabled' /\ \A fd \in Fds : desc'[fd].file = desc[fd].file /\ desc'[fd].path = desc[fd].path
        BY <1>1, <1>5, <3>1, <3>3 DEF Tabled
      <4>3. Tables'
        BY <1>1, <1>6, <4>2 DEF Tracing, Tables, Known
      <4>4. desc'[g.fd].off = desc[f.fd].off + n
        BY <1>5, <3>1, <3>3 DEF Tabled
      <4> QED
        BY <2>2, <3>1, <4>1, <4>2, <4>3, <4>4
    <3> QED
      BY <1>3, <1>4, <2>2, <3>2, <3>3
  <2>3. CASE f.call = "close"
    <3>1. f.fd \in Fds /\ g.fd = f.fd /\ desc' = [desc EXCEPT ![f.fd].file = 0]
      BY <1>2, <1>3, <1>4, <2>3 DEF FdCall
    <3>2. /\ Tabled' /\ desc'[f.fd].file = 0
          /\ \A fd \in Fds : desc'[fd].file # 0 => desc[fd].file # 0
          /\ \A fd \in Fds : desc'[fd].path = desc[fd].path
      BY <1>1, <1>5, <3>1 DEF Tabled
    <3>3. Tables'
      BY <1>1, <1>6, <3>2 DEF Tracing, Tables, Known
    <3> QED
      BY <2>3, <3>1, <3>2, <3>3
  <2>4. CASE f.call \notin {"open", "write", "close"}
    <3>1. desc' = desc /\ (f.call \in FdCall => f.fd \in Fds /\ g.fd = f.fd)
      BY <1>2, <1>3, <1>4, <2>4
    <3> QED
      BY <1>1, <1>5, <1>6, <2>4, <3>1 DEF Tracing, Tabled, Tables, Known
  <2> QED
    BY <2>1, <2>2, <2>3, <2>4
<1>8. /\ g.step = "remember" <=> f.call = "open"
      /\ g.step \in {"remember", "store", "complete"}
      /\ g.step = "store" <=> f.call \in {"write", "pwrite"}
  BY <1>3 DEF AfterCall
<1>9. /\ f.call \in FdCall => g.fd = f.fd
      /\ (Fits /\ f.call \in FdCall) => /\ fd_paths'[g.fd] = g.at.path
                                        /\ fd_is_marker'[g.fd] <=> g.at.path = MARKER
  BY <1>1, <1>2, <1>3, <1>4 DEF Known
<1>10. (Fits /\ f.call \notin {"open", "close"}) => g.at.path # MARKER
  <2>1. CASE f.call \in SAMEFILE
    BY <1>2, <1>3, <2>1 DEF SAMEFILE, FdCall
  <2>2. CASE f.call \in {"rename", "unlink"}
    BY <1>2, <1>3, <2>2 DEF FdCall
  <2> QED
    BY <1>2, <2>1, <2>2 DEF SAMEFILE, CALLS
<1>11. Answered(t)'
  <2>1. /\ f.call = "close" => g.fd \in Fds /\ desc'[g.fd].file = 0
        /\ (f.call = "open" /\ g.fd \in Fds) => g.ret >= 0
        /\ (g.ret >= 0 /\ f.call \in FdCall \cup {"open"}) => g.fd \in Fds
        /\ (g.ret >= 0 /\ f.call = "open") => desc'[g.fd].path = f.path
        /\ (g.ret >= 0 /\ f.call = "write") => g.at.off = desc'[g.fd].off - Sectors(g.ret)
    BY <1>7
  <2>2. g.call = f.call /\ g.path = f.path /\ g.ret \in Int /\ (f.call \notin FdCall => g.at.path = g.path)
    BY <1>3, <1>4
  <2>3. g.step \notin {"emit"} /\ (f.call = "write" => g.step = "store")
    BY <1>8
  <2> QED
    BY <1>8, <1>9, <1>10, <2>1, <2>2, <2>3 DEF Answered, Known, g
<1>12. Asked(t)' /\ Routed(t)' /\ Cleared(t)'
  BY <1>2, <1>3, <1>8 DEF Asked, Routed, Cleared, g
<1> QED
  BY <1>1, <1>7, <1>11, <1>12 DEF Tracing, Frames

LEMMA RememberTracing ==
    ASSUME Shaped, Tracing, NEW t, Threads = {t}, Remember(t)
    PROVE  Tracing'
<1> DEFINE f == frame[t]
           g == frame'[t]
<1>1. /\ program' = program /\ Threads' = Threads /\ t \in Threads /\ desc' = desc
      /\ f.step = "remember"
  BY DEF Remember, Threads, kernel
<1>2. /\ g.step = "complete" /\ g.call = f.call /\ g.fd = f.fd /\ g.ret = f.ret
      /\ g.at = f.at /\ g.path = f.path
  BY <1>1 DEF Remember, Shaped, FIELDS
<1>3. f.call = "open" /\ Answered(t) /\ Tabled
  BY <1>1 DEF Tracing, Frames, Routed
<1> HIDE DEF f, g
<1>4. /\ f.ret \in Int
      /\ f.ret >= 0 => f.fd \in Fds /\ f.at.path = f.path /\ desc[f.fd].path = f.path
      /\ f.fd \in Fds => f.ret >= 0
  BY <1>1, <1>3 DEF Answered, RETURNED, FdCall, f
<1>5. Tabled' /\ \A fd \in Fds \ {f.fd} : \A p : Known(fd, p)' <=> Known(fd, p)
  <2>1. CASE InTable(f.fd)
    <3>1. /\ fd_paths' = [fd_paths EXCEPT ![f.fd] = f.path]
          /\ fd_is_marker' = [fd_is_marker EXCEPT ![f.fd] = (f.path = MARKER)]
      BY <2>1 DEF Remember, f
    <3>2. Tabled'
      BY <1>1, <1>3, <3>1 DEF Tabled
    <3>3. \A fd \in Fds \ {f.fd} : fd_paths'[fd] = fd_paths[fd] /\ fd_is_marker'[fd] = fd_is_marker[fd]
      BY <1>3, <3>1 DEF Tabled
    <3> QED
      BY <3>2, <3>3 DEF Known
  <2>2. CASE ~InTable(f.fd)
    <3>1. fd_paths' = fd_paths /\ fd_is_marker' = fd_is_marker
      BY <2>2 DEF Remember, tables, f
    <3> QED
      BY <1>1, <1>3, <3>1 DEF Tabled, Known
  <2> QED
    BY <2>1, <2>2
<1>6. (Fits /\ f.fd \in Fds) => fd_paths'[f.fd] = f.path /\ (fd_is_marker'[f.fd] <=> f.path = MARKER)
  BY <1>3, InFits DEF Remember, Tabled, f
<1>7. Tables'
  <2> SUFFICES ASSUME NEW fd \in Fds, desc[fd].file # 0
               PROVE  Known(fd, desc[fd].path)'
    BY <1>1 DEF Tables
  <2>1. CASE fd = f.fd
    <3>1. f.ret >= 0
      BY <1>4, <2>1
    <3> QED
      BY <1>1, <1>4, <1>6, <2>1, <3>1 DEF Known
  <2>2. CASE fd # f.fd
    <3>1. Known(fd, desc[fd].path)
      BY <1>1, <2>2 DEF Tracing, Tables, f
    <3> QED
      BY <1>1, <1>5, <2>2, <3>1 DEF Known
  <2> QED
    BY <2>1, <2>2
<1>8. Answered(t)'
  BY <1>1, <1>2, <1>3, <1>4, <1>6 DEF Answered, FdCall, Known, g
<1>9. Asked(t)' /\ Routed(t)' /\ Cleared(t)'
  BY <1>2, <1>3 DEF Asked, Routed, Cleared, CALLS, g
<1> QED
  BY <1>1, <1>5, <1>7, <1>8, <1>9 DEF Tracing, Frames

(* A step that leaves the tables and the descriptors alone.                *)
LEMMA SameTables ==
    ASSUME Tracing, NEW t, Threads = {t}, program' = program,
           UNCHANGED <<fd_paths, fd_is_marker, desc>>, frame[t].step # "remember",
           Asked(t)', Routed(t)', Answered(t)', Cleared(t)'
    PROVE  Tracing'
<1>1. Threads' = Threads
  BY DEF Threads
<1>2. Tabled' /\ Tables'
  BY <1>1, KnownAtRest DEF Tracing, Tabled, Tables, Known
<1> QED
  BY <1>1, <1>2 DEF Tracing, Frames

LEMMA StoreTracing ==
    ASSUME Shaped, Tracing, NEW t, Threads = {t}, StorePayload(t) \/ FillPayload(t)
    PROVE  Tracing'
<1> DEFINE f == frame[t]
           g == frame'[t]
<1>1. /\ program' = program /\ t \in Threads
      /\ UNCHANGED <<fd_paths, fd_is_marker, desc>>
      /\ f.step \in {"store", "fill"}
  BY DEF StorePayload, FillPayload, tables, kernel
<1>2. /\ g.step \in {"fill", AfterStore(f.call)} /\ g.call = f.call /\ g.fd = f.fd /\ g.ret = f.ret
      /\ g.at = f.at /\ g.path = f.path /\ g.off = f.off
  BY <1>1 DEF StorePayload, FillPayload, Shaped, FIELDS
<1>3. f.call \in {"write", "pwrite"} /\ Answered(t) /\ Routed(t)
  BY <1>1 DEF Tracing, Frames, Routed
<1>4. /\ g.step = "fill" \/ (f.call = "write" /\ g.step = "seek")
                         \/ (f.call = "pwrite" /\ g.step = "complete")
  BY <1>2, <1>3 DEF AfterStore
<1> HIDE DEF f, g
<1>5. Answered(t)'
  BY <1>1, <1>2, <1>3, <1>4 DEF Answered, RETURNED, FdCall, Known, f, g
<1>6. Asked(t)' /\ Routed(t)' /\ Cleared(t)'
  BY <1>2, <1>3, <1>4 DEF Asked, Routed, Cleared, CALLS, g
<1> QED
  BY <1>1, <1>5, <1>6, SameTables DEF f

LEMMA SeekTracing ==
    ASSUME Shaped, Tracing, NEW t, Threads = {t}, Seek(t)
    PROVE  Tracing'
<1> DEFINE f == frame[t]
           g == frame'[t]
<1>1. /\ program' = program /\ t \in Threads
      /\ UNCHANGED <<fd_paths, fd_is_marker, desc>>
      /\ f.step = "seek"
  BY DEF Seek, tables, kernel
<1>2. /\ g.step = "complete" /\ g.call = f.call /\ g.fd = f.fd /\ g.ret = f.ret
      /\ g.at = f.at /\ g.path = f.path /\ g.off = write_offset(f.fd, f.ret)
  BY <1>1 DEF Seek, Shaped, FIELDS
<1>3. f.call = "write" /\ Answered(t) /\ Routed(t)
  BY <1>1 DEF Tracing, Frames, Routed
<1>4. f.ret >= 0 => g.off = desc[f.fd].off - Sectors(f.ret)
  BY <1>1, <1>2, <1>3 DEF write_offset, Answered, RETURNED
<1> HIDE DEF f, g
<1>5. Answered(t)'
  BY <1>1, <1>2, <1>3, <1>4 DEF Answered, RETURNED, FdCall, Known, f, g
<1>6. Asked(t)' /\ Routed(t)' /\ Cleared(t)'
  BY <1>2, <1>3 DEF Asked, Routed, Cleared, CALLS, g
<1> QED
  BY <1>1, <1>5, <1>6, SameTables DEF f

LEMMA CompleteTracing ==
    ASSUME Shaped, Tracing, NEW t, Threads = {t}, Complete(t)
    PROVE  Tracing'
<1> DEFINE f == frame[t]
           g == frame'[t]
           skip == f.call \in {"open", "close"} /\ is_marker_fd(f.fd)
<1>1. /\ program' = program /\ t \in Threads
      /\ UNCHANGED <<fd_paths, fd_is_marker, desc>>
      /\ f.step = "complete" /\ DOMAIN frame = Threads /\ DOMAIN f = FIELDS
  BY DEF Complete, tables, kernel, Shaped
<1>2. Answered(t) /\ Routed(t)
  BY <1>1 DEF Tracing, Frames
<1>3. CASE skip /\ f.call = "open"
  <2>1. g = Idle
    BY <1>1, <1>3 DEF Complete
  <2>2. Asked(t)' /\ Routed(t)' /\ Answered(t)' /\ Cleared(t)'
    BY <2>1 DEF Idle, Asked, Routed, Answered, Cleared, RETURNED
  <2> QED
    BY <1>1, <2>2, SameTables
<1>4. CASE skip /\ f.call # "open"
  <2>1. g = [f EXCEPT !.step = "clear"] /\ f.call = "close"
    BY <1>1, <1>4 DEF Complete
  <2>2. g.step = "clear" /\ g.call = "close" /\ g.fd = f.fd
    BY <1>1, <2>1 DEF FIELDS
  <2>3. f.fd \in Fds /\ desc[f.fd].file = 0
    BY <1>1, <1>2, <2>1 DEF Answered, RETURNED
  <2> HIDE DEF f, g
  <2>4. Asked(t)' /\ Routed(t)' /\ Answered(t)' /\ Cleared(t)'
    BY <1>1, <2>2, <2>3 DEF Asked, Routed, Answered, Cleared, RETURNED, CALLS, g
  <2> QED
    BY <1>1, <2>4, SameTables DEF f
<1>5. CASE ~skip
  <2>1. /\ g.step = "emit" /\ g.call = f.call /\ g.fd = f.fd /\ g.ret = f.ret
        /\ g.at = f.at /\ g.path = f.path /\ g.off = f.off
    BY <1>1, <1>5 DEF Complete, FIELDS
  <2>2. (Fits /\ f.ret >= 0) => f.at.path # MARKER
    <3>1. CASE Fits /\ f.call \in {"open", "close"} /\ f.ret >= 0
      <4>1. f.fd \in Fds /\ Known(f.fd, f.at.path)
        BY <1>1, <1>2, <3>1 DEF Answered, RETURNED, FdCall
      <4>2. ~fd_is_marker[f.fd]
        BY <1>5, <3>1, <4>1, InFits DEF is_marker_fd
      <4> QED
        BY <4>1, <4>2 DEF Known
    <3>2. CASE f.call \notin {"open", "close"}
      BY <1>1, <1>2, <3>2 DEF Answered, RETURNED
    <3> QED
      BY <3>1, <3>2
  <2> HIDE DEF f, g
  <2>3. Answered(t)'
    BY <1>1, <1>2, <2>1, <2>2 DEF Answered, RETURNED, Known, f, g
  <2>4. Asked(t)' /\ Routed(t)' /\ Cleared(t)'
    BY <1>1, <1>2, <2>1 DEF Asked, Routed, Cleared, f, g
  <2> QED
    BY <1>1, <2>3, <2>4, SameTables DEF f
<1> QED
  BY <1>3, <1>4, <1>5

LEMMA EmitTracing ==
    ASSUME Shaped, Tracing, NEW t, Threads = {t}, Emit(t)
    PROVE  Tracing'
<1> DEFINE f == frame[t]
           g == frame'[t]
<1>1. /\ program' = program /\ t \in Threads
      /\ UNCHANGED <<fd_paths, fd_is_marker, desc>>
      /\ f.step = "emit" /\ DOMAIN frame = Threads /\ DOMAIN f = FIELDS
  BY DEF Emit, tables, kernel, Shaped
<1>2. Answered(t) /\ Routed(t)
  BY <1>1 DEF Tracing, Frames
<1>3. CASE f.call # "close"
  <2>1. g = Idle
    BY <1>1, <1>3 DEF Emit
  <2>2. Asked(t)' /\ Routed(t)' /\ Answered(t)' /\ Cleared(t)'
    BY <2>1 DEF Idle, Asked, Routed, Answered, Cleared, RETURNED
  <2> QED
    BY <1>1, <2>2, SameTables
<1>4. CASE f.call = "close"
  <2>1. g = [f EXCEPT !.step = "clear"]
    BY <1>1, <1>4 DEF Emit
  <2>2. g.step = "clear" /\ g.call = "close" /\ g.fd = f.fd
    BY <1>1, <1>4, <2>1 DEF FIELDS
  <2>3. f.fd \in Fds /\ desc[f.fd].file = 0
    BY <1>1, <1>2, <1>4 DEF Answered, RETURNED
  <2> HIDE DEF f, g
  <2>4. Asked(t)' /\ Routed(t)' /\ Answered(t)' /\ Cleared(t)'
    BY <1>1, <2>2, <2>3 DEF Asked, Routed, Answered, Cleared, RETURNED, CALLS, g
  <2> QED
    BY <1>1, <2>4, SameTables DEF f
<1> QED
  BY <1>3, <1>4

LEMMA ClearTracing ==
    ASSUME Shaped, Tracing, NEW t, Threads = {t}, Clear(t)
    PROVE  Tracing'
<1> DEFINE fd == frame[t].fd
<1>1. /\ program' = program /\ Threads' = Threads /\ t \in Threads /\ desc' = desc
      /\ frame[t].step = "clear" /\ frame'[t] = Idle
  BY DEF Clear, Threads, kernel, Shaped
<1>2. fd \in Fds /\ desc[fd].file = 0 /\ Tabled
  BY <1>1 DEF Tracing, Frames, Cleared
<1>3. Tabled' /\ \A d \in Fds \ {fd} : fd_paths'[d] = fd_paths[d] /\ fd_is_marker'[d] = fd_is_marker[d]
  BY <1>1, <1>2 DEF Clear, Tabled, tables
<1>4. Tables'
  BY <1>1, <1>2, <1>3, KnownAtRest DEF Tables, Known
<1>5. Asked(t)' /\ Routed(t)' /\ Answered(t)' /\ Cleared(t)'
  BY <1>1 DEF Idle, Asked, Routed, Answered, Cleared, RETURNED
<1> QED
  BY <1>1, <1>3, <1>4, <1>5 DEF Tracing, Frames

LEMMA TracingInit == Init => Tracing
<1> SUFFICES ASSUME Init PROVE Tracing
  OBVIOUS
<1>1. \A t \in Threads : frame[t].step = "idle"
  BY DEF Init, Idle
<1>2. Frames
  BY <1>1 DEF Frames, Asked, Routed, Answered, Cleared, RETURNED
<1>3. /\ fd_paths = [fd \in Fds |-> NONE] /\ fd_is_marker = [fd \in Fds |-> FALSE]
      /\ desc = [fd \in Fds |-> [file |-> 0, path |-> NONE, off |-> 0]]
  BY DEF Init
<1>4. Tabled /\ Tables
  BY <1>3 DEF Tabled, Tables
<1> QED
  BY <1>2, <1>4 DEF Tracing, Init

LEMMA TracingNext ==
    ASSUME Shaped, Tracing, NEW t, Threads = {t}, [Next]_vars
    PROVE  Tracing'
<1>1. Fds \subseteq Nat
  BY ShimAssumption
<1>2. CASE UNCHANGED vars
  <2>1. UNCHANGED <<program, fd_paths, fd_is_marker, desc, frame>>
    BY <1>2 DEF vars, tables, kernel
  <2> QED
    BY <2>1 DEF Tracing, Tabled, Frames, Tables, Asked, Routed, Answered, Cleared, Known, Threads
<1>3. CASE Next
  <2>1. \/ \E c \in TargetCalls : Enter(t, c)
        \/ EmitMarker(t) \/ Perform(t) \/ Remember(t) \/ StorePayload(t) \/ FillPayload(t)
        \/ Seek(t) \/ Complete(t) \/ Emit(t) \/ Clear(t)
    BY <1>3 DEF Next
  <2> QED
    BY <1>1, <2>1, EnterTracing, EmitMarkerTracing, PerformTracing, RememberTracing, StoreTracing,
       SeekTracing, CompleteTracing, EmitTracing, ClearTracing
<1> QED
  BY <1>2, <1>3

(* The record, in full.                                                    *)
LEMMA EmitsRecord ==
    ASSUME NEW t, Emit(t)
    PROVE  \E r :
             /\ records' = Append(records, r)
             /\ r.rec = "event" /\ r.i = frame[t].i /\ r.j = frame[t].j /\ r.tid = t
             /\ r.call = frame[t].call /\ r.ret = frame[t].ret /\ r.off = frame[t].off
             /\ r.path = IF frame[t].call \in FdCall \cup {"open"} THEN path_for(frame[t].fd)
                         ELSE frame[t].path
             /\ r.path2 = frame[t].path2 /\ r.value = frame[t].value
             /\ r.len = IF frame[t].call \in {"write", "pwrite"} THEN WRITTEN * SectorSize ELSE 0
<1> DEFINE f == frame[t]
           path == IF f.call \in FdCall \cup {"open"} THEN path_for(f.fd) ELSE f.path
           len == IF f.call \in {"write", "pwrite"} THEN WRITTEN * SectorSize ELSE 0
           r == [rec |-> "event", i |-> f.i, j |-> f.j, tid |-> t, call |-> f.call, fd |-> f.fd,
                 path |-> path, path2 |-> f.path2, off |-> f.off, ret |-> f.ret, len |-> len,
                 flags |-> pending_flags[t], value |-> f.value]
<1>1. records' = Append(records, r)
  BY DEF Emit
<1> HIDE DEF path, len
<1>2. /\ r.rec = "event" /\ r.i = f.i /\ r.j = f.j /\ r.tid = t
      /\ r.call = f.call /\ r.ret = f.ret /\ r.off = f.off
      /\ r.path = path /\ r.path2 = f.path2 /\ r.value = f.value /\ r.len = len
  OBVIOUS
<1> HIDE DEF r
<1> QED
  BY <1>1, <1>2 DEF path, len

(* A record is added to the trace with the history of its call.            *)
LEMMA ToldEmit ==
    ASSUME Tracked, Tracing, Told, NEW t, Threads = {t}, Emit(t)
    PROVE  Told'
<1> DEFINE f == frame[t]
           x == [i |-> f.i, at |-> f.at]
           n == Len(records) + 1
           p == Len(truth) + 1
<1>1. PICK r :
        /\ records' = Append(records, r)
        /\ r.rec = "event" /\ r.i = f.i /\ r.j = f.j /\ r.tid = t
        /\ r.call = f.call /\ r.ret = f.ret /\ r.off = f.off
        /\ r.path = IF f.call \in FdCall \cup {"open"} THEN path_for(f.fd) ELSE f.path
        /\ r.path2 = f.path2 /\ r.value = f.value
        /\ r.len = IF f.call \in {"write", "pwrite"} THEN WRITTEN * SectorSize ELSE 0
  BY EmitsRecord
<1>2. truth' = Append(truth, x) /\ f.step = "emit" /\ Answered(t) /\ Routed(t)
  BY DEF Emit, Tracing, Frames
<1>3. /\ \A k \in DOMAIN records : records'[k] = records[k]
      /\ records'[n] = r
      /\ \A k \in DOMAIN records' : k \in DOMAIN records \/ k = n
  BY <1>1, AppendOne DEF Tracked, Stamped, Taken, RecordsSound
<1>4. /\ \A l \in DOMAIN truth : truth'[l] = truth[l]
      /\ truth'[p] = x
      /\ \A l \in DOMAIN truth' : l \in DOMAIN truth \/ l = p
  BY <1>2, AppendOne DEF Tracked, Matched
<1>5. x.i = f.i /\ x.at = f.at
  OBVIOUS
<1> HIDE DEF x, n, p
<1>6. \A k \in DOMAIN records : records[k].rec = "event" => records[k].i # f.i
  BY <1>2 DEF Tracked, Stamped, Taken, Apart, StampsOf, Carries
<1>7. \A l \in DOMAIN truth : truth[l].i # f.i
  BY <1>6 DEF Tracked, Matched
<1>8. r.ret >= 0 => /\ Fits => x.at.path # MARKER /\ r.path = x.at.path
                    /\ r.call = "write" => r.off = x.at.off
  <2>1. (Fits /\ f.ret >= 0 /\ f.call \in FdCall \cup {"open"}) => path_for(f.fd) = f.at.path
    BY <1>2, InFits DEF Answered, RETURNED, Known, path_for
  <2>2. (f.ret >= 0 /\ f.call \notin FdCall) => f.at.path = f.path
    BY <1>2 DEF Answered, RETURNED
  <2>3. (Fits /\ f.ret >= 0) => f.at.path # MARKER
    BY <1>2 DEF Answered, RETURNED
  <2>4. (f.ret >= 0 /\ f.call = "write") => f.off = f.at.off
    BY <1>2 DEF Answered, RETURNED
  <2> QED
    BY <1>1, <1>5, <2>1, <2>2, <2>3, <2>4
<1>9. ASSUME NEW k \in DOMAIN records', NEW l \in DOMAIN truth',
             records'[k].rec = "event", records'[k].i = truth'[l].i, records'[k].ret >= 0
      PROVE  /\ Fits => truth'[l].at.path # MARKER /\ records'[k].path = truth'[l].at.path
             /\ records'[k].call = "write" => records'[k].off = truth'[l].at.off
  <2>1. (k \in DOMAIN records /\ l \in DOMAIN truth) \/ (k = n /\ l = p)
    BY <1>1, <1>3, <1>4, <1>5, <1>6, <1>7, <1>9
  <2>2. CASE k \in DOMAIN records /\ l \in DOMAIN truth
    BY <1>3, <1>4, <1>9, <2>2 DEF Told
  <2>3. CASE k = n /\ l = p
    BY <1>3, <1>4, <1>8, <1>9, <2>3
  <2> QED
    BY <2>1, <2>2, <2>3
<1> QED
  BY <1>9 DEF Told

(* A step that records no event.                                           *)
LEMMA ToldSilent ==
    ASSUME Tracked, Told, truth' = truth,
           \/ records' = records
           \/ \E r : r.rec = "marker" /\ records' = Append(records, r)
    PROVE  Told'
<1>1. \A k \in DOMAIN records' : records'[k].rec = "event" =>
          k \in DOMAIN records /\ records'[k] = records[k]
  <2>1. ASSUME NEW r, r.rec = "marker", records' = Append(records, r),
               NEW k \in DOMAIN records', records'[k].rec = "event"
        PROVE  k \in DOMAIN records /\ records'[k] = records[k]
    <3>1. /\ \A l \in DOMAIN records : records'[l] = records[l]
          /\ records'[Len(records) + 1] = r
          /\ k \in DOMAIN records \/ k = Len(records) + 1
      BY <2>1, AppendOne DEF Tracked, Stamped, Taken, RecordsSound
    <3> QED
      BY <2>1, <3>1
  <2> QED
    BY <2>1
<1> QED
  BY <1>1 DEF Told

(* Every record was written by a thread of the target.                     *)
Signed == \A k \in DOMAIN records : records[k].tid \in Threads

LEMMA SignedNext ==
    ASSUME Tracked, Signed, [Next]_vars
    PROVE  Signed' /\ program' = program
<1>1. program' = program
  BY DEF Next, vars, Enter, EmitMarker, Perform, Remember, StorePayload, FillPayload, Seek, Complete,
         Emit, Clear
<1>2. \/ records' = records
      \/ \E r : r.tid \in Threads /\ records' = Append(records, r)
  <2>1. ASSUME NEW t \in Threads, Emit(t)
        PROVE  \E r : r.tid \in Threads /\ records' = Append(records, r)
    BY <2>1, EmitRecord
  <2>2. ASSUME NEW t \in Threads, EmitMarker(t)
        PROVE  \E r : r.tid \in Threads /\ records' = Append(records, r)
    BY <2>2 DEF EmitMarker
  <2> QED
    BY <2>1, <2>2 DEF Next, vars, Enter, Perform, Remember, StorePayload, FillPayload, Seek, Complete,
                      Clear
<1>3. CASE records' = records
  BY <1>1, <1>3 DEF Signed, Threads
<1>4. ASSUME NEW r, r.tid \in Threads, records' = Append(records, r)
      PROVE  Signed'
  <2>1. /\ \A k \in DOMAIN records : records'[k] = records[k]
        /\ records'[Len(records) + 1] = r
        /\ \A k \in DOMAIN records' : k \in DOMAIN records \/ k = Len(records) + 1
    BY <1>4, AppendOne DEF Tracked, Stamped, Taken, RecordsSound
  <2> QED
    BY <1>1, <1>4, <2>1 DEF Signed, Threads
<1> QED
  BY <1>1, <1>2, <1>3, <1>4

Serial == Tracked /\ Signed /\ program \in Programs /\ (Alone => Tracing /\ Told)

LEMMA SerialInit == Init => Serial
<1> SUFFICES ASSUME Init PROVE Serial
  OBVIOUS
<1>1. DOMAIN records = {} /\ program \in Programs
  <2>1. Len(<<>>) = 0 /\ DOMAIN <<>> = 1..0
    OBVIOUS
  <2> QED
    BY <2>1 DEF Init
<1> QED
  BY <1>1, TrackedInit, TracingInit DEF Serial, Signed, Told

LEMMA SerialNext ==
    ASSUME Serial, [Next]_vars
    PROVE  Serial'
<1>1. Tracked' /\ Shaped /\ Signed' /\ program' = program /\ Alone' = Alone
  <2>1. Tracked' /\ Shaped
    BY TrackedNext DEF Serial, Tracked, Stamped
  <2>2. Signed' /\ program' = program
    BY SignedNext DEF Serial
  <2> QED
    BY <2>1, <2>2 DEF Alone, Threads
<1>2. ASSUME Alone PROVE Tracing' /\ Told'
  <2>1. PICK t : Threads = {t}
    <3>1. IsFiniteSet(Threads)
      BY ShimAssumption DEF Serial, Threads
    <3> QED
      BY <1>2, <3>1, OneThreadOnly
  <2>2. Tracing'
    BY <1>1, <1>2, <2>1, TracingNext DEF Serial
  <2>3. CASE Emit(t)
    BY <1>2, <2>1, <2>2, <2>3, ToldEmit DEF Serial
  <2>4. CASE EmitMarker(t)
    <3>1. \E r : r.rec = "marker" /\ records' = Append(records, r)
      BY <2>4 DEF EmitMarker
    <3> QED
      BY <1>2, <2>2, <2>4, <3>1, ToldSilent DEF Serial, EmitMarker
  <2>5. CASE ~Emit(t) /\ ~EmitMarker(t)
    <3>1. records' = records /\ truth' = truth
      BY <2>1, <2>5 DEF Next, vars, history, Enter, Perform, Remember, StorePayload, FillPayload, Seek,
                        Complete, Clear
    <3> QED
      BY <1>2, <2>2, <3>1, ToldSilent DEF Serial
  <2> QED
    BY <2>3, <2>4, <2>5
<1> QED
  BY <1>1, <1>2 DEF Serial

(* What the invariant says of an event of the trace.                       *)
LEMMA EventTold ==
    ASSUME Serial, Alone, NEW e \in Events, e.ret >= 0
    PROVE  /\ Fits => At(e).path # MARKER /\ e.path = At(e).path
           /\ e.call = "write" => e.off = At(e).off
<1>1. PICK k \in DOMAIN records : records[k].rec = "event" /\ e = records[k]
  BY DEF Events, RecordsOf
<1>2. Tracked /\ Matched /\ Told
  BY DEF Serial, Tracked
<1>3. PICK l \in DOMAIN truth : truth[l].i = e.i
  BY <1>1, <1>2 DEF Matched
<1>4. At(e) = truth[l].at
  BY <1>2, <1>3, AtIsTruth
<1> QED
  BY <1>1, <1>2, <1>3, <1>4 DEF Told

(* trace-format.md: "Byte offset the call applied at".  With one thread a  *)
(* write that succeeded is recorded where the kernel put it.               *)
THEOREM OffsetsAreTrue == Spec => []OffsetIsTrue
<1>1. Serial => OffsetIsTrue
  BY EventTold DEF OffsetIsTrue
<1> QED
  BY <1>1, SerialInit, SerialNext, PTL DEF Spec

(* trace-format.md: the marker file is not traced "as target I/O", and the *)
(* path of a call is "the path cached at open".  With one thread whose     *)
(* descriptors fit the tables, no call on the marker file is recorded, a   *)
(* descriptor at rest is known for a marker exactly if it is one ...       *)
THEOREM MarkersStayApart == Fits => (Spec => []MarkersApart)
<1> SUFFICES ASSUME Fits PROVE Spec => []MarkersApart
  OBVIOUS
<1>1. Serial => MarkersApart
  <2> SUFFICES ASSUME Serial, Alone
               PROVE  /\ \A e \in Events : e.ret >= 0 => At(e).path # MARKER
                      /\ \A fd \in Fds : (Quiet /\ desc[fd].file # 0) =>
                             (is_marker_fd(fd) <=> desc[fd].path = MARKER)
    BY DEF MarkersApart
  <2>1. ASSUME NEW fd \in Fds, Quiet, desc[fd].file # 0
        PROVE  is_marker_fd(fd) <=> desc[fd].path = MARKER
    <3>1. Known(fd, desc[fd].path)
      BY <2>1 DEF Serial, Tracing, Tables, Quiet
    <3> QED
      BY <3>1, InFits DEF Known, is_marker_fd
  <2> QED
    BY <2>1, EventTold
<1> QED
  BY <1>1, SerialInit, SerialNext, PTL DEF Spec

(* ... and the path of every call that succeeded is that of its file when  *)
(* it was opened.                                                          *)
THEOREM PathsAreCached ==
    Fits => (Spec => [](Alone => \A e \in Events : e.ret >= 0 => e.path = At(e).path))
<1> DEFINE Cached == Alone => \A e \in Events : e.ret >= 0 => e.path = At(e).path
<1> SUFFICES ASSUME Fits PROVE Spec => []Cached
  OBVIOUS
<1>1. Serial => Cached
  BY EventTold
<1> QED
  BY <1>1, SerialInit, SerialNext, PTL DEF Spec

-----------------------------------------------------------------------------
(* The order of submission.  Records with stamps of their own have places  *)
(* of their own, from the first to the last.                               *)

Distinct(rs) ==
    /\ IsFiniteSet(rs)
    /\ \A r \in rs : r.i \in Nat
    /\ \A r, s \in rs : r.i = s.i => r = s

LEMMA PlacesAscend ==
    ASSUME NEW rs, Distinct(rs)
    PROVE  /\ Cardinality(rs) \in Nat
           /\ \A r \in rs : Place(r, rs) \in 1..Cardinality(rs)
           /\ \A r, s \in rs : r.i <= s.i <=> Place(r, rs) <= Place(s, rs)
<1> DEFINE upto(r) == {s \in rs : s.i <= r.i}
<1>1. Cardinality(rs) \in Nat
  BY FS_CardinalityType DEF Distinct
<1>2. ASSUME NEW r \in rs
      PROVE  /\ IsFiniteSet(upto(r)) /\ Cardinality(upto(r)) \in 1..Cardinality(rs)
  <2>1. upto(r) \in SUBSET rs /\ r \in upto(r)
    BY DEF Distinct
  <2> HIDE DEF upto
  <2>2. IsFiniteSet(upto(r)) /\ Cardinality(upto(r)) <= Cardinality(rs)
    BY <2>1, FS_Subset DEF Distinct
  <2>3. Cardinality(upto(r)) \in Nat /\ Cardinality(upto(r)) # 0
    BY <2>1, <2>2, FS_CardinalityType, FS_EmptySet
  <2> QED
    BY <1>1, <2>2, <2>3
<1>3. ASSUME NEW r \in rs, NEW s \in rs, r.i < s.i
      PROVE  Cardinality(upto(r)) < Cardinality(upto(s))
  <2>1. upto(r) \in SUBSET upto(s) /\ s \in upto(s) /\ s \notin upto(r)
    BY <1>3 DEF Distinct
  <2>2. /\ IsFiniteSet(upto(s)) /\ Cardinality(upto(s)) \in Nat /\ Cardinality(upto(r)) \in Nat
    BY <1>2
  <2> HIDE DEF upto
  <2> QED
    BY <2>1, <2>2, FS_Subset
<1>4. \A r \in rs : Place(r, rs) = Cardinality(upto(r))
  BY DEF Place
<1>5. ASSUME NEW r \in rs, NEW s \in rs
      PROVE  r.i <= s.i <=> Cardinality(upto(r)) <= Cardinality(upto(s))
  <2>1. r.i \in Nat /\ s.i \in Nat /\ (r.i = s.i => r = s)
    BY DEF Distinct
  <2>2. Cardinality(upto(r)) \in Nat /\ Cardinality(upto(s)) \in Nat
    <3> HIDE DEF upto
    <3> QED
      BY <1>1, <1>2
  <2>3. /\ r.i < s.i => Cardinality(upto(r)) < Cardinality(upto(s))
        /\ s.i < r.i => Cardinality(upto(s)) < Cardinality(upto(r))
    BY <1>3
  <2> HIDE DEF upto
  <2> QED
    BY <2>1, <2>2, <2>3
<1> HIDE DEF upto
<1> QED
  BY <1>1, <1>2, <1>4, <1>5

LEMMA EveryPlaceIsTaken ==
    ASSUME NEW rs, Distinct(rs), NEW n \in 1..Cardinality(rs)
    PROVE  \E r \in rs : Place(r, rs) = n
<1> DEFINE N == 1..Cardinality(rs)
           place == [r \in rs |-> Place(r, rs)]
<1>1. Cardinality(rs) \in Nat /\ \A r \in rs : Place(r, rs) \in N
  BY PlacesAscend
<1>2. \A r, s \in rs : Place(r, rs) = Place(s, rs) => r = s
  <2> SUFFICES ASSUME NEW r \in rs, NEW s \in rs, Place(r, rs) = Place(s, rs)
               PROVE  r = s
    OBVIOUS
  <2>1. r.i <= s.i /\ s.i <= r.i
    BY <1>1, PlacesAscend
  <2> QED
    BY <2>1 DEF Distinct
<1>3. place \in Injection(rs, N)
  BY <1>1, <1>2 DEF Injection, IsInjective
<1>4. IsFiniteSet(N) /\ Cardinality(N) = Cardinality(rs)
  BY <1>1, FS_Interval
<1> HIDE DEF N, place
<1>5. place \in Surjection(rs, N)
  BY <1>3, <1>4, FS_Injection DEF Distinct
<1>6. \E r \in rs : place[r] = n
  BY <1>5 DEF Surjection, N
<1> QED
  BY <1>6 DEF place

(* What the sorted sequence holds.                                         *)
LEMMA SortedIs ==
    ASSUME NEW recs, NEW rec, Distinct(RecordsOf(recs, rec))
    PROVE  LET rs == RecordsOf(recs, rec)
               es == InSubmissionOrder(recs, rec)
           IN  /\ DOMAIN es = 1..Cardinality(rs)
               /\ \A n \in DOMAIN es : es[n] \in rs /\ Place(es[n], rs) = n
BY EveryPlaceIsTaken DEF InSubmissionOrder

(* The events of a trace have stamps of their own ...                      *)
LEMMA EventsDistinct == Tracked => Distinct(Events)
<1> SUFFICES ASSUME Tracked PROVE Distinct(Events)
  OBVIOUS
<1> DEFINE S == {k \in DOMAIN records : records[k].rec = "event"}
           f == [k \in S |-> records[k]]
<1>1. Taken /\ IsSequence(records)
  BY DEF Tracked, Stamped, Taken, RecordsSound
<1>2. IsFiniteSet(S)
  <2>1. Len(records) \in Nat /\ DOMAIN records = 1..Len(records)
    BY <1>1, AppendOne
  <2>2. IsFiniteSet(DOMAIN records)
    BY <2>1, FS_Interval
  <2> QED
    BY <2>2, FS_Subset
<1>3. f \in Surjection(S, Events)
  BY DEF Surjection, Events, RecordsOf
<1>4. IsFiniteSet(Events)
  <2> HIDE DEF S, f
  <2> QED
    BY <1>2, <1>3, FS_Surjection
<1>5. \A e \in Events : \E k \in DOMAIN records : records[k].rec = "event" /\ e = records[k]
  BY DEF Events, RecordsOf
<1>6. \A k \in DOMAIN records : records[k].rec = "event" => records[k].i \in Nat
  BY <1>1 DEF Taken, RecordsSound, StampsOf
<1>7. \A k, l \in DOMAIN records :
        (records[k].rec = "event" /\ records[l].rec = "event" /\ records[k].i = records[l].i) => k = l
  BY <1>1 DEF Taken, Apart, StampsOf
<1> QED
  BY <1>4, <1>5, <1>6, <1>7 DEF Distinct

(* ... and one thread writes them down in the order of submission.         *)
LEMMA WrittenInOrder ==
    ASSUME Serial, Alone, NEW k \in DOMAIN records, NEW l \in DOMAIN records,
           records[k].rec = "event", records[l].rec = "event", k < l
    PROVE  records[k].i < records[l].i
<1>1. records[k].tid = records[l].tid
  <2>1. PICK t : Threads = {t}
    <3>1. IsFiniteSet(Threads)
      BY ShimAssumption DEF Serial, Threads
    <3> QED
      BY <3>1, OneThreadOnly
  <2> QED
    BY <2>1 DEF Serial, Signed
<1> QED
  BY <1>1 DEF Serial, Tracked, Stamped, Taken, Ascending, StampsOf

LEMMA PlaceInFile ==
    ASSUME Serial, Alone, NEW k \in DOMAIN records, records[k].rec = "event"
    PROVE  Cardinality({l \in 1..k : records[l].rec = "event"}) = Place(records[k], Events)
<1> DEFINE S == {l \in 1..k : records[l].rec = "event"}
           T == {e \in Events : e.i <= records[k].i}
           f == [l \in S |-> records[l]]
<1>1. /\ Len(records) \in Nat /\ DOMAIN records = 1..Len(records)
      /\ Taken
  BY AppendOne DEF Serial, Tracked, Stamped, Taken, RecordsSound
<1>2. S \subseteq DOMAIN records /\ IsFiniteSet(S)
  <2>1. IsFiniteSet(1..k)
    BY <1>1, FS_Interval
  <2>2. IsFiniteSet(S)
    BY <2>1, FS_Subset
  <2> QED
    BY <1>1, <2>2
<1>3. \A l \in DOMAIN records : records[l].rec = "event" => records[l] \in Events /\ records[l].i \in Nat
  BY <1>1 DEF Taken, RecordsSound, StampsOf, Events, RecordsOf
<1>4. \A l \in S : records[l] \in T
  <2> SUFFICES ASSUME NEW l \in S PROVE records[l] \in T
    OBVIOUS
  <2>1. l = k \/ records[l].i < records[k].i
    BY <1>1, <1>2, WrittenInOrder
  <2> QED
    BY <1>2, <1>3, <2>1
<1>5. \A l, m \in S : records[l] = records[m] => l = m
  BY <1>1, <1>2 DEF Taken, Apart, StampsOf
<1>6. \A e \in T : \E l \in S : records[l] = e
  <2> SUFFICES ASSUME NEW e \in T PROVE \E l \in S : records[l] = e
    OBVIOUS
  <2>1. PICK l \in DOMAIN records : records[l].rec = "event" /\ e = records[l]
    BY DEF Events, RecordsOf
  <2>2. ~(k < l)
    BY <1>3, <2>1, WrittenInOrder
  <2> QED
    BY <1>1, <2>1, <2>2
<1>7. f \in Bijection(S, T)
  <2> HIDE DEF S, T
  <2>1. f \in [S -> T] /\ DOMAIN f = S
    BY <1>4
  <2>2. f \in Injection(S, T)
    BY <1>5, <2>1 DEF Injection, IsInjective
  <2>3. f \in Surjection(S, T)
    BY <1>6, <2>1 DEF Surjection
  <2> QED
    BY <2>2, <2>3 DEF Bijection
<1>8. Cardinality(T) = Cardinality(S)
  <2> HIDE DEF S, T, f
  <2> QED
    BY <1>2, <1>7, FS_Bijection DEF ExistsBijection
<1> QED
  BY <1>8 DEF Place

(* Of several threads, what the trace held when a thread wrote to it is    *)
(* older than what that thread submitted afterwards.                       *)
Queued ==
    /\ \A k, l, m \in DOMAIN records :
         (k <= l /\ l < m /\ records[l].tid = records[m].tid) => records[k].i < records[m].i
    /\ \A k, l \in DOMAIN records, t \in Threads :
         (k <= l /\ records[l].tid = t /\ frame[t].step \in OPEN) => records[k].i < frame[t].i

LEMMA QueuedInit == Init => Queued
<1> SUFFICES ASSUME Init PROVE Queued
  OBVIOUS
<1>1. Len(<<>>) = 0 /\ DOMAIN <<>> = 1..0
  OBVIOUS
<1>2. DOMAIN records = {}
  BY <1>1 DEF Init
<1> QED
  BY <1>2 DEF Queued

(* A stamp that is taken is above all of the trace ...                     *)
LEMMA QueuedSilent ==
    ASSUME Tracked, Queued, Threads' = Threads, records' = records,
           \A u \in Threads : frame'[u].step \in OPEN =>
               \/ frame'[u].i = counter
               \/ frame[u].step \in OPEN /\ frame'[u].i = frame[u].i
    PROVE  Queued'
<1>1. \A k \in DOMAIN records : records[k].i < counter
  BY DEF Tracked, Stamped, Taken, RecordsSound, StampsOf
<1> QED
  BY <1>1 DEF Queued

(* ... and a record is the last of the file, and of its thread's.          *)
LEMMA QueuedWrite ==
    ASSUME Tracked, Queued, Threads' = Threads, NEW t \in Threads, Others(t),
           frame[t].step \in OPEN, frame'[t].step \notin OPEN,
           NEW r, records' = Append(records, r), r.tid = t, r.i = frame[t].i
    PROVE  Queued'
<1> DEFINE n == Len(records) + 1
<1>1. /\ Len(records) \in Nat /\ DOMAIN records = 1..Len(records) /\ DOMAIN records' = 1..n
      /\ \A k \in DOMAIN records : records'[k] = records[k]
      /\ records'[n] = r
  BY AppendOne DEF Tracked, Stamped, Taken, RecordsSound
<1>2. \A k, l \in DOMAIN records' : k <= l /\ l # n => k \in DOMAIN records /\ l \in DOMAIN records
  BY <1>1
<1>3. \A l, m \in DOMAIN records' : l < m => l # n
  BY <1>1
<1> HIDE DEF n
<1>4. ASSUME NEW k \in DOMAIN records', NEW l \in DOMAIN records', NEW m \in DOMAIN records',
             k <= l, l < m, records'[l].tid = records'[m].tid
      PROVE  records'[k].i < records'[m].i
  <2>1. /\ k \in DOMAIN records /\ l \in DOMAIN records
        /\ records'[k] = records[k] /\ records'[l] = records[l]
    BY <1>1, <1>2, <1>3, <1>4
  <2>2. CASE m = n
    BY <1>1, <1>4, <2>1, <2>2 DEF Queued
  <2>3. CASE m # n
    BY <1>1, <1>2, <1>4, <2>1, <2>3 DEF Queued
  <2> QED
    BY <2>2, <2>3
<1>5. ASSUME NEW k \in DOMAIN records', NEW l \in DOMAIN records', NEW u \in Threads,
             k <= l, records'[l].tid = u, frame'[u].step \in OPEN
      PROVE  records'[k].i < frame'[u].i
  <2>1. u # t /\ frame'[u] = frame[u]
    BY <1>5 DEF Others
  <2>2. l # n
    BY <1>1, <1>5, <2>1
  <2> QED
    BY <1>1, <1>2, <1>5, <2>1, <2>2 DEF Queued
<1> QED
  BY <1>4, <1>5 DEF Queued

LEMMA QueuedNext ==
    ASSUME Tracked, Queued, [Next]_vars
    PROVE  Queued'
<1>1. Shaped
  BY DEF Tracked, Stamped
<1>2. CASE UNCHANGED vars
  <2>1. UNCHANGED <<program, frame, records>>
    BY <1>2 DEF vars
  <2> QED
    BY <2>1, QueuedSilent DEF Threads
<1>3. ASSUME NEW t \in Threads, NEW c, Enter(t, c) PROVE Queued'
  <2>1. /\ Others(t) /\ frame'[t].i = counter /\ UNCHANGED <<program, records>>
    BY <1>1, <1>3, EnterView
  <2> QED
    BY <2>1, QueuedSilent DEF Others, Threads
<1>4. ASSUME NEW t \in Threads, Perform(t) \/ Between(t) PROVE Queued'
  <2>1. /\ Others(t) /\ UNCHANGED <<program, records>>
        /\ frame[t].step \in OPEN /\ frame'[t].i = frame[t].i
    BY <1>1, <1>4, PerformView, BetweenView DEF OPEN
  <2> QED
    BY <2>1, QueuedSilent DEF Others, Threads
<1>5. ASSUME NEW t \in Threads, Complete(t) PROVE Queued'
  <2>1. /\ Others(t) /\ UNCHANGED <<program, records>>
        /\ frame[t].step \in OPEN
        /\ frame'[t].step \in {"idle", "clear"} \/ frame'[t].i = frame[t].i
    BY <1>1, <1>5, CompleteView DEF OPEN, RETURNED
  <2> QED
    BY <2>1, QueuedSilent DEF Others, Threads, OPEN, RETURNED
<1>6. ASSUME NEW t \in Threads, Clear(t) PROVE Queued'
  <2>1. /\ Others(t) /\ UNCHANGED <<program, records>> /\ frame'[t].step = "idle"
    BY <1>1, <1>6, ClearView
  <2> QED
    BY <2>1, QueuedSilent DEF Others, Threads, OPEN, RETURNED
<1>7. ASSUME NEW t \in Threads, EmitMarker(t) PROVE Queued'
  <2>1. PICK r : records' = Append(records, r) /\ r.tid = t /\ r.i = frame[t].i
    <3> DEFINE marker == [rec |-> "marker", i |-> frame[t].i, tid |-> t]
    <3>1. records' = Append(records, marker)
      BY <1>1, <1>7, EmitMarkerView
    <3>2. marker.tid = t /\ marker.i = frame[t].i
      OBVIOUS
    <3> QED
      BY <3>1, <3>2
  <2>2. /\ Others(t) /\ program' = program
        /\ frame[t].step \in OPEN /\ frame'[t].step \notin OPEN
    BY <1>1, <1>7, EmitMarkerView DEF OPEN, RETURNED
  <2> QED
    BY <2>1, <2>2, QueuedWrite DEF Threads
<1>8. ASSUME NEW t \in Threads, Emit(t) PROVE Queued'
  <2>1. PICK r : records' = Append(records, r) /\ r.tid = t /\ r.i = frame[t].i
    BY <1>8, EmitRecord
  <2>2. /\ Others(t) /\ program' = program
        /\ frame[t].step \in OPEN /\ frame'[t].step \notin OPEN
    BY <1>1, <1>8, EmitView DEF OPEN, RETURNED
  <2> QED
    BY <2>1, <2>2, QueuedWrite DEF Threads
<1> QED
  BY <1>2, <1>3, <1>4, <1>5, <1>6, <1>7, <1>8 DEF Next, Between

(* No more events come before an event in the file than were submitted     *)
(* before a later one of the same thread.                                  *)
LEMMA PastIsShort ==
    ASSUME Tracked, Queued, NEW l \in DOMAIN records, NEW m \in DOMAIN records, l < m,
           records[l].tid = records[m].tid
    PROVE  Cardinality({k \in 1..l : records[k].rec = "event"}) <= Place(records[m], Events)
<1> DEFINE S == {k \in 1..l : records[k].rec = "event"}
           T == {e \in Events : e.i <= records[m].i}
           f == [k \in S |-> records[k]]
<1>1. Len(records) \in Nat /\ DOMAIN records = 1..Len(records) /\ Taken
  BY AppendOne DEF Tracked, Stamped, Taken, RecordsSound
<1>2. \A k \in S : k \in DOMAIN records /\ k <= l /\ records[k].rec = "event"
  BY <1>1
<1>3. \A k \in DOMAIN records : records[k].i \in Nat
  BY <1>1 DEF Taken, RecordsSound, StampsOf
<1>4. \A k \in S : records[k] \in T
  BY <1>2, <1>3 DEF Queued, Events, RecordsOf
<1>5. \A k, j \in S : records[k] = records[j] => k = j
  BY <1>1, <1>2 DEF Taken, Apart, StampsOf
<1>6. f \in Injection(S, T)
  <2>1. f \in [S -> T]
    BY <1>4
  <2> HIDE DEF S, T
  <2> QED
    BY <1>5, <2>1 DEF Injection, IsInjective
<1>7. IsFiniteSet(T)
  BY EventsDistinct, FS_Subset DEF Distinct
<1>8. Cardinality(S) <= Cardinality(T)
  <2> HIDE DEF S, T, f
  <2> QED
    BY <1>6, <1>7, FS_Injection
<1> QED
  BY <1>8 DEF Place

(* reproducer.ts: a finding's prefix holds "Records up to and including    *)
(* the crash point."  The crash point counts in submission order and the   *)
(* prefix is cut by the order of the file.  For any threads, what the      *)
(* thread of the crash point issued before it is there, and so is every    *)
(* marker, those after the crash point included; of one thread, the calls  *)
(* of the prefix are those up to the crash point.  Of several, calls of    *)
(* other threads and the crash point itself may fall on either side.       *)
THEOREM PrefixesKeepThePast == Spec => []PrefixKeepsPast
<1>1. Serial /\ Queued => PrefixKeepsPast
  <2> SUFFICES ASSUME Serial, Queued,
                      NEW cp \in DOMAIN InSubmissionOrder(records, "event")
               PROVE  LET c == InSubmissionOrder(records, "event")[cp]
                          kept == {records[k] : k \in TracePrefix(records, cp)}
                      IN  /\ \A e \in Events : (e.tid = c.tid /\ e.i < c.i) => e \in kept
                          /\ Alone => \A e \in Events : e \in kept <=> e.i <= c.i
                          /\ RecordsOf(records, "marker") \subseteq kept
    BY DEF PrefixKeepsPast
  <2> DEFINE c == InSubmissionOrder(records, "event")[cp]
             upto(k) == Cardinality({l \in 1..k : records[l].rec = "event"})
             kept == {records[k] : k \in TracePrefix(records, cp)}
  <2>1. Distinct(Events) /\ Tracked
    BY EventsDistinct DEF Serial
  <2>2. c \in Events /\ Place(c, Events) = cp
    BY <2>1, SortedIs DEF Events
  <2>3. \A e \in Events : e.i <= c.i <=> Place(e, Events) <= cp
    BY <2>1, <2>2, PlacesAscend
  <2>4. \A k \in DOMAIN records : k \in TracePrefix(records, cp) <=>
                                   (records[k].rec = "event" => upto(k) <= cp)
    BY DEF TracePrefix
  <2>5. TracePrefix(records, cp) \subseteq DOMAIN records
    BY DEF TracePrefix
  <2>6. \A e \in Events : \E k \in DOMAIN records : records[k].rec = "event" /\ e = records[k]
    BY DEF Events, RecordsOf
  <2>7. PICK m \in DOMAIN records : records[m].rec = "event" /\ c = records[m]
    BY <2>2, <2>6
  <2> HIDE DEF c
  <2>8. ASSUME NEW e \in Events, e.tid = c.tid, e.i < c.i
        PROVE  e \in kept
    <3>1. PICK l \in DOMAIN records : records[l].rec = "event" /\ e = records[l]
      BY <2>6
    <3>2. l < m
      <4>1. l \in Nat /\ m \in Nat /\ e.i \in Nat /\ c.i \in Nat /\ l # m
        BY <2>1, <2>2, <2>7, <2>8, <3>1, AppendOne DEF Distinct, Tracked, Stamped, Taken, RecordsSound
      <4>2. e.i \in StampsOf(e) /\ c.i \in StampsOf(c)
        BY <2>7, <3>1 DEF StampsOf
      <4>3. ~(m < l)
        BY <2>1, <2>7, <2>8, <3>1, <4>1, <4>2 DEF Tracked, Stamped, Taken, Ascending
      <4> QED
        BY <4>1, <4>3
    <3>3. upto(l) <= cp
      BY <2>1, <2>2, <2>7, <2>8, <3>1, <3>2, PastIsShort
    <3> QED
      BY <2>4, <3>1, <3>3
  <2>9. ASSUME Alone, NEW e \in Events PROVE e \in kept <=> e.i <= c.i
    <3>1. PICK l \in DOMAIN records : records[l].rec = "event" /\ e = records[l]
      BY <2>6
    <3>2. l \in TracePrefix(records, cp) <=> e.i <= c.i
      BY <2>3, <2>4, <2>9, <3>1, PlaceInFile
    <3>3. e \in kept <=> l \in TracePrefix(records, cp)
      <4>1. ASSUME NEW k \in TracePrefix(records, cp), e = records[k] PROVE k = l
        BY <2>1, <2>5, <3>1, <4>1 DEF Tracked, Stamped, Taken, Apart, StampsOf
      <4> QED
        BY <3>1, <4>1
    <3> QED
      BY <3>2, <3>3
  <2>10. RecordsOf(records, "marker") \subseteq kept
    BY <2>4 DEF RecordsOf
  <2> QED
    BY <2>8, <2>9, <2>10 DEF c
<1> QED
  BY <1>1, SerialInit, SerialNext, QueuedInit, QueuedNext, PTL DEF Spec, Serial

-----------------------------------------------------------------------------
(* Types, and the payload store, for any threads.  While the store works,  *)
(* an object that is not whole has a thread about to fill it, and nobody   *)
(* goes on to a record of an absent one.                                   *)

WRITES == {"write", "pwrite"}

Opening(t) ==
    frame[t].step \in OPEN =>
        /\ frame[t].step = "remember" => frame[t].call = "open"
        /\ (frame[t].step \in {"perform", "remember"} /\ frame[t].call = "open") =>
               frame[t].path \in PathNames

(* The object of value v is there, whole or not.                           *)
Created(v) == v \in program.values /\ (StoreWorks => cas[v] # "absent")

Writing(t) ==
    frame[t].step \in OPEN =>
        /\ frame[t].call \in WRITES => frame[t].value \in program.values
        /\ frame[t].call \notin WRITES => frame[t].value = NONE
        /\ frame[t].step \in {"store", "fill"} => frame[t].call \in WRITES
        /\ (frame[t].step \in {"seek", "complete", "emit"} /\ frame[t].value # NONE) =>
               Created(frame[t].value)

TablesTyped == fd_paths \in [Fds -> PathNames \cup {NONE}] /\ fd_is_marker \in [Fds -> BOOLEAN]

StoreTyped ==
    /\ cas \in [program.values -> {"absent", "partial", "whole"}]
    /\ StoreWorks => \A v \in program.values :
         cas[v] = "partial" => \E t \in Threads : frame[t].step = "fill" /\ frame[t].value = v

Recorded ==
    \A k \in DOMAIN records :
        (records[k].rec = "event" /\ records[k].value # NONE) => Created(records[k].value)

(* The history has one entry for each event.                               *)
Counted == Len(truth) = Cardinality({k \in DOMAIN records : records[k].rec = "event"})

Kept ==
    /\ program \in Programs
    /\ TablesTyped /\ StoreTyped /\ Recorded /\ Counted
    /\ \A t \in Threads : Opening(t) /\ Writing(t)

LEMMA KeptInit == Init => Kept
<1> SUFFICES ASSUME Init PROVE Kept
  OBVIOUS
<1>1. \A t \in Threads : frame[t].step = "idle"
  BY DEF Init, Idle
<1>2. \A t \in Threads : Opening(t) /\ Writing(t)
  BY <1>1 DEF Opening, Writing, OPEN, RETURNED
<1>3. DOMAIN records = {} /\ Len(truth) = 0
  <2>1. Len(<<>>) = 0 /\ DOMAIN <<>> = 1..0
    OBVIOUS
  <2> QED
    BY <2>1 DEF Init
<1>4. Counted
  <2>1. {k \in DOMAIN records : records[k].rec = "event"} = {}
    BY <1>3
  <2> QED
    BY <1>3, <2>1, FS_EmptySet DEF Counted
<1>5. TablesTyped
  BY DEF Init, TablesTyped
<1>6. StoreTyped
  BY DEF Init, StoreTyped, StoreWorks
<1> QED
  BY <1>2, <1>3, <1>4, <1>5, <1>6 DEF Kept, Recorded, Init

(* The call a thread is in stays the same until its record is written.     *)
LEMMA CallStays ==
    ASSUME Shaped, NEW t \in Threads, Perform(t) \/ Between(t) \/ Complete(t)
    PROVE  \/ frame'[t] = Idle
           \/ /\ frame'[t].call = frame[t].call /\ frame'[t].path = frame[t].path
              /\ frame'[t].value = frame[t].value
<1>1. CASE Perform(t)
  BY <1>1, PerformFrame
<1>2. CASE Between(t)
  BY <1>2 DEF Between, Remember, StorePayload, FillPayload, Seek, Shaped, FIELDS
<1>3. CASE Complete(t)
  <2>1. DOMAIN frame = Threads /\ DOMAIN frame[t] = FIELDS
    BY <1>3 DEF Complete, Shaped
  <2>2. \/ frame'[t] = Idle
        \/ frame'[t] = [frame[t] EXCEPT !.step = "clear"]
        \/ frame'[t] = [frame[t] EXCEPT !.j = counter, !.step = "emit"]
    BY <1>3, <2>1 DEF Complete
  <2> QED
    BY <2>1, <2>2 DEF FIELDS
<1> QED
  BY <1>1, <1>2, <1>3

(* No object goes away, and a thread that does not move is where it was.   *)
LEMMA OthersKept ==
    ASSUME Kept, NEW t \in Threads, Others(t), program' = program,
           \A v \in program.values : cas'[v] = "absent" => cas[v] = "absent"
    PROVE  \A u \in Threads \ {t} : Opening(u)' /\ Writing(u)'
BY DEF Kept, Others, Opening, Writing, Created, StoreWorks

(* What each action does to the call its thread is in.                     *)
LEMMA EnterKept ==
    ASSUME Shaped, Kept, NEW t \in Threads, NEW c \in TargetCalls, Enter(t, c)
    PROVE  /\ Opening(t)' /\ Writing(t)'
           /\ UNCHANGED <<program, fd_paths, fd_is_marker, cas, records, truth>>
<1>1. /\ frame'[t].step \in {"marker", "perform"}
      /\ frame'[t].call = c.call /\ frame'[t].path = c.path /\ frame'[t].value = c.value
      /\ UNCHANGED <<program, fd_paths, fd_is_marker, cas, records, truth>>
  BY DEF Enter, Shaped, tables, history
<1>2. program.paths \subseteq Paths
  BY ShimAssumption DEF Kept
<1> QED
  BY <1>1, <1>2, TargetCallsAre DEF Opening, Writing, WRITES, PathNames

LEMMA IdleKept ==
    ASSUME NEW t, frame'[t].step \in {"idle", "clear"}
    PROVE  Opening(t)' /\ Writing(t)'
BY DEF Opening, Writing, OPEN, RETURNED

LEMMA PerformKept ==
    ASSUME Shaped, Kept, NEW t \in Threads, Perform(t)
    PROVE  /\ Opening(t)' /\ Writing(t)'
           /\ UNCHANGED <<program, fd_paths, fd_is_marker, cas, records, truth>>
<1>1. /\ frame[t].step = "perform" /\ frame'[t].step = AfterCall(frame[t].call)
      /\ frame'[t].call = frame[t].call /\ frame'[t].path = frame[t].path
      /\ frame'[t].value = frame[t].value
      /\ UNCHANGED <<program, fd_paths, fd_is_marker, cas, records, truth>>
  BY PerformFrame DEF Perform, tables
<1>2. Opening(t) /\ Writing(t)
  BY DEF Kept
<1> QED
  BY <1>1, <1>2 DEF Opening, Writing, WRITES, AfterCall, OPEN, RETURNED

LEMMA RememberKept ==
    ASSUME Shaped, Kept, NEW t \in Threads, Remember(t)
    PROVE  /\ Opening(t)' /\ Writing(t)' /\ TablesTyped'
           /\ UNCHANGED <<program, cas, records, truth>>
<1>1. /\ frame[t].step = "remember" /\ frame'[t].step = "complete"
      /\ frame'[t].call = frame[t].call /\ frame'[t].value = frame[t].value
      /\ UNCHANGED <<program, cas, records, truth>>
  BY DEF Remember, Shaped, FIELDS, history
<1>2. Opening(t) /\ Writing(t) /\ TablesTyped
  BY DEF Kept
<1>3. frame[t].path \in PathNames /\ frame[t].call = "open"
  BY <1>1, <1>2 DEF Opening, OPEN, RETURNED
<1>4. TablesTyped'
  BY <1>2, <1>3 DEF Remember, TablesTyped, tables
<1>5. Opening(t)' /\ Writing(t)'
  BY <1>1, <1>2, <1>3 DEF Opening, Writing, WRITES, OPEN, RETURNED
<1> QED
  BY <1>1, <1>4, <1>5

LEMMA StoreKept ==
    ASSUME Shaped, Kept, NEW t \in Threads, StorePayload(t) \/ FillPayload(t)
    PROVE  /\ Opening(t)' /\ Writing(t)' /\ StoreTyped'
           /\ \A v \in program.values : cas'[v] = "absent" => cas[v] = "absent"
           /\ UNCHANGED <<program, fd_paths, fd_is_marker, records, truth>>
<1> DEFINE f == frame[t]
           g == frame'[t]
<1>1. /\ f.step \in {"store", "fill"} /\ g.call = f.call /\ g.value = f.value
      /\ DOMAIN frame = Threads /\ DOMAIN f = FIELDS
      /\ UNCHANGED <<program, fd_paths, fd_is_marker, records, truth>>
  BY DEF StorePayload, FillPayload, Shaped, FIELDS, tables, history
<1>2. Threads' = Threads /\ Others(t)
  BY <1>1, BetweenView DEF Between, Threads
<1>3. f.call \in WRITES /\ f.value \in program.values
  BY <1>1 DEF Kept, Writing, OPEN, RETURNED
<1>4. /\ cas \in [program.values -> {"absent", "partial", "whole"}]
      /\ StoreWorks => \A v \in program.values :
           cas[v] = "partial" => \E u \in Threads : frame[u].step = "fill" /\ frame[u].value = v
  BY DEF Kept, StoreTyped, StoreWorks
<1>5. \/ /\ f.step = "store" /\ cas[f.value] = "absent" /\ cas' = [cas EXCEPT ![f.value] = "partial"]
         /\ g.step = "fill"
      \/ /\ f.step = "store" /\ (StoreWorks => cas[f.value] # "absent")
         /\ cas' = cas /\ g.step = AfterStore(f.call)
      \/ f.step = "fill" /\ cas' = [cas EXCEPT ![f.value] = "whole"] /\ g.step = AfterStore(f.call)
      \/ f.step = "fill" /\ ~StoreWorks /\ cas' = cas /\ g.step = AfterStore(f.call)
  BY <1>1 DEF StorePayload, FillPayload, FIELDS, StoreWorks
<1> HIDE DEF f, g
<1>6. /\ cas' \in [program.values -> {"absent", "partial", "whole"}]
      /\ \A v \in program.values : cas'[v] = "absent" => cas[v] = "absent"
      /\ (StoreWorks /\ g.step # "fill") => cas'[f.value] # "absent"
  BY <1>3, <1>4, <1>5 DEF AfterStore
<1>7. StoreWorks => \A v \in program.values :
        cas'[v] = "partial" => \E u \in Threads : frame'[u].step = "fill" /\ frame'[u].value = v
  <2> SUFFICES ASSUME StoreWorks, NEW v \in program.values, cas'[v] = "partial"
               PROVE  \E u \in Threads : frame'[u].step = "fill" /\ frame'[u].value = v
    OBVIOUS
  <2>1. CASE cas[v] = "partial"
    <3>1. PICK u \in Threads : frame[u].step = "fill" /\ frame[u].value = v
      BY <1>4, <2>1
    <3>2. u # t
      BY <1>4, <1>5, <3>1 DEF f
    <3> QED
      BY <1>2, <3>1, <3>2 DEF Others
  <2>2. CASE cas[v] # "partial"
    <3>1. v = f.value /\ g.step = "fill" /\ g.value = v
      BY <1>1, <1>3, <1>4, <1>5, <2>2
    <3> QED
      BY <3>1 DEF g
  <2> QED
    BY <2>1, <2>2
<1>8. StoreTyped'
  BY <1>1, <1>2, <1>6, <1>7 DEF StoreTyped, StoreWorks
<1>9. Opening(t)' /\ Writing(t)'
  <2>1. g.step \in {"fill", "seek", "complete"}
    BY <1>5 DEF AfterStore
  <2> QED
    BY <1>1, <1>3, <1>6, <2>1 DEF Opening, Writing, Created, WRITES, g, StoreWorks
<1> QED
  BY <1>1, <1>6, <1>8, <1>9

LEMMA SeekKept ==
    ASSUME Shaped, Kept, NEW t \in Threads, Seek(t)
    PROVE  /\ Opening(t)' /\ Writing(t)'
           /\ UNCHANGED <<program, fd_paths, fd_is_marker, cas, records, truth>>
<1>1. /\ frame[t].step = "seek" /\ frame'[t].step = "complete"
      /\ frame'[t].call = frame[t].call /\ frame'[t].value = frame[t].value
      /\ UNCHANGED <<program, fd_paths, fd_is_marker, cas, records, truth>>
  BY DEF Seek, Shaped, FIELDS, tables, history
<1>2. Opening(t) /\ Writing(t)
  BY DEF Kept
<1> QED
  BY <1>1, <1>2 DEF Opening, Writing, Created, OPEN, RETURNED, StoreWorks

LEMMA CompleteKept ==
    ASSUME Shaped, Kept, NEW t \in Threads, Complete(t)
    PROVE  /\ Opening(t)' /\ Writing(t)'
           /\ UNCHANGED <<program, fd_paths, fd_is_marker, cas, records, truth>>
<1>1. /\ frame[t].step = "complete"
      /\ frame'[t].step \in {"idle", "clear"} \/ frame'[t].step = "emit"
      /\ UNCHANGED <<program, fd_paths, fd_is_marker, cas, records, truth>>
  BY CompleteView DEF Complete, tables
<1>2. CASE frame'[t].step \in {"idle", "clear"}
  BY <1>1, <1>2, IdleKept
<1>3. CASE frame'[t].step = "emit"
  <2>1. frame'[t].call = frame[t].call /\ frame'[t].value = frame[t].value
    BY <1>3, CallStays DEF Idle
  <2>2. Opening(t) /\ Writing(t)
    BY DEF Kept
  <2> QED
    BY <1>1, <1>3, <2>1, <2>2 DEF Opening, Writing, Created, OPEN, RETURNED, StoreWorks
<1> QED
  BY <1>1, <1>2, <1>3

(* The trace with one record more.                                         *)
LEMMA RecordedNext ==
    ASSUME Kept, IsSequence(records), NEW r, records' = Append(records, r),
           UNCHANGED <<program, cas>>, r.rec = "event" /\ r.value # NONE => Created(r.value)
    PROVE  /\ Recorded'
           /\ {k \in DOMAIN records' : records'[k].rec = "event"} =
              {k \in DOMAIN records : records[k].rec = "event"}
              \cup (IF r.rec = "event" THEN {Len(records) + 1} ELSE {})
<1>1. /\ \A k \in DOMAIN records : k \in DOMAIN records' /\ records'[k] = records[k]
      /\ Len(records) + 1 \in DOMAIN records' /\ records'[Len(records) + 1] = r
      /\ \A k \in DOMAIN records' : k \in DOMAIN records \/ k = Len(records) + 1
  BY AppendOne
<1>2. Recorded'
  BY <1>1 DEF Kept, Recorded, Created, StoreWorks
<1>3. {k \in DOMAIN records' : records'[k].rec = "event"} =
      {k \in DOMAIN records : records[k].rec = "event"}
      \cup (IF r.rec = "event" THEN {Len(records) + 1} ELSE {})
  BY <1>1
<1> QED
  BY <1>2, <1>3

LEMMA EmitKept ==
    ASSUME Tracked, Kept, NEW t \in Threads, Emit(t)
    PROVE  /\ Recorded' /\ Counted'
           /\ UNCHANGED <<program, fd_paths, fd_is_marker, cas>>
<1>1. PICK r : /\ records' = Append(records, r)
               /\ r.rec = "event" /\ r.value = frame[t].value
  <2>1. PICK r : /\ records' = Append(records, r)
                 /\ r.rec = "event" /\ r.i = frame[t].i /\ r.j = frame[t].j /\ r.tid = t
                 /\ r.call = frame[t].call /\ r.ret = frame[t].ret /\ r.off = frame[t].off
                 /\ r.path = IF frame[t].call \in FdCall \cup {"open"} THEN path_for(frame[t].fd)
                             ELSE frame[t].path
                 /\ r.path2 = frame[t].path2 /\ r.value = frame[t].value
                 /\ r.len = IF frame[t].call \in {"write", "pwrite"} THEN WRITTEN * SectorSize ELSE 0
    BY EmitsRecord
  <2> QED
    BY <2>1
<1>2. /\ frame[t].step = "emit" /\ UNCHANGED <<program, fd_paths, fd_is_marker, cas>>
      /\ truth' = Append(truth, [i |-> frame[t].i, at |-> frame[t].at])
  BY DEF Emit, tables
<1>3. IsSequence(records) /\ IsSequence(truth)
  BY DEF Tracked, Stamped, Taken, RecordsSound, Matched
<1>4. r.rec = "event" /\ r.value # NONE => Created(r.value)
  BY <1>1, <1>2 DEF Kept, Writing, OPEN, RETURNED
<1>5. /\ Recorded'
      /\ {k \in DOMAIN records' : records'[k].rec = "event"} =
         {k \in DOMAIN records : records[k].rec = "event"} \cup {Len(records) + 1}
  BY <1>1, <1>2, <1>3, <1>4, RecordedNext
<1>6. Counted'
  <2> DEFINE S == {k \in DOMAIN records : records[k].rec = "event"}
  <2>1. Len(records) \in Nat /\ DOMAIN records = 1..Len(records) /\ Len(truth) \in Nat
    BY <1>3, AppendOne
  <2>2. IsFiniteSet(S) /\ Len(records) + 1 \notin S
    <3>1. IsFiniteSet(DOMAIN records)
      BY <2>1, FS_Interval
    <3>2. IsFiniteSet(S)
      BY <3>1, FS_Subset
    <3> QED
      BY <2>1, <3>2
  <2> HIDE DEF S
  <2>3. Cardinality(S \cup {Len(records) + 1}) = Cardinality(S) + 1
    BY <2>2, FS_AddElement
  <2>4. Len(truth') = Len(truth) + 1
    <3>1. DOMAIN truth' = 1..(Len(truth) + 1)
      BY <1>2, <1>3, AppendOne
    <3>2. IsSequence(truth')
      BY <1>2, <1>3, AppendOne
    <3>3. Len(truth') \in Nat /\ DOMAIN truth' = 1..Len(truth')
      BY <3>2, AppendOne
    <3> QED
      BY <2>1, <3>1, <3>3
  <2> QED
    BY <1>5, <2>3, <2>4 DEF Kept, Counted, S
<1> QED
  BY <1>2, <1>5, <1>6

LEMMA EmitMarkerKept ==
    ASSUME Tracked, Kept, NEW t \in Threads, EmitMarker(t)
    PROVE  /\ Recorded' /\ Counted'
           /\ UNCHANGED <<program, fd_paths, fd_is_marker, cas>>
<1>1. PICK r : records' = Append(records, r) /\ r.rec = "marker"
  BY DEF EmitMarker
<1>2. UNCHANGED <<program, fd_paths, fd_is_marker, cas, truth>>
  BY DEF EmitMarker, tables
<1>3. IsSequence(records)
  BY DEF Tracked, Stamped, Taken, RecordsSound
<1>4. /\ Recorded'
      /\ {k \in DOMAIN records' : records'[k].rec = "event"} =
         {k \in DOMAIN records : records[k].rec = "event"}
  BY <1>1, <1>2, <1>3, RecordedNext
<1> QED
  BY <1>2, <1>4 DEF Kept, Counted

(* No thread leaves an object it is filling, but to have filled it.        *)
LEMMA StoreUntouched ==
    ASSUME Kept, NEW t \in Threads, Others(t), Threads' = Threads, UNCHANGED <<program, cas>>,
           frame[t].step # "fill"
    PROVE  StoreTyped'
BY DEF Kept, StoreTyped, Others, StoreWorks

LEMMA KeptNext ==
    ASSUME Tracked, Kept, [Next]_vars
    PROVE  Kept'
<1>1. Shaped
  BY DEF Tracked, Stamped
<1>2. CASE UNCHANGED vars
  <2>1. UNCHANGED <<program, fd_paths, fd_is_marker, cas, records, truth, frame>>
    BY <1>2 DEF vars, tables, history
  <2> QED
    BY <2>1 DEF Kept, TablesTyped, StoreTyped, Recorded, Counted, Opening, Writing, Created, Threads, StoreWorks
<1>3. ASSUME NEW t \in Threads, Opening(t)', Writing(t)', Others(t), program' = program,
             \A v \in program.values : cas'[v] = "absent" => cas[v] = "absent",
             TablesTyped', StoreTyped', Recorded', Counted'
      PROVE  Kept'
  <2>1. \A u \in Threads \ {t} : Opening(u)' /\ Writing(u)'
    BY <1>3, OthersKept
  <2>2. Threads' = Threads
    BY <1>3 DEF Threads
  <2> QED
    BY <1>3, <2>1, <2>2 DEF Kept
<1>4. ASSUME UNCHANGED <<program, fd_paths, fd_is_marker, cas, records, truth>>
      PROVE  /\ TablesTyped' /\ Recorded' /\ Counted' /\ Threads' = Threads
             /\ \A v \in program.values : cas'[v] = "absent" => cas[v] = "absent"
  BY <1>4 DEF Kept, TablesTyped, Recorded, Counted, Created, Threads, StoreWorks
<1>5. ASSUME NEW t \in Threads, NEW c \in TargetCalls, Enter(t, c) PROVE Kept'
  BY <1>1, <1>3, <1>4, <1>5, EnterKept, EnterView, StoreUntouched
<1>6. ASSUME NEW t \in Threads, Perform(t) PROVE Kept'
  BY <1>1, <1>3, <1>4, <1>6, PerformKept, PerformView, StoreUntouched
<1>7. ASSUME NEW t \in Threads, Seek(t) PROVE Kept'
  <2>1. Others(t) /\ frame[t].step = "seek"
    BY <1>1, <1>7, BetweenView DEF Between, Seek
  <2> QED
    BY <1>1, <1>3, <1>4, <1>7, <2>1, SeekKept, StoreUntouched
<1>8. ASSUME NEW t \in Threads, Complete(t) PROVE Kept'
  BY <1>1, <1>3, <1>4, <1>8, CompleteKept, CompleteView, StoreUntouched
<1>9. ASSUME NEW t \in Threads, StorePayload(t) \/ FillPayload(t) PROVE Kept'
  <2>1. Others(t)
    BY <1>1, <1>9, BetweenView DEF Between
  <2>2. TablesTyped' /\ Recorded' /\ Counted'
    <3>1. UNCHANGED <<program, fd_paths, fd_is_marker, records, truth>>
      BY <1>1, <1>9, StoreKept
    <3>2. \A v \in program.values : cas'[v] = "absent" => cas[v] = "absent"
      BY <1>1, <1>9, StoreKept
    <3> QED
      BY <3>1, <3>2 DEF Kept, TablesTyped, Recorded, Counted, Created, StoreWorks
  <2> QED
    BY <1>1, <1>3, <1>9, <2>1, <2>2, StoreKept
<1>10. ASSUME NEW t \in Threads, Remember(t) PROVE Kept'
  <2>1. Others(t) /\ frame[t].step = "remember"
    BY <1>1, <1>10, BetweenView DEF Between, Remember
  <2>2. UNCHANGED <<program, cas, records, truth>> /\ TablesTyped' /\ Opening(t)' /\ Writing(t)'
    BY <1>1, <1>10, RememberKept
  <2>3. Recorded' /\ Counted' /\ Threads' = Threads
    BY <2>2 DEF Kept, Recorded, Counted, Created, Threads, StoreWorks
  <2> QED
    BY <1>3, <2>1, <2>2, <2>3, StoreUntouched
<1>11. ASSUME NEW t \in Threads, Emit(t) PROVE Kept'
  <2>1. Others(t) /\ frame[t].step = "emit" /\ frame'[t].step \in {"idle", "clear"}
    BY <1>1, <1>11, EmitView
  <2>2. /\ Recorded' /\ Counted' /\ UNCHANGED <<program, fd_paths, fd_is_marker, cas>>
    BY <1>11, EmitKept
  <2>3. TablesTyped' /\ Threads' = Threads
    BY <2>2 DEF Kept, TablesTyped, Threads
  <2> QED
    BY <1>3, <2>1, <2>2, <2>3, IdleKept, StoreUntouched
<1>12. ASSUME NEW t \in Threads, EmitMarker(t) PROVE Kept'
  <2>1. Others(t) /\ frame[t].step = "marker" /\ frame'[t].step \in {"idle", "clear"}
    BY <1>1, <1>12, EmitMarkerView
  <2>2. /\ Recorded' /\ Counted' /\ UNCHANGED <<program, fd_paths, fd_is_marker, cas>>
    BY <1>12, EmitMarkerKept
  <2>3. TablesTyped' /\ Threads' = Threads
    BY <2>2 DEF Kept, TablesTyped, Threads
  <2> QED
    BY <1>3, <2>1, <2>2, <2>3, IdleKept, StoreUntouched
<1>13. ASSUME NEW t \in Threads, Clear(t) PROVE Kept'
  <2>1. Others(t) /\ frame[t].step = "clear" /\ frame'[t].step \in {"idle", "clear"}
    BY <1>1, <1>13, ClearView
  <2>2. UNCHANGED <<program, cas, records, truth>>
    BY <1>13 DEF Clear, history
  <2>3. Recorded' /\ Counted' /\ Threads' = Threads
    BY <2>2 DEF Kept, Recorded, Counted, Created, Threads, StoreWorks
  <2>4. TablesTyped'
    BY <1>13 DEF Clear, Kept, TablesTyped, tables
  <2> QED
    BY <1>3, <2>1, <2>2, <2>3, <2>4, IdleKept, StoreUntouched
<1> QED
  BY <1>2, <1>5, <1>6, <1>7, <1>8, <1>9, <1>10, <1>11, <1>12, <1>13 DEF Next

(* The types of the interposer's state: a stamp in the trace is below the  *)
(* counter, and every record has its call in the history.                  *)
THEOREM ShimTypes == Spec => []TypeOK
<1>1. Tracked /\ Kept => TypeOK
  <2> SUFFICES ASSUME Tracked, Kept PROVE TypeOK
    OBVIOUS
  <2>1. counter \in Nat /\ \A k \in DOMAIN records : \A s \in StampsOf(records[k]) : s \in 0..(counter - 1)
    BY DEF Tracked, Stamped, Taken, RecordsSound
  <2>2. \A t \in Threads :
          frame[t].step \in {"idle", "marker", "perform", "remember", "store", "fill", "seek",
                             "complete", "emit", "clear"}
    BY DEF Tracked, Stamped, Shaped, OPEN, RETURNED
  <2> QED
    BY <2>1, <2>2 DEF TypeOK, Kept, TablesTyped, StoreTyped, Counted
<1> QED
  BY <1>1, TrackedInit, TrackedNext, KeptInit, KeptNext, PTL DEF Spec

LEMMA StoredAtRest ==
    ASSUME Kept, Quiet, StoreWorks
    PROVE  PayloadsStored
<1> SUFFICES ASSUME NEW e \in Events, e.value # NONE
             PROVE  cas[e.value] = "whole"
  BY DEF PayloadsStored
<1>1. e.value \in program.values /\ cas[e.value] # "absent"
  BY DEF Kept, Recorded, Created, Events, RecordsOf
<1>2. cas[e.value] # "partial"
  BY <1>1 DEF Kept, StoreTyped, Quiet
<1> QED
  BY <1>1, <1>2 DEF Kept, StoreTyped

(* trace-format.md: a payload is "created with O_EXCL, so a payload written *)
(* many times is stored once".  If no system call of store_payload fails,  *)
(* whichever thread creates it and whichever find it there, half written,  *)
(* when no call is running every payload the trace names is whole.         *)
THEOREM PayloadsAreStored == Spec => []((StoreWorks /\ Quiet) => PayloadsStored)
BY TrackedInit, TrackedNext, KeptInit, KeptNext, StoredAtRest, PTL DEF Spec

-----------------------------------------------------------------------------
(* What is on disk, path by path.  A call of the target and the replay of  *)
(* its record do the same to it.                                           *)

OnDisk == [p \in Paths |-> Held(names, files, p)]

Effect(m, call, path, path2, off, v) ==
    IF call = "write" THEN [m EXCEPT ![path] = Overlay(@, v, off, WRITTEN)]
    ELSE IF call = "pwrite" THEN [m EXCEPT ![path] = Overlay(@, v, 0, WRITTEN)]
    ELSE IF call \in {"ftruncate", "unlink"} THEN [m EXCEPT ![path] = <<>>]
    ELSE IF call = "rename" THEN [m EXCEPT ![path2] = m[path], ![path] = <<>>]
    ELSE m

NextContents(m, e) ==
    IF e.ret >= 0 THEN Effect(m, e.call, e.path, e.path2, e.off, e.value) ELSE m

(* The contents after each event of a trace.                               *)
Chronicle(ms, es) ==
    /\ DOMAIN ms = 0..Len(es)
    /\ ms[0] = [p \in Paths |-> <<>>]
    /\ \A n \in 1..Len(es) : ms[n] = NextContents(ms[n - 1], es[n])

-----------------------------------------------------------------------------
(* The kernel of a target with one thread that leaves the names of its     *)
(* open files alone and empties no file by opening it.                     *)

Plain == Fits /\ ~RenameWhileOpen /\ TRUNCATE \notin OpenFlags

ENTERED == {"marker", "perform"}

(* Files in use were created by calls the kernel has done.                 *)
Limit == IF \E t \in Threads : frame[t].step \in ENTERED THEN counter - 1 ELSE counter

NamesSound ==
    /\ names \in [PathNames -> Nat]
    /\ \A p \in PathNames : names[p] \in 0..Limit
    /\ \A p, q \in PathNames : (names[p] # 0 /\ names[p] = names[q]) => p = q

FilesSound ==
    /\ DOMAIN files = 1..(2 * program.most)
    /\ \A n \in DOMAIN files : n > Limit => files[n] = <<>>

DescSound ==
    \A fd \in Fds : desc[fd].file # 0 =>
        desc[fd].path \in PathNames /\ names[desc[fd].path] = desc[fd].file

(* Every call takes two stamps at most.                                    *)
Stamping ==
    /\ calls \in 0..program.most
    /\ \A t \in Threads :
         counter <= 2 * calls - (IF frame[t].step \in OPEN \ {"emit"} THEN 1 ELSE 0)

(* The call a thread is about to make ...                                  *)
AboutTo(t) ==
    frame[t].step \in ENTERED =>
        /\ counter = frame[t].i + 1
        /\ frame[t].step = "marker" => desc[frame[t].fd].path = MARKER
        /\ frame[t].call = "open" => frame[t].path \in PathNames /\ frame[t].flags = CREATE
        /\ frame[t].call \in {"rename", "unlink"} => OpenOn(frame[t].path) = {}
        /\ frame[t].call = "rename" => OpenOn(frame[t].path2) = {}

(* ... and is in.                                                          *)
InCall(t) ==
    frame[t].step \in OPEN =>
        /\ frame[t].call = "pwrite" => frame[t].off = 0
        /\ frame[t].call \in {"rename", "unlink"} => frame[t].path \in Paths
        /\ frame[t].call = "rename" => frame[t].path2 \in Paths /\ frame[t].path2 # frame[t].path
        /\ (frame[t].step \in RETURNED /\ frame[t].ret >= 0 /\ frame[t].call \in FdCall) =>
               frame[t].at.path \in PathNames /\ frame[t].at.off \in Nat

(* A record that can be replayed.                                          *)
Replayable(e) ==
    e.ret >= 0 =>
        /\ e.call \in CALLS
        /\ e.call \in WRITES => /\ e.path \in Paths /\ e.off \in Nat
                                /\ e.len = WRITTEN * SectorSize
        /\ e.call = "pwrite" => e.off = 0
        /\ e.call = "ftruncate" => e.path \in Paths /\ e.len = 0
        /\ e.call \in {"rename", "unlink"} => e.path \in Paths
        /\ e.call = "rename" => e.path2 \in Paths /\ e.path2 # e.path

ShortCall(f) == f.call \in WRITES /\ f.ret >= 0 /\ f.ret < WRITTEN * SectorSize

(* What is on disk against contents m, those of the trace so far.          *)
Ahead(m) ==
    \A t \in Threads :
        IF frame[t].step \in RETURNED /\ frame[t].ret >= 0
        THEN \/ ShortCall(frame[t])
             \/ OnDisk = Effect(m, frame[t].call, frame[t].at.path, frame[t].path2,
                                frame[t].at.off, frame[t].value)
        ELSE OnDisk = m

Submitted == InSubmissionOrder(records, "event")

(* The kernel's side of the invariant, and the trace's: what is on disk is *)
(* what the events make of it in their order, but for the call in hand.    *)
KernelSound ==
    /\ NamesSound /\ FilesSound /\ DescSound /\ Stamping
    /\ \A t \in Threads : AboutTo(t) /\ InCall(t)

Sound ==
    /\ KernelSound
    /\ \A e \in Events : Replayable(e)
    /\ \E ms : /\ Chronicle(ms, Submitted)
               /\ (\A e \in Events : ~Short(e)) => Ahead(ms[Len(Submitted)])

-----------------------------------------------------------------------------
(* Replay.  Its loop, step by step.                                        *)

ReplayStep(es, fs, i) ==
    IF es[i].ret >= 0 /\ fs.ok THEN ApplySelected(fs, i, es[i], es[i].len) ELSE fs

Replays(g, es, n) ==
    g = [i \in 0..n |-> IF i = 0 THEN EmptyFs(Len(es)) ELSE ReplayStep(es, g[i - 1], i)]

LEMMA ReplayExists ==
    ASSUME NEW es, NEW n \in Nat
    PROVE  \E g : Replays(g, es, n)
<1> DEFINE T == {m \in Nat : ~ \E g : Replays(g, es, m)}
<1> SUFFICES T = {}
  OBVIOUS
<1> SUFFICES ASSUME T # {} PROVE FALSE
  OBVIOUS
<1>1. PICK m \in T : \A k \in T : m <= k
  BY Smallest
<1>2. Replays([i \in 0..0 |-> EmptyFs(Len(es))], es, 0)
  BY DEF Replays
<1>3. m # 0 /\ m - 1 \in Nat /\ m - 1 \notin T
  BY <1>1, <1>2
<1>4. PICK g : Replays(g, es, m - 1)
  BY <1>3
<1> DEFINE h == [i \in 0..m |-> IF i = m THEN ReplayStep(es, g[m - 1], m) ELSE g[i]]
<1>5. \A i \in 0..(m - 1) : h[i] = g[i]
  BY <1>3
<1>6. g = [i \in 0..(m - 1) |-> IF i = 0 THEN EmptyFs(Len(es)) ELSE ReplayStep(es, g[i - 1], i)]
  BY <1>4 DEF Replays
<1>7. \A i \in 0..m : h[i] = IF i = 0 THEN EmptyFs(Len(es)) ELSE ReplayStep(es, h[i - 1], i)
  <2> SUFFICES ASSUME NEW i \in 0..m
               PROVE  h[i] = IF i = 0 THEN EmptyFs(Len(es)) ELSE ReplayStep(es, h[i - 1], i)
    OBVIOUS
  <2>1. CASE i = m
    <3>1. h[i] = ReplayStep(es, g[m - 1], m) /\ h[m - 1] = g[m - 1]
      BY <1>3, <1>5, <2>1
    <3> QED
      BY <1>3, <2>1, <3>1
  <2>2. CASE i # m
    <3>1. i \in 0..(m - 1) /\ h[i] = g[i]
      BY <1>1, <1>5, <2>2
    <3>2. g[i] = IF i = 0 THEN EmptyFs(Len(es)) ELSE ReplayStep(es, g[i - 1], i)
      BY <1>6, <3>1
    <3>3. i # 0 => h[i - 1] = g[i - 1]
      BY <1>5, <3>1
    <3> QED
      BY <3>1, <3>2, <3>3
  <2> QED
    BY <2>1, <2>2
<1>8. Replays(h, es, m)
  <2>1. h = [i \in 0..m |-> h[i]]
    OBVIOUS
  <2> HIDE DEF h
  <2> QED
    BY <1>7, <2>1 DEF Replays
<1> QED
  BY <1>1, <1>8

LEMMA ReplayRuns ==
    ASSUME NEW es, Len(es) \in Nat
    PROVE  \E g : Replays(g, es, Len(es)) /\ ReplayTrace(es) = g[Len(es)]
<1>1. PICK g0 : Replays(g0, es, Len(es))
  BY ReplayExists
<1> DEFINE g == CHOOSE x : x = [i \in 0..Len(es) |-> IF i = 0 THEN EmptyFs(Len(es))
                                                     ELSE ReplayStep(es, x[i - 1], i)]
<1>2. Replays(g, es, Len(es))
  BY <1>1 DEF Replays
<1>3. ReplayTrace(es) = g[Len(es)]
  BY DEF ReplayTrace, ReplayStep
<1> QED
  BY <1>2, <1>3

(* A replay after i events of n, whose files hold contents m.              *)
Match(fs, m, i, n) ==
    /\ DOMAIN fs = {"names", "data", "ok"} /\ fs.ok
    /\ DOMAIN fs.names = Paths /\ DOMAIN fs.data = 1..n /\ DOMAIN m = Paths
    /\ \A p \in Paths : fs.names[p] \in 0..i
    /\ \A p, q \in Paths : (fs.names[p] # 0 /\ fs.names[p] = fs.names[q]) => p = q
    /\ \A j \in 1..n : j > i => fs.data[j] = <<>>
    /\ \A p \in Paths : Held(fs.names, fs.data, p) = m[p]

LEMMA MatchEmpty ==
    ASSUME NEW n \in Nat
    PROVE  Match(EmptyFs(n), [p \in Paths |-> <<>>], 0, n)
<1> DEFINE fs == EmptyFs(n)
<1>1. /\ DOMAIN fs = {"names", "data", "ok"} /\ fs.ok
      /\ fs.names = [p \in Paths |-> 0] /\ fs.data = [i \in 1..n |-> <<>>]
  BY DEF EmptyFs
<1> HIDE DEF fs
<1> QED
  BY <1>1 DEF Match, Held, fs

LEMMA MatchLater ==
    ASSUME NEW fs, NEW m, NEW n \in Nat, NEW i \in 1..n, Match(fs, m, i - 1, n)
    PROVE  Match(fs, m, i, n)
BY DEF Match

LEMMA MatchEnsured ==
    ASSUME NEW fs, NEW m, NEW n \in Nat, NEW i \in 1..n, Match(fs, m, i - 1, n), NEW p \in Paths
    PROVE  /\ Match(EnsureFile(fs, p, i), m, i, n)
           /\ EnsureFile(fs, p, i).names[p] # 0
<1>1. CASE fs.names[p] # 0
  BY <1>1, MatchLater DEF EnsureFile
<1>2. CASE fs.names[p] = 0
  <2> DEFINE made == EnsureFile(fs, p, i)
  <2>1. made = [fs EXCEPT !.names[p] = i]
    BY <1>2 DEF EnsureFile
  <2>2. /\ DOMAIN made = {"names", "data", "ok"} /\ made.ok /\ made.data = fs.data
        /\ DOMAIN made.names = Paths /\ made.names[p] = i
        /\ \A q \in Paths \ {p} : made.names[q] = fs.names[q]
    BY <2>1 DEF Match
  <2> HIDE DEF made
  <2>3. /\ \A q \in Paths : made.names[q] \in 0..i
        /\ \A q, r \in Paths : (made.names[q] # 0 /\ made.names[q] = made.names[r]) => q = r
    BY <2>2 DEF Match
  <2>4. \A q \in Paths : Held(made.names, made.data, q) = m[q]
    <3>1. Held(made.names, made.data, p) = m[p]
      BY <1>2, <2>2 DEF Match, Held
    <3>2. \A q \in Paths \ {p} : Held(made.names, made.data, q) = m[q]
      BY <2>2 DEF Match, Held
    <3> QED
      BY <3>1, <3>2
  <2> QED
    BY <2>2, <2>3, <2>4 DEF Match, made
<1> QED
  BY <1>1, <1>2

(* The content of one file is replaced ...                                 *)
LEMMA MatchFilled ==
    ASSUME NEW fs, NEW m, NEW n \in Nat, NEW i \in 1..n, Match(fs, m, i, n),
           NEW p \in Paths, fs.names[p] # 0, NEW x
    PROVE  Match([fs EXCEPT !.data[fs.names[p]] = x], [m EXCEPT ![p] = x], i, n)
<1> DEFINE new == [fs EXCEPT !.data[fs.names[p]] = x]
           k == [m EXCEPT ![p] = x]
<1>1. fs.names[p] \in 1..i
  BY DEF Match
<1>2. /\ DOMAIN new = {"names", "data", "ok"} /\ new.ok /\ new.names = fs.names
      /\ DOMAIN new.data = 1..n /\ new.data[fs.names[p]] = x
      /\ \A j \in 1..n : j # fs.names[p] => new.data[j] = fs.data[j]
  BY <1>1 DEF Match
<1>3. DOMAIN k = Paths /\ k[p] = x /\ \A q \in Paths \ {p} : k[q] = m[q]
  BY DEF Match
<1> HIDE DEF new, k
<1>4. \A q \in Paths : Held(new.names, new.data, q) = k[q]
  <2>1. Held(new.names, new.data, p) = k[p]
    BY <1>1, <1>2, <1>3 DEF Held
  <2>2. ASSUME NEW q \in Paths \ {p} PROVE Held(new.names, new.data, q) = k[q]
    <3>1. fs.names[q] # 0 => fs.names[q] \in 1..n /\ fs.names[q] # fs.names[p]
      BY DEF Match
    <3>2. Held(new.names, new.data, q) = Held(fs.names, fs.data, q)
      BY <1>2, <3>1 DEF Held
    <3> QED
      BY <1>3, <3>2 DEF Match
  <2> QED
    BY <2>1, <2>2
<1> QED
  BY <1>1, <1>2, <1>3, <1>4 DEF Match, new, k

(* ... and its name moved or taken away.                                   *)
LEMMA MatchMoved ==
    ASSUME NEW fs, NEW m, NEW n \in Nat, NEW i \in 1..n, Match(fs, m, i, n),
           NEW p \in Paths, NEW q \in Paths, p # q, fs.names[p] # 0
    PROVE  Match([fs EXCEPT !.names[q] = fs.names[p], !.names[p] = 0],
                 [m EXCEPT ![q] = m[p], ![p] = <<>>], i, n)
<1> DEFINE new == [fs EXCEPT !.names[q] = fs.names[p], !.names[p] = 0]
           k == [m EXCEPT ![q] = m[p], ![p] = <<>>]
<1>1. /\ DOMAIN new = {"names", "data", "ok"} /\ new.ok /\ new.data = fs.data
      /\ DOMAIN new.names = Paths /\ new.names[p] = 0 /\ new.names[q] = fs.names[p]
      /\ \A r \in Paths \ {p, q} : new.names[r] = fs.names[r]
  BY DEF Match
<1>2. DOMAIN k = Paths /\ k[p] = <<>> /\ k[q] = m[p] /\ \A r \in Paths \ {p, q} : k[r] = m[r]
  BY DEF Match
<1> HIDE DEF new, k
<1>3. /\ \A r \in Paths : new.names[r] \in 0..i
      /\ \A r, s \in Paths : (new.names[r] # 0 /\ new.names[r] = new.names[s]) => r = s
  BY <1>1 DEF Match
<1>4. \A r \in Paths : Held(new.names, new.data, r) = k[r]
  <2>1. Held(new.names, new.data, p) = k[p]
    BY <1>1, <1>2 DEF Held
  <2>2. Held(new.names, new.data, q) = k[q]
    BY <1>1, <1>2 DEF Held, Match
  <2>3. \A r \in Paths \ {p, q} : Held(new.names, new.data, r) = k[r]
    BY <1>1, <1>2 DEF Held, Match
  <2> QED
    BY <2>1, <2>2, <2>3
<1> QED
  BY <1>1, <1>2, <1>3, <1>4 DEF Match, new, k

LEMMA MatchGone ==
    ASSUME NEW fs, NEW m, NEW n \in Nat, NEW i \in 1..n, Match(fs, m, i, n), NEW p \in Paths
    PROVE  Match([fs EXCEPT !.names[p] = 0], [m EXCEPT ![p] = <<>>], i, n)
<1> DEFINE new == [fs EXCEPT !.names[p] = 0]
           k == [m EXCEPT ![p] = <<>>]
<1>1. /\ DOMAIN new = {"names", "data", "ok"} /\ new.ok /\ new.data = fs.data
      /\ DOMAIN new.names = Paths /\ new.names[p] = 0
      /\ \A r \in Paths \ {p} : new.names[r] = fs.names[r]
  BY DEF Match
<1>2. DOMAIN k = Paths /\ k[p] = <<>> /\ \A r \in Paths \ {p} : k[r] = m[r]
  BY DEF Match
<1> HIDE DEF new, k
<1>3. /\ \A r \in Paths : new.names[r] \in 0..i
      /\ \A r, s \in Paths : (new.names[r] # 0 /\ new.names[r] = new.names[s]) => r = s
  BY <1>1 DEF Match
<1>4. \A r \in Paths : Held(new.names, new.data, r) = k[r]
  <2>1. Held(new.names, new.data, p) = k[p]
    BY <1>1, <1>2 DEF Held
  <2>2. \A r \in Paths \ {p} : Held(new.names, new.data, r) = k[r]
    BY <1>1, <1>2 DEF Held, Match
  <2> QED
    BY <2>1, <2>2
<1> QED
  BY <1>1, <1>2, <1>3, <1>4 DEF Match, new, k

LEMMA MatchStep ==
    ASSUME NEW es, NEW fs, NEW m, NEW n \in Nat, NEW i \in 1..n, Match(fs, m, i - 1, n),
           Replayable(es[i])
    PROVE  Match(ReplayStep(es, fs, i), NextContents(m, es[i]), i, n)
<1> DEFINE e == es[i]
           made == EnsureFile(fs, e.path, i)
<1>1. Match(fs, m, i, n) /\ fs.ok
  BY MatchLater DEF Match
<1>2. CASE ~(e.ret >= 0)
  BY <1>1, <1>2 DEF ReplayStep, NextContents
<1>3. ASSUME e.ret >= 0
      PROVE  /\ ReplayStep(es, fs, i) = ApplySelected(fs, i, e, e.len)
             /\ NextContents(m, e) = Effect(m, e.call, e.path, e.path2, e.off, e.value)
             /\ e.call \in CALLS
  BY <1>1, <1>3 DEF ReplayStep, NextContents, Replayable
<1>4. ASSUME e.path \in Paths
      PROVE  /\ Match(made, m, i, n) /\ made.names[e.path] # 0
             /\ made.data[made.names[e.path]] = m[e.path]
  <2>1. Match(made, m, i, n) /\ made.names[e.path] # 0
    BY <1>4, MatchEnsured
  <2> HIDE DEF made, e
  <2> QED
    BY <1>4, <2>1 DEF Match, Held
<1>5. ASSUME e.ret >= 0, e.call \in WRITES
      PROVE  Match(ReplayStep(es, fs, i), NextContents(m, e), i, n)
  <2> DEFINE at == IF e.call = "write" THEN e.off ELSE 0
             x == Overlay(m[e.path], e.value, at, WRITTEN)
  <2>1. /\ e.path \in Paths /\ e.off = at /\ Sectors(e.len) = WRITTEN
    BY <1>5 DEF Replayable, WRITES, Sectors, WRITTEN, SectorSize
  <2>2. NextContents(m, e) = [m EXCEPT ![e.path] = x]
    BY <1>3, <1>5 DEF Effect, WRITES
  <2>3. ReplayStep(es, fs, i) = ApplyWrite(fs, i, e, e.len)
    BY <1>3, <1>5 DEF ApplySelected, WRITES
  <2>4. ApplyWrite(fs, i, e, e.len) = [made EXCEPT !.data[made.names[e.path]] = x]
    <3>1. ApplyWrite(fs, i, e, e.len) =
            [made EXCEPT !.data[made.names[e.path]] = Overlay(@, e.value, e.off, Sectors(e.len))]
      BY DEF ApplyWrite
    <3> HIDE DEF made, e
    <3> QED
      BY <1>4, <2>1, <3>1
  <2> HIDE DEF made, e, x
  <2>5. Match([made EXCEPT !.data[made.names[e.path]] = x], [m EXCEPT ![e.path] = x], i, n)
    BY <1>4, <2>1, MatchFilled
  <2> QED
    BY <2>2, <2>3, <2>4, <2>5, Zenon
<1>6. ASSUME e.ret >= 0, e.call = "ftruncate"
      PROVE  Match(ReplayStep(es, fs, i), NextContents(m, e), i, n)
  <2>1. e.path \in Paths /\ Sectors(e.len) = 0
    BY <1>6 DEF Replayable, Sectors, SectorSize
  <2>2. NextContents(m, e) = [m EXCEPT ![e.path] = <<>>]
    BY <1>3, <1>6 DEF Effect
  <2>3. ReplayStep(es, fs, i) = ApplyTruncate(fs, i, e)
    BY <1>3, <1>6 DEF ApplySelected
  <2>4. \A old : Resize(old, 0) = <<>>
    BY DEF Resize
  <2>5. ApplyTruncate(fs, i, e) = [made EXCEPT !.data[made.names[e.path]] = <<>>]
    <3>1. ApplyTruncate(fs, i, e) =
            [made EXCEPT !.data[made.names[e.path]] = Resize(@, Sectors(e.len))]
      BY DEF ApplyTruncate
    <3> HIDE DEF made, e
    <3> QED
      BY <2>1, <2>4, <3>1
  <2> HIDE DEF made, e
  <2>6. Match([made EXCEPT !.data[made.names[e.path]] = <<>>], [m EXCEPT ![e.path] = <<>>], i, n)
    BY <1>4, <2>1, MatchFilled
  <2> QED
    BY <2>2, <2>3, <2>5, <2>6, Zenon
<1>7. ASSUME e.ret >= 0, e.call = "rename"
      PROVE  Match(ReplayStep(es, fs, i), NextContents(m, e), i, n)
  <2>1. e.path \in Paths /\ e.path2 \in Paths /\ e.path # e.path2
    BY <1>7 DEF Replayable
  <2>2. NextContents(m, e) = [m EXCEPT ![e.path2] = m[e.path], ![e.path] = <<>>]
    BY <1>3, <1>7 DEF Effect
  <2>3. ReplayStep(es, fs, i) = ApplyRename(fs, i, e)
    BY <1>3, <1>7 DEF ApplySelected
  <2>4. made.names[e.path] # made.names[e.path2]
    <3> HIDE DEF made, e
    <3> QED
      BY <1>4, <2>1 DEF Match
  <2>5. ApplyRename(fs, i, e) =
          [made EXCEPT !.names[e.path2] = made.names[e.path], !.names[e.path] = 0]
    BY <2>4 DEF ApplyRename
  <2> HIDE DEF made, e
  <2>6. Match([made EXCEPT !.names[e.path2] = made.names[e.path], !.names[e.path] = 0],
              [m EXCEPT ![e.path2] = m[e.path], ![e.path] = <<>>], i, n)
    BY <1>4, <2>1, MatchMoved
  <2> QED
    BY <2>2, <2>3, <2>5, <2>6, Zenon
<1>8. ASSUME e.ret >= 0, e.call = "unlink"
      PROVE  Match(ReplayStep(es, fs, i), NextContents(m, e), i, n)
  <2>1. e.path \in Paths
    BY <1>8 DEF Replayable
  <2>2. NextContents(m, e) = [m EXCEPT ![e.path] = <<>>]
    BY <1>3, <1>8 DEF Effect
  <2>3. ReplayStep(es, fs, i) = [fs EXCEPT !.names[e.path] = 0]
    BY <1>3, <1>8 DEF ApplySelected, ApplyUnlink
  <2> HIDE DEF e
  <2>4. Match([fs EXCEPT !.names[e.path] = 0], [m EXCEPT ![e.path] = <<>>], i, n)
    BY <1>1, <2>1, MatchGone
  <2> QED
    BY <2>2, <2>3, <2>4, Zenon
<1>9. ASSUME e.ret >= 0, e.call \in {"open", "fsync", "close"}
      PROVE  Match(ReplayStep(es, fs, i), NextContents(m, e), i, n)
  <2>1. NextContents(m, e) = m
    BY <1>3, <1>9 DEF Effect
  <2>2. ReplayStep(es, fs, i) = fs
    BY <1>3, <1>9 DEF ApplySelected
  <2> QED
    BY <1>1, <2>1, <2>2
<1> QED
  BY <1>2, <1>3, <1>5, <1>6, <1>7, <1>8, <1>9 DEF CALLS, WRITES

(* The replay of a trace that can be replayed leaves what its chronicle    *)
(* says.                                                                   *)
LEMMA ReplayOfChronicle ==
    ASSUME NEW es, Len(es) \in Nat, \A i \in 1..Len(es) : Replayable(es[i]),
           NEW ms, Chronicle(ms, es)
    PROVE  /\ ReplayTrace(es).ok
           /\ \A p \in Paths : Held(ReplayTrace(es).names, ReplayTrace(es).data, p) = ms[Len(es)][p]
<1> DEFINE N == Len(es)
<1>1. PICK g : Replays(g, es, N) /\ ReplayTrace(es) = g[N]
  BY ReplayRuns
<1>2. \A i \in 0..N : g[i] = IF i = 0 THEN EmptyFs(N) ELSE ReplayStep(es, g[i - 1], i)
  <2>1. g = [i \in 0..N |-> IF i = 0 THEN EmptyFs(N) ELSE ReplayStep(es, g[i - 1], i)]
    BY <1>1 DEF Replays
  <2> QED
    BY <2>1
<1> HIDE DEF N
<1> DEFINE T == {i \in 0..N : ~Match(g[i], ms[i], i, N)}
<1>3. N \in Nat /\ ms[0] = [p \in Paths |-> <<>>]
      /\ \A i \in 1..N : ms[i] = NextContents(ms[i - 1], es[i]) /\ Replayable(es[i])
  BY DEF Chronicle, N
<1>4. T = {}
  <2> SUFFICES ASSUME T # {} PROVE FALSE
    OBVIOUS
  <2>1. PICK i \in T : \A k \in T : i <= k
    <3>1. T \subseteq Nat
      BY <1>3
    <3> HIDE DEF T
    <3> QED
      BY <3>1, Smallest
  <2>2. i # 0
    BY <1>2, <1>3, <2>1, MatchEmpty
  <2>3. i \in 1..N /\ Match(g[i - 1], ms[i - 1], i - 1, N)
    BY <1>3, <2>1, <2>2
  <2>4. g[i] = ReplayStep(es, g[i - 1], i) /\ ms[i] = NextContents(ms[i - 1], es[i])
        /\ Replayable(es[i])
    BY <1>2, <1>3, <2>2, <2>3
  <2>5. Match(g[i], ms[i], i, N)
    BY <1>3, <2>3, <2>4, MatchStep
  <2> QED
    BY <2>1, <2>5
<1>5. Match(g[N], ms[N], N, N)
  BY <1>3, <1>4
<1> QED
  BY <1>1, <1>5 DEF Match, N

-----------------------------------------------------------------------------
(* The kernel.  What a call may do to names and files keeps them sound.    *)

FsSound == NamesSound /\ FilesSound /\ DescSound

(* Descriptors are closed, or their offsets moved.                         *)
DescKept ==
    \A fd \in Fds : desc'[fd].file # 0 =>
        desc'[fd].file = desc[fd].file /\ desc'[fd].path = desc[fd].path

(* No stamp is given back.                                                 *)
Grows == Limit \in Int /\ Limit' \in Int /\ Limit <= Limit'

LEMMA FsKept ==
    ASSUME FsSound, Grows, UNCHANGED <<program, names, files>>,
           \A fd \in Fds : desc'[fd].file # 0 =>
               \/ desc'[fd].file = desc[fd].file /\ desc'[fd].path = desc[fd].path
               \/ desc'[fd].path \in PathNames /\ names[desc'[fd].path] = desc'[fd].file
    PROVE  FsSound' /\ OnDisk' = OnDisk
<1>1. NamesSound'
  BY DEF FsSound, NamesSound, Grows, PathNames
<1>2. FilesSound'
  BY DEF FsSound, FilesSound, Grows
<1>3. DescSound'
  BY DEF FsSound, DescSound, PathNames
<1> QED
  BY <1>1, <1>2, <1>3 DEF FsSound, OnDisk

LEMMA FsFilled ==
    ASSUME FsSound, DescKept, Grows, UNCHANGED <<program, names>>, Limit <= 2 * program.most,
           program.most \in Nat, NEW p \in PathNames, names[p] # 0, NEW x,
           files' = [files EXCEPT ![names[p]] = x]
    PROVE  FsSound' /\ OnDisk' = [OnDisk EXCEPT ![p] = x]
<1>1. NamesSound'
  BY DEF FsSound, NamesSound, Grows, PathNames
<1>2. /\ names[p] \in 1..Limit /\ names[p] \in DOMAIN files
      /\ DOMAIN files' = DOMAIN files /\ files'[names[p]] = x
      /\ \A n \in DOMAIN files : n # names[p] => files'[n] = files[n]
  BY DEF FsSound, NamesSound, FilesSound, Grows
<1>3. FilesSound'
  BY <1>2 DEF FsSound, FilesSound, Grows
<1>4. DescSound'
  BY DEF FsSound, DescSound, DescKept
<1> DEFINE d == [OnDisk EXCEPT ![p] = x]
<1>5. \A q \in Paths : Held(names', files', q) = d[q]
  <2> SUFFICES ASSUME NEW q \in Paths PROVE Held(names', files', q) = d[q]
    OBVIOUS
  <2>1. q \in PathNames /\ OnDisk[q] = Held(names, files, q) /\ DOMAIN OnDisk = Paths
    BY DEF PathNames, OnDisk
  <2>2. CASE q = p
    BY <1>2, <2>1, <2>2 DEF Held
  <2>3. CASE q # p
    <3>1. names[q] # 0 => names[q] \in DOMAIN files /\ names[q] # names[p]
      BY <2>1, <2>3 DEF FsSound, NamesSound, FilesSound, Grows
    <3> QED
      BY <1>2, <2>1, <2>3, <3>1 DEF Held
  <2> QED
    BY <2>2, <2>3
<1>6. OnDisk' = d
  <2>1. d = [q \in Paths |-> d[q]]
    BY DEF OnDisk
  <2>2. OnDisk' = [q \in Paths |-> Held(names', files', q)]
    BY DEF OnDisk
  <2> HIDE DEF d
  <2> QED
    BY <1>5, <2>1, <2>2
<1> QED
  BY <1>1, <1>3, <1>4, <1>6 DEF FsSound

LEMMA FsMade ==
    ASSUME FsSound, Grows, UNCHANGED <<program, files>>, Limit' = Limit + 1,
           NEW p \in PathNames, names[p] = 0, names' = [names EXCEPT ![p] = Limit + 1],
           Limit + 1 \in DOMAIN files,
           \A fd \in Fds : desc'[fd].file # 0 =>
               \/ desc'[fd].file = desc[fd].file /\ desc'[fd].path = desc[fd].path
               \/ desc'[fd].file = Limit + 1 /\ desc'[fd].path = p
    PROVE  FsSound' /\ OnDisk' = OnDisk
<1>1. /\ DOMAIN names' = PathNames /\ names'[p] = Limit + 1
      /\ \A q \in PathNames \ {p} : names'[q] = names[q]
      /\ \A q \in PathNames : names[q] \in 0..Limit
  BY DEF FsSound, NamesSound
<1>2. NamesSound'
  BY <1>1 DEF FsSound, NamesSound, Grows, PathNames
<1>3. FilesSound' /\ files[Limit + 1] = <<>>
  BY DEF FsSound, FilesSound, Grows
<1>4. DescSound'
  BY <1>1 DEF FsSound, DescSound, PathNames
<1>5. \A q \in Paths : Held(names', files', q) = Held(names, files, q)
  BY <1>1, <1>3 DEF Held, PathNames, Grows
<1>6. OnDisk' = OnDisk
  BY <1>5 DEF OnDisk
<1> QED
  BY <1>2, <1>3, <1>4, <1>6 DEF FsSound

LEMMA FsGone ==
    ASSUME FsSound, Grows, DescKept, UNCHANGED <<program, files>>,
           NEW p \in Paths, names[p] # 0, names' = [names EXCEPT ![p] = 0], OpenOn(p) = {}
    PROVE  FsSound' /\ OnDisk' = [OnDisk EXCEPT ![p] = <<>>]
<1>1. /\ DOMAIN names' = PathNames /\ names'[p] = 0 /\ p \in PathNames
      /\ \A q \in PathNames \ {p} : names'[q] = names[q]
      /\ \A q \in PathNames : names[q] \in 0..Limit
  BY DEF FsSound, NamesSound, PathNames
<1>2. NamesSound'
  BY <1>1 DEF FsSound, NamesSound, Grows, PathNames
<1>3. FilesSound'
  BY DEF FsSound, FilesSound, Grows
<1>4. DescSound'
  <2>1. \A fd \in Fds : desc[fd].file # 0 => desc[fd].path # p
    BY DEF OpenOn, FsSound, DescSound
  <2> QED
    BY <1>1, <2>1 DEF FsSound, DescSound, DescKept, PathNames
<1> DEFINE d == [OnDisk EXCEPT ![p] = <<>>]
<1>5. \A q \in Paths : Held(names', files', q) = d[q]
  BY <1>1 DEF Held, OnDisk, PathNames
<1>6. OnDisk' = d
  <2>1. d = [q \in Paths |-> d[q]]
    BY DEF OnDisk
  <2>2. OnDisk' = [q \in Paths |-> Held(names', files', q)]
    BY DEF OnDisk
  <2> HIDE DEF d
  <2> QED
    BY <1>5, <2>1, <2>2
<1> QED
  BY <1>2, <1>3, <1>4, <1>6 DEF FsSound

LEMMA FsMoved ==
    ASSUME FsSound, Grows, DescKept, UNCHANGED <<program, files>>,
           NEW p \in Paths, NEW q \in Paths, p # q, names[p] # 0,
           names' = [names EXCEPT ![q] = names[p], ![p] = 0], OpenOn(p) = {}, OpenOn(q) = {}
    PROVE  FsSound' /\ OnDisk' = [OnDisk EXCEPT ![q] = OnDisk[p], ![p] = <<>>]
<1>1. /\ DOMAIN names' = PathNames /\ names'[p] = 0 /\ names'[q] = names[p]
      /\ p \in PathNames /\ q \in PathNames
      /\ \A r \in PathNames \ {p, q} : names'[r] = names[r]
      /\ \A r \in PathNames : names[r] \in 0..Limit
  BY DEF FsSound, NamesSound, PathNames
<1>2. NamesSound'
  BY <1>1 DEF FsSound, NamesSound, Grows, PathNames
<1>3. FilesSound'
  BY DEF FsSound, FilesSound, Grows
<1>4. DescSound'
  <2>1. \A fd \in Fds : desc[fd].file # 0 => desc[fd].path # p /\ desc[fd].path # q
    BY DEF OpenOn, FsSound, DescSound
  <2> QED
    BY <1>1, <2>1 DEF FsSound, DescSound, DescKept, PathNames
<1> DEFINE d == [OnDisk EXCEPT ![q] = OnDisk[p], ![p] = <<>>]
<1>5. \A r \in Paths : Held(names', files', r) = d[r]
  <2>1. /\ DOMAIN d = Paths /\ d[p] = <<>> /\ d[q] = Held(names, files, p)
        /\ \A r \in Paths \ {p, q} : d[r] = Held(names, files, r)
    BY DEF OnDisk
  <2> HIDE DEF d
  <2> QED
    BY <1>1, <2>1 DEF Held, PathNames
<1>6. OnDisk' = d
  <2>1. d = [r \in Paths |-> d[r]]
    BY DEF OnDisk
  <2>2. OnDisk' = [r \in Paths |-> Held(names', files', r)]
    BY DEF OnDisk
  <2> HIDE DEF d
  <2> QED
    BY <1>5, <2>1, <2>2
<1> QED
  BY <1>2, <1>3, <1>4, <1>6 DEF FsSound

(* What the kernel answers, as far as names and files go.                  *)
LEMMA KernelFiles ==
    ASSUME Fds \subseteq Nat, NEW f, f.call \in CALLS, f.call = "open" => f.flags = CREATE,
           NEW k \in KernelCalls(f)
    PROVE  \/ /\ k.names = names /\ k.files = files
              /\ k.ret < 0 \/ f.call \in {"fsync", "close"}
           \/ /\ f.call = "open" /\ names[f.path] # 0 /\ k.ret = 0 /\ k.fd \in Fds
              /\ k.names = [names EXCEPT ![f.path] = names[f.path]] /\ k.files = files
              /\ k.desc = [desc EXCEPT ![k.fd] = [file |-> names[f.path], path |-> f.path, off |-> 0]]
           \/ /\ f.call = "open" /\ names[f.path] = 0 /\ k.ret = 0 /\ k.fd \in Fds
              /\ k.names = [names EXCEPT ![f.path] = f.i + 1] /\ k.files = files
              /\ k.desc = [desc EXCEPT ![k.fd] = [file |-> f.i + 1, path |-> f.path, off |-> 0]]
           \/ /\ f.call = "write" /\ k.names = names
              /\ \E n \in {1, 2} :
                   /\ k.ret = n * SectorSize
                   /\ k.files = [files EXCEPT ![desc[f.fd].file] = Overlay(@, f.value, desc[f.fd].off, n)]
           \/ /\ f.call = "pwrite" /\ k.names = names
              /\ \E n \in {1, 2} :
                   /\ k.ret = n * SectorSize
                   /\ k.files = [files EXCEPT ![desc[f.fd].file] = Overlay(@, f.value, 0, n)]
           \/ /\ f.call = "ftruncate" /\ k.names = names /\ k.ret = 0
              /\ k.files = [files EXCEPT ![desc[f.fd].file] = <<>>]
           \/ /\ f.call = "rename" /\ names[f.path] # 0 /\ k.files = files /\ k.ret = 0
              /\ k.names = [names EXCEPT ![f.path2] = names[f.path], ![f.path] = 0]
           \/ /\ f.call = "unlink" /\ names[f.path] # 0 /\ k.files = files /\ k.ret = 0
              /\ k.names = [names EXCEPT ![f.path] = 0]
<1>1. CASE k = Failure(f)
  BY <1>1 DEF Failure, Outcome
<1>2. CASE f.call = "open" /\ k = KernelCall(f, WRITTEN)
  <2>1. k = KernelOpen(f)
    BY <1>2 DEF KernelCall
  <2>2. CASE FreeFds = {}
    BY <2>1, <2>2 DEF KernelOpen, Outcome
  <2>3. CASE FreeFds # {}
    <3> DEFINE file == IF names[f.path] # 0 THEN names[f.path] ELSE f.i + 1
    <3>1. LowestFree \in Fds
      BY <2>3, FirstFree DEF FreeFds
    <3>2. k = Outcome(0, LowestFree, [names EXCEPT ![f.path] = file], files,
                      [desc EXCEPT ![LowestFree] = [file |-> file, path |-> f.path, off |-> 0]])
      BY <1>2, <2>1, <2>3 DEF KernelOpen, CREATE, TRUNCATE
    <3> HIDE DEF file
    <3>3. /\ k.ret = 0 /\ k.fd = LowestFree /\ k.names = [names EXCEPT ![f.path] = file]
          /\ k.files = files
          /\ k.desc = [desc EXCEPT ![LowestFree] = [file |-> file, path |-> f.path, off |-> 0]]
      BY <3>2 DEF Outcome
    <3>4. \/ names[f.path] # 0 /\ file = names[f.path]
          \/ names[f.path] = 0 /\ file = f.i + 1
      BY DEF file
    <3> QED
      BY <1>2, <3>1, <3>3, <3>4
  <2> QED
    BY <2>2, <2>3
<1>3. ASSUME NEW n \in {1, 2}, k = KernelCall(f, n), f.call \in {"write", "pwrite"}
      PROVE  /\ k.names = names /\ k.ret = n * SectorSize
             /\ f.call = "write" =>
                  k.files = [files EXCEPT ![desc[f.fd].file] = Overlay(@, f.value, desc[f.fd].off, n)]
             /\ f.call = "pwrite" =>
                  k.files = [files EXCEPT ![desc[f.fd].file] = Overlay(@, f.value, 0, n)]
  <2>1. CASE f.call = "write"
    BY <1>3, <2>1 DEF KernelCall, Outcome
  <2>2. CASE f.call = "pwrite"
    BY <1>3, <2>2 DEF KernelCall, Outcome
  <2> QED
    BY <1>3, <2>1, <2>2
<1>4. CASE f.call \in {"write", "pwrite"} /\ k # Failure(f)
  <2>1. PICK n \in {1, 2} : k = KernelCall(f, n)
    BY <1>4, KernelMay DEF WRITTEN
  <2> QED
    BY <1>3, <1>4, <2>1
<1>5. CASE f.call = "ftruncate" /\ k = KernelCall(f, WRITTEN)
  BY <1>5 DEF KernelCall, Outcome
<1>6. CASE f.call = "rename" /\ k = KernelCall(f, WRITTEN)
  BY <1>6 DEF KernelCall, Outcome
<1>7. CASE f.call = "unlink" /\ k = KernelCall(f, WRITTEN)
  BY <1>7 DEF KernelCall, Outcome
<1>8. CASE f.call \in {"fsync", "close"} /\ k = KernelCall(f, WRITTEN)
  <2>1. CASE f.call = "fsync"
    BY <1>8, <2>1 DEF KernelCall, Outcome
  <2>2. CASE f.call = "close"
    BY <1>8, <2>2 DEF KernelCall, Outcome
  <2> QED
    BY <1>8, <2>1, <2>2
<1> QED
  BY <1>1, <1>2, <1>4, <1>5, <1>6, <1>7, <1>8, KernelMay DEF CALLS

LEMMA LimitIs ==
    ASSUME NEW t, Threads = {t}
    PROVE  Limit = IF frame[t].step \in ENTERED THEN counter - 1 ELSE counter
BY DEF Limit

LEMMA PerformSound ==
    ASSUME Plain, Tracked, Tracing, KernelSound, NEW t, Threads = {t}, Perform(t)
    PROVE  /\ KernelSound'
           /\ IF frame'[t].ret >= 0
              THEN \/ ShortCall(frame'[t])
                   \/ OnDisk' = Effect(OnDisk, frame'[t].call, frame'[t].at.path, frame'[t].path2,
                                       frame'[t].at.off, frame'[t].value)
              ELSE OnDisk' = OnDisk
<1> DEFINE f == frame[t]
           g == frame'[t]
<1>1. /\ UNCHANGED <<program, counter, calls>> /\ Threads' = {t} /\ t \in Threads
      /\ f.step = "perform" /\ Shaped /\ Fds \subseteq Nat /\ Fits
      /\ counter \in Nat /\ f.i \in Nat
  <2>1. f.step = "perform" /\ UNCHANGED <<program, counter, calls>>
    BY DEF Perform
  <2>2. counter \in Nat /\ \A u \in Threads : Carries(u) \subseteq 0..(counter - 1)
    BY DEF Tracked, Stamped, Taken, RecordsSound
  <2>3. f.i \in Nat
    BY <2>1, <2>2 DEF Carries, OPEN
  <2> QED
    BY <2>1, <2>2, <2>3, ShimAssumption DEF Threads, Tracked, Stamped, Plain
<1>2. PICK k \in KernelCalls(f) :
        /\ names' = k.names /\ files' = k.files /\ desc' = k.desc
        /\ g.call = f.call /\ g.path = f.path /\ g.path2 = f.path2 /\ g.value = f.value
        /\ g.i = f.i /\ g.off = f.off /\ g.ret = k.ret /\ g.fd = k.fd
        /\ g.step = AfterCall(f.call)
        /\ g.at.path = IF f.call \in FdCall THEN desc[f.fd].path ELSE f.path
        /\ g.at.off = IF f.call \in FdCall THEN desc[f.fd].off ELSE 0
  BY <1>1, PerformFrame
<1>3. /\ f.call \in CALLS /\ (f.call = "open" => f.fd = -1)
      /\ f.call \in FdCall => f.fd \in Fds /\ desc[f.fd].file # 0
      /\ f.call \in SAMEFILE => desc[f.fd].path # MARKER
      /\ DOMAIN desc = Fds
      /\ \A fd \in Fds : DOMAIN desc[fd] = {"file", "path", "off"} /\ desc[fd].off \in Nat
  BY <1>1 DEF Tracing, Frames, Asked, Tabled, FdCall
<1>4. /\ FsSound /\ AboutTo(t) /\ InCall(t) /\ f.step \in ENTERED /\ f.step \in OPEN
      /\ calls \in 0..program.most /\ counter <= 2 * calls - 1
  BY <1>1 DEF KernelSound, FsSound, ENTERED, OPEN, Stamping
<1>5. /\ Limit = counter - 1 /\ Limit' = counter /\ Grows /\ counter = f.i + 1
      /\ Limit + 1 \in 1..(2 * program.most) /\ program.most \in Nat
  <2>1. Limit = counter - 1 /\ counter = f.i + 1
    BY <1>4, LimitIs DEF AboutTo
  <2>2. g.step \notin ENTERED
    BY <1>2 DEF ENTERED, AfterCall
  <2>3. Limit' = counter
    BY <1>1, <2>2 DEF Limit
  <2>4. program.most \in Nat
    BY ShimAssumption DEF Tracing
  <2>5. Limit + 1 \in 1..(2 * program.most)
    BY <1>1, <1>4, <2>1, <2>4
  <2> QED
    BY <1>1, <2>1, <2>3, <2>4, <2>5 DEF Grows
<1>6. /\ k.ret \in Int
      /\ f.call \in FdCall => k.fd = f.fd
      /\ f.call = "open" =>
           \/ k.ret < 0 /\ k.desc = desc /\ k.fd = -1
           \/ /\ k.fd \in FreeFds /\ k.ret = 0
              /\ \E file : k.desc = [desc EXCEPT ![k.fd] = [file |-> file, path |-> f.path, off |-> 0]]
      /\ f.call = "write" =>
           \/ k.ret < 0 /\ k.desc = desc
           \/ \E n \in {1, 2} : /\ k.ret = n * SectorSize
                                /\ k.desc = [desc EXCEPT ![f.fd].off = @ + n]
      /\ f.call = "close" => k.desc = [desc EXCEPT ![f.fd].file = 0]
      /\ f.call \notin {"open", "write", "close"} => k.desc = desc
  BY <1>1, <1>3, KernelDescriptors
<1>7. (f.call # "open" \/ k.ret < 0) => DescKept
  <2>1. CASE k.desc = desc
    BY <1>2, <2>1 DEF DescKept
  <2>2. CASE f.call = "close"
    BY <1>2, <1>3, <1>6, <2>2 DEF DescKept, FdCall
  <2>3. ASSUME NEW n, k.desc = [desc EXCEPT ![f.fd].off = @ + n], f.call = "write" PROVE DescKept
    BY <1>2, <1>3, <2>3 DEF DescKept, FdCall
  <2>4. (f.call # "open" \/ k.ret < 0) =>
          \/ k.desc = desc \/ f.call = "close"
          \/ f.call = "write" /\ \E n : k.desc = [desc EXCEPT ![f.fd].off = @ + n]
    <3>1. CASE f.call = "open"
      <4>1. ~(0 < 0)
        OBVIOUS
      <4> QED
        BY <1>6, <3>1, <4>1, Zenon
    <3>2. CASE f.call = "write"
      <4>1. CASE k.desc = desc
        BY <4>1
      <4>2. CASE \E n \in {1, 2} : k.desc = [desc EXCEPT ![f.fd].off = @ + n]
        BY <3>2, <4>2, Zenon
      <4> QED
        BY <1>6, <3>2, <4>1, <4>2, Zenon
    <3>3. CASE f.call \notin {"open", "write"}
      BY <1>6, <3>3
    <3> QED
      BY <3>1, <3>2, <3>3
  <2> HIDE DEF f, g
  <2> QED
    BY <2>1, <2>2, <2>3, <2>4
<1> DEFINE p == desc[f.fd].path
           Done == /\ FsSound'
                   /\ IF k.ret >= 0
                      THEN \/ f.call \in WRITES /\ k.ret < WRITTEN * SectorSize
                           \/ OnDisk' = Effect(OnDisk, f.call, g.at.path, f.path2, g.at.off, f.value)
                      ELSE OnDisk' = OnDisk
<1>8. f.call \in SAMEFILE =>
        /\ p \in Paths /\ p \in PathNames /\ names[p] = desc[f.fd].file /\ names[p] # 0
        /\ g.at.path = p /\ OnDisk[p] = files[names[p]] /\ names[p] \in DOMAIN files
  <2> SUFFICES ASSUME f.call \in SAMEFILE
               PROVE  /\ p \in Paths /\ p \in PathNames /\ names[p] = desc[f.fd].file /\ names[p] # 0
                      /\ g.at.path = p /\ OnDisk[p] = files[names[p]] /\ names[p] \in DOMAIN files
    OBVIOUS
  <2>1. f.call \in FdCall /\ f.fd \in Fds /\ desc[f.fd].file # 0 /\ g.at.path = p
    BY <1>2, <1>3 DEF SAMEFILE, FdCall
  <2>2. p \in PathNames /\ names[p] = desc[f.fd].file /\ p # MARKER
    BY <1>3, <1>4, <2>1 DEF FsSound, DescSound
  <2>3. OnDisk[p] = files[names[p]]
    BY <2>1, <2>2 DEF OnDisk, PathNames, Held
  <2>4. names[p] \in DOMAIN files
    <3>1. names[p] \in 0..Limit /\ names[p] # 0
      BY <1>4, <2>1, <2>2 DEF FsSound, NamesSound
    <3>2. DOMAIN files = 1..(2 * program.most)
      BY <1>4 DEF FsSound, FilesSound
    <3> HIDE DEF p, f, g
    <3> QED
      BY <1>1, <1>5, <3>1, <3>2
  <2> QED
    BY <2>1, <2>2, <2>3, <2>4 DEF PathNames
<1> HIDE DEF f, g
<1>10. ASSUME names' = names, files' = files, k.ret < 0 \/ f.call \in {"fsync", "close"}
       PROVE  Done
  <2>1. DescKept
    BY <1>7, <1>10
  <2>2. FsSound' /\ OnDisk' = OnDisk
    BY <1>1, <1>4, <1>5, <1>10, <2>1, FsKept DEF DescKept
  <2> QED
    BY <1>6, <1>10, <2>2 DEF Effect
<1>11. ASSUME f.call = "open", names[f.path] # 0, k.ret = 0, k.fd \in Fds, files' = files,
              names' = [names EXCEPT ![f.path] = names[f.path]],
              desc' = [desc EXCEPT ![k.fd] = [file |-> names[f.path], path |-> f.path, off |-> 0]]
       PROVE  Done
  <2>1. f.path \in PathNames
    BY <1>4, <1>11 DEF AboutTo, f
  <2>2. names' = names
    <3>1. names \in [PathNames -> Nat]
      BY <1>4 DEF FsSound, NamesSound
    <3> QED
      BY <1>11, <2>1, <3>1
  <2>3. \A fd \in Fds :
          \/ desc'[fd].file = desc[fd].file /\ desc'[fd].path = desc[fd].path
          \/ desc'[fd].path = f.path /\ names[f.path] = desc'[fd].file
    BY <1>3, <1>11
  <2>4. FsSound' /\ OnDisk' = OnDisk
    BY <1>1, <1>4, <1>5, <1>11, <2>1, <2>2, <2>3, FsKept
  <2> QED
    BY <1>11, <2>4 DEF Effect
<1>12. ASSUME f.call = "open", names[f.path] = 0, k.ret = 0, k.fd \in Fds, files' = files,
              names' = [names EXCEPT ![f.path] = f.i + 1],
              desc' = [desc EXCEPT ![k.fd] = [file |-> f.i + 1, path |-> f.path, off |-> 0]]
       PROVE  Done
  <2>1. f.path \in PathNames /\ Limit + 1 = f.i + 1 /\ Limit' = Limit + 1 /\ Limit + 1 \in DOMAIN files
    BY <1>1, <1>4, <1>5, <1>12 DEF AboutTo, FsSound, FilesSound, f
  <2>2. \A fd \in Fds :
          \/ desc'[fd].file = desc[fd].file /\ desc'[fd].path = desc[fd].path
          \/ desc'[fd].path = f.path /\ desc'[fd].file = f.i + 1
    BY <1>3, <1>12
  <2>3. FsSound' /\ OnDisk' = OnDisk
    <3>1. names' = [names EXCEPT ![f.path] = Limit + 1]
      BY <1>12, <2>1
    <3>2. \A fd \in Fds : desc'[fd].file # 0 =>
               \/ desc'[fd].file = desc[fd].file /\ desc'[fd].path = desc[fd].path
               \/ desc'[fd].file = Limit + 1 /\ desc'[fd].path = f.path
      BY <2>1, <2>2
    <3> QED
      BY <1>1, <1>4, <1>5, <1>12, <2>1, <3>1, <3>2, FsMade
  <2> QED
    BY <1>12, <2>3 DEF Effect
<1>13. ASSUME f.call \in SAMEFILE, names' = names, NEW x,
              files' = [files EXCEPT ![desc[f.fd].file] = x]
       PROVE  FsSound' /\ OnDisk' = [OnDisk EXCEPT ![p] = x]
  <2>1. DescKept
    BY <1>7, <1>13 DEF SAMEFILE
  <2>2. files' = [files EXCEPT ![names[p]] = x] /\ p \in PathNames /\ names[p] # 0
    BY <1>8, <1>13
  <2> HIDE DEF p
  <2>3. Limit <= 2 * program.most
    BY <1>1, <1>5
  <2> QED
    BY <1>1, <1>4, <1>5, <1>13, <2>1, <2>2, <2>3, FsFilled
<1>14. ASSUME f.call \in WRITES, names' = names, NEW n \in {1, 2}, k.ret = n * SectorSize,
              files' = [files EXCEPT ![desc[f.fd].file] =
                           Overlay(@, f.value, IF f.call = "write" THEN desc[f.fd].off ELSE 0, n)]
       PROVE  Done
  <2> DEFINE at == IF f.call = "write" THEN desc[f.fd].off ELSE 0
             x == Overlay(OnDisk[p], f.value, at, n)
  <2>1. f.call \in SAMEFILE /\ f.call \in FdCall
    BY <1>14 DEF WRITES, SAMEFILE, FdCall
  <2>2. files' = [files EXCEPT ![desc[f.fd].file] = x]
    <3>1. OnDisk[p] = files[desc[f.fd].file]
      BY <1>8, <2>1
    <3> QED
      BY <1>14, <3>1
  <2> HIDE DEF x
  <2>3. FsSound' /\ OnDisk' = [OnDisk EXCEPT ![p] = x]
    BY <1>13, <1>14, <2>1, <2>2
  <2>4. CASE n = 1
    BY <1>14, <2>3, <2>4 DEF WRITTEN, SectorSize
  <2>5. CASE n = 2
    <3>1. g.at.path = p /\ (f.call = "write" => g.at.off = at)
      BY <1>2, <1>8, <2>1
    <3>2. x = Overlay(OnDisk[p], f.value, at, WRITTEN)
      BY <2>5 DEF x, WRITTEN
    <3>3. Effect(OnDisk, f.call, g.at.path, f.path2, g.at.off, f.value) = [OnDisk EXCEPT ![p] = x]
      BY <1>14, <3>1, <3>2 DEF Effect, WRITES
    <3> QED
      BY <1>6, <1>14, <2>3, <3>3 DEF SectorSize
  <2> QED
    BY <1>14, <2>4, <2>5
<1>15. ASSUME f.call = "ftruncate", names' = names, k.ret = 0,
              files' = [files EXCEPT ![desc[f.fd].file] = <<>>]
       PROVE  Done
  <2>1. f.call \in SAMEFILE
    BY <1>15 DEF SAMEFILE
  <2>2. FsSound' /\ OnDisk' = [OnDisk EXCEPT ![p] = <<>>]
    BY <1>13, <1>15, <2>1
  <2>3. Effect(OnDisk, f.call, g.at.path, f.path2, g.at.off, f.value) = [OnDisk EXCEPT ![p] = <<>>]
    BY <1>8, <1>15, <2>1 DEF Effect
  <2>4. k.ret >= 0
    BY <1>15
  <2> QED
    BY <2>2, <2>3, <2>4, Zenon
<1>16. ASSUME f.call = "rename", names[f.path] # 0, files' = files, k.ret = 0,
              names' = [names EXCEPT ![f.path2] = names[f.path], ![f.path] = 0]
       PROVE  Done
  <2>1. /\ f.path \in Paths /\ f.path2 \in Paths /\ f.path # f.path2
        /\ OpenOn(f.path) = {} /\ OpenOn(f.path2) = {}
    BY <1>4, <1>16 DEF AboutTo, InCall, f
  <2>2. DescKept /\ g.at.path = f.path
    BY <1>2, <1>7, <1>16 DEF FdCall
  <2> DEFINE moved == [OnDisk EXCEPT ![f.path2] = OnDisk[f.path], ![f.path] = <<>>]
  <2>3. FsSound' /\ OnDisk' = moved
    BY <1>1, <1>4, <1>5, <1>16, <2>1, <2>2, FsMoved
  <2>4. Effect(OnDisk, f.call, g.at.path, f.path2, g.at.off, f.value) = moved
    BY <1>16, <2>2 DEF Effect
  <2>5. k.ret >= 0
    BY <1>16
  <2> HIDE DEF moved
  <2> QED
    BY <2>3, <2>4, <2>5, Zenon
<1>17. ASSUME f.call = "unlink", names[f.path] # 0, files' = files, k.ret = 0,
              names' = [names EXCEPT ![f.path] = 0]
       PROVE  Done
  <2>1. f.path \in Paths /\ OpenOn(f.path) = {}
    BY <1>4, <1>17 DEF AboutTo, InCall, f
  <2>2. DescKept /\ g.at.path = f.path
    BY <1>2, <1>7, <1>17 DEF FdCall
  <2>3. FsSound' /\ OnDisk' = [OnDisk EXCEPT ![f.path] = <<>>]
    BY <1>1, <1>4, <1>5, <1>17, <2>1, <2>2, FsGone
  <2>4. Effect(OnDisk, f.call, g.at.path, f.path2, g.at.off, f.value) = [OnDisk EXCEPT ![f.path] = <<>>]
    BY <1>17, <2>2 DEF Effect
  <2>5. k.ret >= 0
    BY <1>17
  <2> QED
    BY <2>3, <2>4, <2>5, Zenon
<1>18. Done
  <2>1. f.call = "open" => f.flags = CREATE
    BY <1>4 DEF AboutTo, f
  <2>2. \/ /\ k.names = names /\ k.files = files
           /\ k.ret < 0 \/ f.call \in {"fsync", "close"}
        \/ /\ f.call = "open" /\ names[f.path] # 0 /\ k.ret = 0 /\ k.fd \in Fds
           /\ k.names = [names EXCEPT ![f.path] = names[f.path]] /\ k.files = files
           /\ k.desc = [desc EXCEPT ![k.fd] = [file |-> names[f.path], path |-> f.path, off |-> 0]]
        \/ /\ f.call = "open" /\ names[f.path] = 0 /\ k.ret = 0 /\ k.fd \in Fds
           /\ k.names = [names EXCEPT ![f.path] = f.i + 1] /\ k.files = files
           /\ k.desc = [desc EXCEPT ![k.fd] = [file |-> f.i + 1, path |-> f.path, off |-> 0]]
        \/ /\ f.call = "write" /\ k.names = names
           /\ \E n \in {1, 2} :
                /\ k.ret = n * SectorSize
                /\ k.files = [files EXCEPT ![desc[f.fd].file] = Overlay(@, f.value, desc[f.fd].off, n)]
        \/ /\ f.call = "pwrite" /\ k.names = names
           /\ \E n \in {1, 2} :
                /\ k.ret = n * SectorSize
                /\ k.files = [files EXCEPT ![desc[f.fd].file] = Overlay(@, f.value, 0, n)]
        \/ /\ f.call = "ftruncate" /\ k.names = names /\ k.ret = 0
           /\ k.files = [files EXCEPT ![desc[f.fd].file] = <<>>]
        \/ /\ f.call = "rename" /\ names[f.path] # 0 /\ k.files = files /\ k.ret = 0
           /\ k.names = [names EXCEPT ![f.path2] = names[f.path], ![f.path] = 0]
        \/ /\ f.call = "unlink" /\ names[f.path] # 0 /\ k.files = files /\ k.ret = 0
           /\ k.names = [names EXCEPT ![f.path] = 0]
    BY <1>1, <1>2, <1>3, <2>1, KernelFiles
  <2>3. names' = k.names /\ files' = k.files /\ desc' = k.desc
    BY <1>2
  <2> HIDE DEF Done
  <2>4. ASSUME f.call \in WRITES, k.names = names, NEW n \in {1, 2}, k.ret = n * SectorSize,
               \/ f.call = "write" /\ k.files = [files EXCEPT ![desc[f.fd].file] =
                                                    Overlay(@, f.value, desc[f.fd].off, n)]
               \/ f.call = "pwrite" /\ k.files = [files EXCEPT ![desc[f.fd].file] =
                                                     Overlay(@, f.value, 0, n)]
        PROVE  Done
    <3>1. files' = [files EXCEPT ![desc[f.fd].file] =
                       Overlay(@, f.value, IF f.call = "write" THEN desc[f.fd].off ELSE 0, n)]
      <4>1. CASE f.call = "write"
        BY <2>3, <2>4, <4>1
      <4>2. CASE f.call = "pwrite" /\ f.call # "write"
        BY <2>3, <2>4, <4>2
      <4> QED
        BY <2>4, <4>1, <4>2
    <3> QED
      BY <1>14, <2>3, <2>4, <3>1
  <2>5. f.call \in {"write", "pwrite"} => f.call \in WRITES
    BY DEF WRITES
  <2> QED
    BY <2>2, <2>3, <2>4, <2>5, <1>10, <1>11, <1>12, <1>15, <1>16, <1>17, Zenon
<1>19. Stamping'
  <2>1. g.step \in OPEN \ {"emit"} /\ f.step \in OPEN \ {"emit"}
    BY <1>1, <1>2 DEF AfterCall, OPEN, RETURNED
  <2> QED
    BY <1>1, <1>4, <2>1 DEF Stamping, KernelSound, f, g
<1>20. AboutTo(t)' /\ InCall(t)'
  <2>1. g.step \notin ENTERED
    BY <1>2 DEF ENTERED, AfterCall
  <2>2. f.call \in FdCall => g.at.path \in PathNames /\ g.at.off \in Nat
    BY <1>2, <1>3, <1>4 DEF FsSound, DescSound
  <2>3. /\ f.call = "pwrite" => f.off = 0
        /\ f.call \in {"rename", "unlink"} => f.path \in Paths
        /\ f.call = "rename" => f.path2 \in Paths /\ f.path2 # f.path
    BY <1>4 DEF InCall, f
  <2>4. AboutTo(t)'
    BY <2>1 DEF AboutTo, g
  <2>5. InCall(t)'
    BY <1>2, <2>2, <2>3 DEF InCall, g
  <2> QED
    BY <2>4, <2>5
<1>21. KernelSound'
  BY <1>1, <1>18, <1>19, <1>20 DEF KernelSound, FsSound
<1> QED
  BY <1>2, <1>18, <1>21 DEF ShortCall, g

(* The call stays what it is from the kernel to the record.                *)
LEMMA CallHeld ==
    ASSUME Shaped, NEW t \in Threads, Between(t) \/ Complete(t)
    PROVE  /\ UNCHANGED <<program, names, files, desc, calls, records>>
           /\ frame[t].step \in RETURNED \ {"emit"}
           /\ \/ frame'[t].step \in {"idle", "clear"} /\ Complete(t)
                 /\ frame[t].call \in {"open", "close"} /\ counter' = counter
              \/ /\ frame'[t].step \in RETURNED
                 /\ frame'[t].call = frame[t].call /\ frame'[t].path2 = frame[t].path2
                 /\ frame'[t].path = frame[t].path /\ frame'[t].value = frame[t].value
                 /\ frame'[t].ret = frame[t].ret /\ frame'[t].at = frame[t].at
                 /\ frame[t].step # "seek" => frame'[t].off = frame[t].off
                 /\ \/ frame'[t].step # "emit" /\ counter' = counter
                    \/ frame'[t].step = "emit" /\ counter' = counter + 1
<1>1. DOMAIN frame = Threads /\ (frame[t].step # "idle" => DOMAIN frame[t] = FIELDS)
  BY DEF Shaped
<1>2. CASE Remember(t)
  BY <1>1, <1>2 DEF Remember, FIELDS, RETURNED, kernel
<1>3. CASE StorePayload(t)
  <2>1. PICK step \in {"fill", "seek", "complete"} : frame' = [frame EXCEPT ![t].step = step]
    BY <1>3 DEF StorePayload, AfterStore
  <2> QED
    BY <1>1, <1>3, <2>1 DEF StorePayload, FIELDS, RETURNED, kernel
<1>4. CASE FillPayload(t)
  <2>1. PICK step \in {"seek", "complete"} : frame' = [frame EXCEPT ![t].step = step]
    BY <1>4 DEF FillPayload, AfterStore
  <2> QED
    BY <1>1, <1>4, <2>1 DEF FillPayload, FIELDS, RETURNED, kernel
<1>5. CASE Seek(t)
  BY <1>1, <1>5 DEF Seek, FIELDS, RETURNED, kernel
<1>6. CASE Complete(t)
  <2>1. /\ UNCHANGED <<program, names, files, desc, calls, records>>
        /\ frame[t].step = "complete"
    BY <1>6 DEF Complete, kernel
  <2>2. CASE frame[t].call \in {"open", "close"} /\ is_marker_fd(frame[t].fd)
    <3>1. \/ frame' = [frame EXCEPT ![t] = Idle]
          \/ frame' = [frame EXCEPT ![t] = [frame[t] EXCEPT !.step = "clear"]]
      BY <1>6, <2>2 DEF Complete
    <3>2. frame'[t].step \in {"idle", "clear"} /\ counter' = counter
      BY <1>1, <1>6, <2>1, <2>2, <3>1 DEF Complete, Idle, FIELDS
    <3> QED
      BY <1>6, <2>1, <2>2, <3>2 DEF RETURNED
  <2>3. CASE ~(frame[t].call \in {"open", "close"} /\ is_marker_fd(frame[t].fd))
    <3>1. /\ frame' = [frame EXCEPT ![t].j = counter, ![t].step = "emit"]
          /\ counter' = counter + 1
      BY <1>6, <2>3 DEF Complete
    <3> QED
      BY <1>1, <2>1, <3>1 DEF RETURNED, FIELDS
  <2> QED
    BY <2>2, <2>3
<1> QED
  BY <1>2, <1>3, <1>4, <1>5, <1>6 DEF Between

LEMMA HeldSound ==
    ASSUME Shaped, Tracing, KernelSound, counter \in Nat, NEW t, Threads = {t},
           Between(t) \/ Complete(t)
    PROVE  KernelSound' /\ OnDisk' = OnDisk
<1>1. /\ UNCHANGED <<program, names, files, desc, calls>> /\ Threads' = {t}
      /\ frame[t].step \in RETURNED \ {"emit"} /\ counter' \in {counter, counter + 1}
      /\ frame'[t].step \in RETURNED \cup {"idle", "clear"}
      /\ counter' = counter + 1 => frame'[t].step = "emit"
  BY CallHeld DEF Threads
<1>2. Limit = counter /\ Limit' = counter'
  BY <1>1, LimitIs DEF Limit, ENTERED, RETURNED
<1>3. FsSound' /\ OnDisk' = OnDisk
  BY <1>1, <1>2, FsKept DEF KernelSound, FsSound, Grows
<1>4. Stamping'
  <2>1. counter <= 2 * calls - 1 /\ calls \in 0..program.most
    BY <1>1 DEF KernelSound, Stamping, OPEN
  <2>2. program.most \in Nat
    BY ShimAssumption DEF Tracing
  <2>3. frame'[t].step # "emit" => counter' = counter
    BY <1>1
  <2>4. counter' <= 2 * calls' - (IF frame'[t].step \in OPEN \ {"emit"} THEN 1 ELSE 0)
    BY <1>1, <2>1, <2>2, <2>3
  <2> QED
    BY <1>1, <2>1, <2>4 DEF Stamping
<1>5. AboutTo(t)'
  BY <1>1 DEF AboutTo, ENTERED, RETURNED
<1>6. InCall(t)'
  <2>1. CASE frame'[t].step \in {"idle", "clear"}
    BY <2>1 DEF InCall, OPEN, RETURNED
  <2>2. CASE frame'[t].step \notin {"idle", "clear"}
    <3>1. /\ frame'[t].call = frame[t].call /\ frame'[t].path2 = frame[t].path2
          /\ frame'[t].path = frame[t].path
          /\ frame'[t].ret = frame[t].ret /\ frame'[t].at = frame[t].at
          /\ frame[t].step # "seek" => frame'[t].off = frame[t].off
      BY <2>2, CallHeld
    <3>2. frame[t].call = "pwrite" => frame'[t].off = frame[t].off
      BY <3>1 DEF Tracing, Frames, Routed
    <3>3. InCall(t) /\ PathNames' = PathNames
      BY DEF KernelSound, PathNames
    <3> QED
      BY <1>1, <3>1, <3>2, <3>3 DEF InCall, OPEN
  <2> QED
    BY <2>1, <2>2
<1> QED
  BY <1>1, <1>3, <1>4, <1>5, <1>6 DEF KernelSound, FsSound

LEMMA EnterSound ==
    ASSUME Plain, Shaped, Tracing, KernelSound, counter \in Nat, NEW t, Threads = {t},
           NEW c \in TargetCalls, Enter(t, c)
    PROVE  KernelSound' /\ OnDisk' = OnDisk
<1>1. /\ UNCHANGED <<program, names, files, desc>> /\ Threads' = {t}
      /\ frame[t].step = "idle" /\ calls < program.most
      /\ counter' = counter + 1 /\ calls' = calls + 1
      /\ DOMAIN frame = Threads /\ t \in Threads
  BY DEF Enter, Threads, kernel, Shaped
<1>2. /\ frame'[t].step = IF c.call = "write" /\ is_marker_fd(c.fd) THEN "marker" ELSE "perform"
      /\ frame'[t].call = c.call /\ frame'[t].fd = c.fd /\ frame'[t].path = c.path
      /\ frame'[t].path2 = c.path2 /\ frame'[t].flags = c.flags
      /\ frame'[t].i = counter /\ frame'[t].off = 0
  BY <1>1 DEF Enter
<1>3. frame'[t].step \in ENTERED
  BY <1>2 DEF ENTERED
<1>4. Limit = counter /\ Limit' = counter
  BY <1>1, <1>3, LimitIs DEF Limit, ENTERED
<1>5. FsSound' /\ OnDisk' = OnDisk
  BY <1>1, <1>4, FsKept DEF KernelSound, FsSound, Grows
<1>6. Stamping'
  <2>1. counter <= 2 * calls /\ calls \in 0..program.most
    BY <1>1 DEF KernelSound, Stamping, OPEN, RETURNED
  <2>2. program.most \in Nat
    BY ShimAssumption DEF Tracing
  <2>3. /\ calls' \in 0..program.most /\ counter' <= 2 * calls' - 1
    BY <1>1, <2>1, <2>2
  <2>4. \A n \in {0, 1} : counter' <= 2 * calls' - n
    BY <1>1, <2>1, <2>2, <2>3
  <2> QED
    BY <1>1, <2>3, <2>4 DEF Stamping
<1>7. MovedPath(c.path) => OpenOn(c.path) = {} /\ c.path \in Paths
  BY ShimAssumption DEF MovedPath, MayMove, Plain, Tracing
<1>8. MovedPath(c.path2) => OpenOn(c.path2) = {} /\ c.path2 \in Paths
  BY ShimAssumption DEF MovedPath, MayMove, Plain, Tracing
<1>9. AboutTo(t)'
  <2>1. c.call = "open" => c.path \in PathNames /\ c.flags = CREATE
    BY TargetCallsAre, ShimAssumption DEF Plain, PathNames, Tracing
  <2>2. frame'[t].step = "marker" => desc[c.fd].path = MARKER
    <3> SUFFICES ASSUME frame'[t].step = "marker" PROVE desc[c.fd].path = MARKER
      OBVIOUS
    <3>1. c.call = "write" /\ is_marker_fd(c.fd)
      BY <1>2
    <3>2. c.fd \in Fds /\ desc[c.fd].file # 0
      BY <3>1, TargetCallsAre DEF FdCall, Usable
    <3>3. Known(c.fd, desc[c.fd].path)
      BY <1>1, <3>2, KnownAtRest
    <3> QED
      BY <3>1, <3>3 DEF Known, Plain, is_marker_fd
  <2>3. c.call \in {"rename", "unlink"} => MovedPath(c.path)
    BY TargetCallsAre
  <2>4. c.call = "rename" => MovedPath(c.path2)
    BY TargetCallsAre
  <2>5. \A q : OpenOn(q)' = OpenOn(q)
    BY <1>1 DEF OpenOn
  <2>6. PathNames' = PathNames
    BY DEF PathNames
  <2> QED
    BY <1>1, <1>2, <1>7, <1>8, <2>1, <2>2, <2>3, <2>4, <2>5, <2>6 DEF AboutTo
<1>10. InCall(t)'
  <2>1. c.call \in {"rename", "unlink"} => c.path \in Paths
    BY <1>7, TargetCallsAre
  <2>2. c.call = "rename" => c.path2 \in Paths /\ c.path2 # c.path
    BY <1>8, TargetCallsAre
  <2>3. frame'[t].step \notin RETURNED
    BY <1>3 DEF ENTERED, RETURNED
  <2> QED
    BY <1>2, <2>1, <2>2, <2>3 DEF InCall
<1> QED
  BY <1>1, <1>5, <1>6, <1>9, <1>10 DEF KernelSound, FsSound

(* What is written to the marker file is not on disk under any path.       *)
LEMMA EmitMarkerSound ==
    ASSUME Plain, Shaped, Tracing, KernelSound, counter \in Nat, NEW t, Threads = {t},
           EmitMarker(t)
    PROVE  KernelSound' /\ OnDisk' = OnDisk
<1> DEFINE f == frame[t]
           x == Overlay(files[desc[f.fd].file], f.value, desc[f.fd].off, WRITTEN)
<1>1. /\ UNCHANGED <<program, counter, calls>> /\ Threads' = {t}
      /\ f.step = "marker" /\ frame'[t].step = "idle" /\ t \in Threads
  BY EmitMarkerView DEF EmitMarker, Threads
<1>2. /\ f.call = "write" /\ f.fd \in Fds /\ desc[f.fd].file # 0 /\ desc[f.fd].path = MARKER
      /\ counter = f.i + 1 /\ f.step \in ENTERED /\ DOMAIN desc = Fds
      /\ \A fd \in Fds : DOMAIN desc[fd] = {"file", "path", "off"} /\ desc[fd].off \in Nat
  BY <1>1 DEF Tracing, Tabled, Frames, Asked, FdCall, KernelSound, AboutTo, ENTERED
<1>3. /\ names' = names /\ files' = [files EXCEPT ![desc[f.fd].file] = x]
      /\ desc' = [desc EXCEPT ![f.fd].off = @ + WRITTEN]
  BY <1>2 DEF EmitMarker, KernelCall, Outcome
<1> HIDE DEF x
<1>4. DescKept
  BY <1>2, <1>3 DEF DescKept
<1>5. names[MARKER] = desc[f.fd].file /\ MARKER \in PathNames
  BY <1>2 DEF KernelSound, DescSound, PathNames
<1>6. /\ Limit = counter - 1 /\ Limit' = counter /\ Grows
  <2>1. Limit = counter - 1
    BY <1>2, LimitIs
  <2>2. Limit' = counter
    BY <1>1 DEF Limit, ENTERED
  <2> QED
    BY <2>1, <2>2 DEF Grows
<1>7. calls \in 0..program.most /\ program.most \in Nat /\ counter <= 2 * calls - 1
  <2>1. f.step \in OPEN \ {"emit"}
    BY <1>1 DEF OPEN
  <2>2. program.most \in Nat
    BY ShimAssumption DEF Tracing
  <2> HIDE DEF f
  <2> QED
    BY <1>1, <2>1, <2>2 DEF KernelSound, Stamping, f
<1>8. FsSound' /\ OnDisk' = [OnDisk EXCEPT ![MARKER] = x]
  <2>1. Limit <= 2 * program.most
    BY <1>6, <1>7
  <2>2. files' = [files EXCEPT ![names[MARKER]] = x] /\ names[MARKER] # 0
    BY <1>2, <1>3, <1>5
  <2> QED
    BY <1>1, <1>3, <1>4, <1>5, <1>6, <1>7, <2>1, <2>2, FsFilled DEF KernelSound, FsSound
<1>9. OnDisk' = OnDisk
  <2>1. MARKER \notin DOMAIN OnDisk
    BY ShimAssumption DEF OnDisk
  <2>2. [OnDisk EXCEPT ![MARKER] = x] = OnDisk
    <3> DEFINE d == OnDisk
    <3>1. d = [p \in Paths |-> d[p]] /\ MARKER \notin Paths
      BY ShimAssumption DEF OnDisk
    <3> HIDE DEF d
    <3>2. [d EXCEPT ![MARKER] = x] = d
      BY <3>1
    <3> QED
      BY <3>2 DEF d
  <2> QED
    BY <1>8, <2>2
<1>10. Stamping'
  <2>1. counter <= 2 * calls - 0
    BY <1>7
  <2> QED
    BY <1>1, <1>7, <2>1 DEF Stamping, OPEN, RETURNED
<1>11. AboutTo(t)' /\ InCall(t)'
  BY <1>1 DEF AboutTo, InCall, ENTERED, OPEN, RETURNED
<1> QED
  BY <1>1, <1>8, <1>9, <1>10, <1>11 DEF KernelSound, FsSound

(* A thread that is through with its call.                                 *)
LEMMA DoneSound ==
    ASSUME Shaped, Tracing, KernelSound, counter \in Nat, NEW t, Threads = {t},
           Emit(t) \/ Clear(t)
    PROVE  KernelSound' /\ OnDisk' = OnDisk
<1>1. /\ UNCHANGED <<program, names, files, desc, calls, counter>> /\ Threads' = {t} /\ t \in Threads
      /\ frame[t].step \in {"emit", "clear"} /\ frame'[t].step \in {"idle", "clear"}
  <2>1. CASE Emit(t)
    BY <2>1, EmitView DEF Emit, Threads, kernel
  <2>2. CASE Clear(t)
    BY <2>2, ClearView DEF Clear, Threads, kernel
  <2> QED
    BY <2>1, <2>2
<1>2. Limit = counter /\ Limit' = counter
  BY <1>1, LimitIs DEF Limit, ENTERED
<1>3. FsSound' /\ OnDisk' = OnDisk
  BY <1>1, <1>2, FsKept DEF KernelSound, FsSound, Grows
<1>4. Stamping'
  <2>1. counter <= 2 * calls - 0
    BY <1>1 DEF KernelSound, Stamping, OPEN, RETURNED
  <2>2. frame'[t].step \notin OPEN
    BY <1>1 DEF OPEN, RETURNED
  <2> QED
    BY <1>1, <2>1, <2>2 DEF KernelSound, Stamping
<1>5. AboutTo(t)' /\ InCall(t)'
  BY <1>1 DEF AboutTo, InCall, ENTERED, OPEN, RETURNED
<1> QED
  BY <1>1, <1>3, <1>4, <1>5 DEF KernelSound, FsSound

-----------------------------------------------------------------------------
(* The chronicle.  The last record submitted is the last of the sorted     *)
(* sequence, and replaying it takes the contents one call further.         *)

LEMMA SubmittedLast ==
    ASSUME NEW recs, IsSequence(recs), NEW r, r.rec = "event",
           Distinct(RecordsOf(recs, "event")), Distinct(RecordsOf(Append(recs, r), "event")),
           \A e \in RecordsOf(recs, "event") : e.i < r.i
    PROVE  LET es == InSubmissionOrder(recs, "event")
               ds == InSubmissionOrder(Append(recs, r), "event")
           IN  /\ Len(es) \in Nat /\ Len(ds) = Len(es) + 1 /\ ds[Len(ds)] = r
               /\ \A n \in 1..Len(es) : ds[n] = es[n]
               /\ RecordsOf(Append(recs, r), "event") = RecordsOf(recs, "event") \cup {r}
<1> DEFINE rs == RecordsOf(recs, "event")
           qs == RecordsOf(Append(recs, r), "event")
           N == Cardinality(rs)
           es == InSubmissionOrder(recs, "event")
           ds == InSubmissionOrder(Append(recs, r), "event")
<1>1. qs = rs \cup {r}
  BY AppendOne DEF RecordsOf
<1>2. /\ IsFiniteSet(rs) /\ IsFiniteSet(qs) /\ N \in Nat
      /\ \A e \in qs : e.i \in Nat
      /\ r \in qs /\ r \notin rs
  <2>1. IsFiniteSet(rs) /\ IsFiniteSet(qs) /\ \A e \in qs : e.i \in Nat
    BY DEF Distinct
  <2>2. N \in Nat
    BY <2>1, FS_CardinalityType
  <2>3. r \in qs
    BY <1>1
  <2>4. r \notin rs
    <3> HIDE DEF rs, qs
    <3> QED
      BY <2>1, <2>3 DEF rs
  <2> QED
    BY <2>1, <2>2, <2>3, <2>4
<1>3. Cardinality(qs) = N + 1
  <2> HIDE DEF rs, qs
  <2> QED
    BY <1>1, <1>2, FS_AddElement DEF N
<1>4. Place(r, qs) = N + 1
  <2>1. {e \in qs : e.i <= r.i} = qs
    <3> HIDE DEF rs, qs
    <3> QED
      BY <1>1, <1>2 DEF rs
  <2> QED
    BY <1>3, <2>1 DEF Place
<1>5. \A e \in rs : Place(e, qs) = Place(e, rs)
  <2> SUFFICES ASSUME NEW e \in rs PROVE Place(e, qs) = Place(e, rs)
    OBVIOUS
  <2>1. e.i < r.i /\ e.i \in Nat /\ r.i \in Nat
    BY <1>1, <1>2
  <2>2. {d \in qs : d.i <= e.i} = {d \in rs : d.i <= e.i}
    BY <1>1, <2>1
  <2> QED
    BY <2>2 DEF Place
<1>6. \A d, e \in qs : Place(d, qs) = Place(e, qs) => d = e
  <2> SUFFICES ASSUME NEW d \in qs, NEW e \in qs, Place(d, qs) = Place(e, qs) PROVE d = e
    OBVIOUS
  <2> HIDE DEF qs
  <2>1. Distinct(qs)
    BY DEF qs
  <2>2. Place(d, qs) \in Int
    BY <2>1, PlacesAscend
  <2>3. d.i <= e.i /\ e.i <= d.i
    BY <2>1, <2>2, PlacesAscend
  <2> QED
    BY <2>1, <2>3 DEF Distinct
<1>7. /\ DOMAIN es = 1..N /\ DOMAIN ds = 1..(N + 1)
      /\ \A n \in 1..N : es[n] \in rs /\ Place(es[n], rs) = n
      /\ \A n \in 1..(N + 1) : ds[n] \in qs /\ Place(ds[n], qs) = n
  <2>1. DOMAIN es = 1..N /\ \A n \in DOMAIN es : es[n] \in rs /\ Place(es[n], rs) = n
    BY SortedIs
  <2>2. /\ DOMAIN ds = 1..Cardinality(qs)
        /\ \A n \in DOMAIN ds : ds[n] \in qs /\ Place(ds[n], qs) = n
    BY SortedIs
  <2> HIDE DEF rs, qs, N, es, ds
  <2> QED
    BY <1>3, <2>1, <2>2
<1>8. Len(es) = N /\ Len(ds) = N + 1
  <2>1. /\ es = [n \in 1..N |-> CHOOSE e \in rs : Place(e, rs) = n]
        /\ ds = [n \in 1..(N + 1) |-> CHOOSE e \in qs : Place(e, qs) = n]
    BY <1>3 DEF InSubmissionOrder
  <2> HIDE DEF rs, qs, N, es, ds
  <2> QED
    BY <1>2, <2>1
<1>9. ds[N + 1] = r
  <2> HIDE DEF rs, qs, N, es, ds
  <2> QED
    BY <1>2, <1>4, <1>6, <1>7
<1>10. \A n \in 1..N : ds[n] = es[n]
  <2> SUFFICES ASSUME NEW n \in 1..N PROVE ds[n] = es[n]
    OBVIOUS
  <2> HIDE DEF rs, qs, N, es, ds
  <2>1. n \in 1..(N + 1)
    BY <1>2
  <2>2. es[n] \in rs /\ Place(es[n], rs) = n /\ ds[n] \in qs /\ Place(ds[n], qs) = n
    BY <1>7, <2>1
  <2>3. es[n] \in qs /\ Place(es[n], qs) = n
    BY <1>1, <1>5, <2>2
  <2> QED
    BY <1>6, <2>2, <2>3
<1> HIDE DEF rs, qs, N, es, ds
<1>11. /\ Len(es) \in Nat /\ Len(ds) = Len(es) + 1 /\ ds[Len(ds)] = r
       /\ \A n \in 1..Len(es) : ds[n] = es[n]
  BY <1>2, <1>8, <1>9, <1>10
<1> QED
  BY <1>1, <1>11 DEF rs, qs, es, ds

LEMMA ChronicleGrows ==
    ASSUME NEW es, NEW ds, Len(es) \in Nat, Len(ds) = Len(es) + 1,
           \A n \in 1..Len(es) : ds[n] = es[n], NEW ms, Chronicle(ms, es)
    PROVE  \E ls : /\ Chronicle(ls, ds)
                  /\ ls[Len(ds)] = NextContents(ms[Len(es)], ds[Len(ds)])
<1> DEFINE next == NextContents(ms[Len(es)], ds[Len(ds)])
           ls == [n \in 0..Len(ds) |-> IF n = Len(ds) THEN next ELSE ms[n]]
<1> HIDE DEF next
<1>1. /\ DOMAIN ls = 0..Len(ds) /\ ls[Len(ds)] = next
      /\ \A n \in 0..Len(es) : ls[n] = ms[n]
  OBVIOUS
<1> HIDE DEF ls
<1>2. ls[0] = [p \in Paths |-> <<>>]
  BY <1>1 DEF Chronicle
<1>3. \A n \in 1..Len(ds) : ls[n] = NextContents(ls[n - 1], ds[n])
  <2> SUFFICES ASSUME NEW n \in 1..Len(ds) PROVE ls[n] = NextContents(ls[n - 1], ds[n])
    OBVIOUS
  <2>1. CASE n = Len(ds)
    BY <1>1, <2>1 DEF next
  <2>2. CASE n # Len(ds)
    <3>1. n \in 1..Len(es) /\ n - 1 \in 0..Len(es) /\ n \in 0..Len(es)
      BY <2>2
    <3>2. ms[n] = NextContents(ms[n - 1], es[n])
      BY <3>1 DEF Chronicle
    <3> QED
      BY <1>1, <3>1, <3>2
  <2> QED
    BY <2>1, <2>2
<1>4. Chronicle(ls, ds)
  BY <1>1, <1>2, <1>3 DEF Chronicle
<1> QED
  BY <1>1, <1>4 DEF next

LEMMA SoundInit == Init => Sound
<1> SUFFICES ASSUME Init PROVE Sound
  OBVIOUS
<1>1. /\ \A t \in Threads : frame[t].step = "idle"
      /\ counter = 0 /\ calls = 0 /\ records = <<>>
      /\ names = [p \in PathNames |-> 0] /\ files = [i \in 1..(2 * program.most) |-> <<>>]
      /\ desc = [fd \in Fds |-> [file |-> 0, path |-> NONE, off |-> 0]]
      /\ program \in Programs /\ program.most \in Nat
  BY ShimAssumption DEF Init, Idle
<1>2. Limit = 0
  BY <1>1 DEF Limit, ENTERED
<1>3. NamesSound /\ FilesSound /\ DescSound
  BY <1>1, <1>2 DEF NamesSound, FilesSound, DescSound
<1>4. Stamping
  BY <1>1 DEF Stamping, OPEN, RETURNED
<1>5. \A t \in Threads : AboutTo(t) /\ InCall(t)
  BY <1>1 DEF AboutTo, InCall, ENTERED, OPEN, RETURNED
<1>6. Events = {}
  BY <1>1 DEF Events, RecordsOf
<1>7. Len(Submitted) = 0
  <2> DEFINE rs == RecordsOf(records, "event")
  <2>1. Cardinality(rs) = 0
    BY <1>6, FS_EmptySet DEF Events
  <2>2. Submitted = [n \in 1..Cardinality(rs) |-> CHOOSE r \in rs : Place(r, rs) = n]
    BY DEF Submitted, InSubmissionOrder
  <2> HIDE DEF rs
  <2> QED
    BY <2>1, <2>2
<1> DEFINE ms == [n \in 0..0 |-> [p \in Paths |-> <<>>]]
<1>8. Chronicle(ms, Submitted) /\ ms[Len(Submitted)] = [p \in Paths |-> <<>>]
  BY <1>7 DEF Chronicle
<1>9. OnDisk = [p \in Paths |-> <<>>]
  BY <1>1 DEF OnDisk, Held, PathNames
<1>10. Ahead(ms[Len(Submitted)])
  BY <1>1, <1>8, <1>9 DEF Ahead, RETURNED
<1> HIDE DEF ms
<1> QED
  BY <1>3, <1>4, <1>5, <1>6, <1>8, <1>10 DEF Sound, KernelSound

(* A step that records no event keeps the chronicle.                       *)
LEMMA SoundSilent ==
    ASSUME Sound, IsSequence(records), KernelSound',
           \/ records' = records
           \/ \E r : r.rec = "marker" /\ records' = Append(records, r),
           \A m : Ahead(m) => Ahead(m)'
    PROVE  Sound'
<1>1. RecordsOf(records', "event") = RecordsOf(records, "event")
  <2>1. ASSUME NEW r, r.rec = "marker", records' = Append(records, r)
        PROVE  RecordsOf(records', "event") = RecordsOf(records, "event")
    BY <2>1, AppendOne DEF RecordsOf
  <2> QED
    BY <2>1
<1>2. Events' = Events /\ Submitted' = Submitted
  BY <1>1 DEF Events, Submitted, InSubmissionOrder
<1>3. PICK ms : /\ Chronicle(ms, Submitted)
                /\ (\A e \in Events : ~Short(e)) => Ahead(ms[Len(Submitted)])
  BY DEF Sound
<1>4. Chronicle(ms, Submitted') /\ ((\A e \in Events' : ~Short(e)) => Ahead(ms[Len(Submitted)])')
  BY <1>2, <1>3
<1> QED
  BY <1>2, <1>4 DEF Sound

(* What a record says is what the kernel did, so that replaying it has the *)
(* effect the call had.                                                    *)
LEMMA EmitSound ==
    ASSUME Plain, Serial, Serial', Tracing, KernelSound', Sound, OnDisk' = OnDisk,
           NEW t, Threads = {t}, Emit(t)
    PROVE  Sound'
<1> DEFINE f == frame[t]
<1>1. PICK r :
        /\ records' = Append(records, r)
        /\ r.rec = "event" /\ r.i = f.i /\ r.j = f.j /\ r.tid = t
        /\ r.call = f.call /\ r.ret = f.ret /\ r.off = f.off
        /\ r.path = IF f.call \in FdCall \cup {"open"} THEN path_for(f.fd) ELSE f.path
        /\ r.path2 = f.path2 /\ r.value = f.value
        /\ r.len = IF f.call \in {"write", "pwrite"} THEN WRITTEN * SectorSize ELSE 0
  BY EmitsRecord
<1>2. /\ f.step = "emit" /\ f.call \in CALLS /\ Answered(t) /\ Fits /\ InCall(t)
      /\ frame'[t].step \in {"idle", "clear"} /\ Threads' = {t} /\ t \in Threads
  <2>1. f.step = "emit" /\ Threads' = Threads
    BY DEF Emit, Threads
  <2>2. frame'[t].step \in {"idle", "clear"}
    BY EmitView DEF Serial, Tracked, Stamped
  <2> QED
    BY <2>1, <2>2 DEF Tracing, Frames, Routed, Plain, Sound, KernelSound
<1>3. f.ret >= 0 =>
        /\ r.path = f.at.path /\ r.path # MARKER
        /\ f.call = "write" => r.off = f.at.off
        /\ f.call \in FdCall => f.at.path \in PathNames /\ f.at.off \in Nat
  <2>1. (f.ret >= 0 /\ f.call \in FdCall \cup {"open"}) => path_for(f.fd) = f.at.path
    BY <1>2, InFits DEF Answered, RETURNED, Known, path_for
  <2>2. (f.ret >= 0 /\ f.call \notin FdCall) => f.at.path = f.path
    BY <1>2 DEF Answered, RETURNED
  <2>3. f.ret >= 0 => f.at.path # MARKER
    BY <1>2 DEF Answered, RETURNED
  <2>4. (f.ret >= 0 /\ f.call = "write") => f.off = f.at.off
    BY <1>2 DEF Answered, RETURNED
  <2>5. (f.ret >= 0 /\ f.call \in FdCall) => f.at.path \in PathNames /\ f.at.off \in Nat
    BY <1>2 DEF InCall, OPEN, RETURNED
  <2> QED
    BY <1>1, <2>1, <2>2, <2>3, <2>4, <2>5
<1>4. /\ f.call = "pwrite" => f.off = 0
      /\ f.call \in {"rename", "unlink"} => f.path \in Paths
      /\ f.call = "rename" => f.path2 \in Paths /\ f.path2 # f.path
  BY <1>2 DEF InCall, OPEN, RETURNED
<1> HIDE DEF f
<1>5. Replayable(r)
  <2> SUFFICES ASSUME r.ret >= 0 PROVE Replayable(r)
    BY DEF Replayable
  <2>1. f.ret >= 0 /\ r.path # MARKER
    BY <1>1, <1>3
  <2>2. r.call \in FdCall => r.path \in Paths
    BY <1>1, <1>3, <2>1 DEF PathNames
  <2>3. r.call \in {"rename", "unlink"} => r.path \in Paths
    BY <1>1, <1>4 DEF FdCall
  <2>4. r.call = "rename" => r.path2 \in Paths /\ r.path2 # r.path
    BY <1>1, <1>4 DEF FdCall
  <2>5. r.call \in WRITES => r.off \in Nat /\ r.len = WRITTEN * SectorSize
    <3>1. CASE f.call = "write"
      BY <1>1, <1>3, <2>1, <3>1 DEF FdCall
    <3>2. CASE f.call = "pwrite"
      BY <1>1, <1>4, <3>2
    <3> QED
      BY <1>1, <3>1, <3>2 DEF WRITES
  <2>6. r.call = "pwrite" => r.off = 0
    BY <1>1, <1>4
  <2>7. r.call = "ftruncate" => r.len = 0
    BY <1>1
  <2>8. r.call \in CALLS
    BY <1>1, <1>2
  <2> QED
    BY <2>2, <2>3, <2>4, <2>5, <2>6, <2>7, <2>8 DEF Replayable, FdCall, WRITES
<1>6. r.ret >= 0 => \A m : Effect(m, r.call, r.path, r.path2, r.off, r.value) =
                           Effect(m, f.call, f.at.path, f.path2, f.at.off, f.value)
  <2> SUFFICES ASSUME r.ret >= 0, NEW m
               PROVE  Effect(m, r.call, r.path, r.path2, r.off, r.value) =
                      Effect(m, f.call, f.at.path, f.path2, f.at.off, f.value)
    OBVIOUS
  <2>1. /\ r.call = f.call /\ r.path = f.at.path /\ r.path2 = f.path2 /\ r.value = f.value
        /\ f.call = "write" => r.off = f.at.off
    BY <1>1, <1>3
  <2> QED
    BY <2>1 DEF Effect
<1>7. r.ret = f.ret /\ (ShortCall(f) => Short(r))
  BY <1>1 DEF ShortCall, Short, WRITES
<1> DEFINE es == Submitted
           ds == InSubmissionOrder(records', "event")
<1>8. /\ Len(es) \in Nat /\ Len(ds) = Len(es) + 1 /\ ds[Len(ds)] = r
      /\ \A n \in 1..Len(es) : ds[n] = es[n]
      /\ Events' = Events \cup {r}
  <2>1. /\ IsSequence(records) /\ Distinct(RecordsOf(records, "event"))
    BY EventsDistinct DEF Serial, Tracked, Stamped, Taken, RecordsSound, Events
  <2>2. Distinct(RecordsOf(records', "event"))
    <3>1. Tracked' => Distinct(Events)'
      BY EventsDistinct, PTL
    <3>2. Distinct(Events)'
      BY <3>1 DEF Serial
    <3> QED
      BY <3>2 DEF Events, Distinct
  <2>3. \A e \in RecordsOf(records, "event") : e.i < r.i
    <3> SUFFICES ASSUME NEW k \in DOMAIN records, records[k].rec = "event"
                 PROVE  records[k].i < r.i
      BY DEF RecordsOf
    <3>1. records[k].tid = t
      BY DEF Serial, Signed
    <3>2. records[k].i \in StampsOf(records[k]) /\ f.i \in Carries(t)
      BY <1>2 DEF StampsOf, Carries, f
    <3>3. records[k].i < f.i
      BY <1>2, <3>1, <3>2 DEF Serial, Tracked, Stamped, Taken, Ascending
    <3> QED
      BY <1>1, <3>3
  <2> HIDE DEF es, ds
  <2>4. /\ Len(es) \in Nat /\ Len(ds) = Len(es) + 1 /\ ds[Len(ds)] = r
        /\ \A n \in 1..Len(es) : ds[n] = es[n]
        /\ RecordsOf(records', "event") = RecordsOf(records, "event") \cup {r}
    BY <1>1, <2>1, <2>2, <2>3, SubmittedLast DEF es, ds, Submitted
  <2> QED
    BY <2>4 DEF Events
<1>9. Submitted' = ds
  BY DEF Submitted
<1>10. PICK ms : /\ Chronicle(ms, es)
                 /\ (\A e \in Events : ~Short(e)) => Ahead(ms[Len(es)])
  BY DEF Sound
<1> HIDE DEF es, ds
<1>11. PICK ls : Chronicle(ls, ds) /\ ls[Len(ds)] = NextContents(ms[Len(es)], r)
  BY <1>8, <1>10, ChronicleGrows
<1>12. (\A e \in Events' : ~Short(e)) => OnDisk = ls[Len(ds)]
  <2> SUFFICES ASSUME \A e \in Events' : ~Short(e) PROVE OnDisk = ls[Len(ds)]
    OBVIOUS
  <2> DEFINE m == ms[Len(es)]
             l == ls[Len(ds)]
  <2>1. Ahead(m) /\ ~ShortCall(f)
    BY <1>7, <1>8, <1>10
  <2> HIDE DEF m, l
  <2>2. OnDisk = l
    <3>1. CASE f.ret >= 0
      <4>1. OnDisk = Effect(m, f.call, f.at.path, f.path2, f.at.off, f.value)
        BY <1>2, <2>1, <3>1 DEF Ahead, RETURNED, f
      <4>2. l = Effect(m, r.call, r.path, r.path2, r.off, r.value)
        BY <1>7, <1>11, <3>1 DEF NextContents, m, l
      <4> QED
        BY <1>6, <1>7, <3>1, <4>1, <4>2
    <3>2. CASE ~(f.ret >= 0)
      <4>1. OnDisk = m
        BY <1>2, <2>1, <3>2 DEF Ahead, f
      <4>2. l = m
        BY <1>7, <1>11, <3>2 DEF NextContents, m, l
      <4> QED
        BY <4>1, <4>2
    <3> QED
      BY <3>1, <3>2
  <2> QED
    BY <2>2 DEF l
<1>13. \A e \in Events' : Replayable(e)
  BY <1>5, <1>8 DEF Sound
<1>14. Chronicle(ls, Submitted') /\ ((\A e \in Events' : ~Short(e)) => OnDisk' = ls[Len(Submitted')])
  BY <1>9, <1>11, <1>12
<1>15. (\A e \in Events' : ~Short(e)) => Ahead(ls[Len(Submitted)])'
  BY <1>2, <1>14 DEF Ahead, RETURNED
<1> QED
  BY <1>13, <1>14, <1>15 DEF Sound

LEMMA SoundNext ==
    ASSUME Plain, Serial, Serial', Sound, NEW t, Threads = {t}, [Next]_vars
    PROVE  Sound'
<1>1. /\ Shaped /\ Tracked /\ Tracing /\ KernelSound /\ counter \in Nat /\ IsSequence(records)
      /\ t \in Threads
  <2>1. Alone
    BY FS_Singleton DEF Alone
  <2> QED
    BY <2>1 DEF Serial, Sound, Tracked, Stamped, Taken, RecordsSound
<1>2. CASE UNCHANGED vars
  <2>1. UNCHANGED <<program, counter, frame, records, calls, names, files, desc>>
    BY <1>2 DEF vars, kernel
  <2>2. KernelSound'
    <3>1. Limit' = Limit
      BY <2>1 DEF Limit, Threads
    <3>2. \A p : OpenOn(p)' = OpenOn(p)
      BY <2>1 DEF OpenOn
    <3> QED
      BY <1>1, <2>1, <3>1, <3>2 DEF KernelSound, NamesSound, FilesSound, DescSound, Stamping, AboutTo,
                                    InCall, Threads, PathNames
  <2>3. \A m : Ahead(m) => Ahead(m)'
    BY <2>1 DEF Ahead, OnDisk, Threads
  <2> QED
    BY <1>1, <2>1, <2>2, <2>3, SoundSilent
<1>3. ASSUME NEW c \in TargetCalls, Enter(t, c) PROVE Sound'
  <2>1. KernelSound' /\ OnDisk' = OnDisk
    BY <1>1, <1>3, EnterSound
  <2>2. /\ records' = records /\ Threads' = {t}
        /\ frame[t].step \notin RETURNED /\ frame'[t].step \notin RETURNED
    BY <1>1, <1>3, EnterView DEF Threads, RETURNED
  <2>3. \A m : Ahead(m) => Ahead(m)'
    BY <2>1, <2>2 DEF Ahead
  <2> QED
    BY <1>1, <2>1, <2>2, <2>3, SoundSilent
<1>4. CASE EmitMarker(t)
  <2>1. KernelSound' /\ OnDisk' = OnDisk
    BY <1>1, <1>4, EmitMarkerSound
  <2>2. /\ \E r : r.rec = "marker" /\ records' = Append(records, r)
        /\ Threads' = {t}
        /\ frame[t].step \notin RETURNED /\ frame'[t].step \notin RETURNED
    BY <1>1, <1>4, EmitMarkerView DEF Threads, RETURNED
  <2>3. \A m : Ahead(m) => Ahead(m)'
    BY <2>1, <2>2 DEF Ahead
  <2> QED
    BY <1>1, <2>1, <2>2, <2>3, SoundSilent
<1>5. CASE Perform(t)
  <2> DEFINE f == frame'[t]
  <2>1. /\ KernelSound'
        /\ IF f.ret >= 0
           THEN \/ ShortCall(f)
                \/ OnDisk' = Effect(OnDisk, f.call, f.at.path, f.path2, f.at.off, f.value)
           ELSE OnDisk' = OnDisk
    BY <1>1, <1>5, PerformSound
  <2>2. /\ records' = records /\ Threads' = {t}
        /\ frame[t].step \notin RETURNED /\ f.step \in RETURNED
    BY <1>1, <1>5, PerformView DEF Threads, RETURNED
  <2>3. \A m : Ahead(m) => Ahead(m)'
    <3> SUFFICES ASSUME NEW m, Ahead(m) PROVE Ahead(m)'
      OBVIOUS
    <3>1. OnDisk = m
      BY <1>1, <2>2 DEF Ahead
    <3> QED
      BY <2>1, <2>2, <3>1 DEF Ahead
  <2> QED
    BY <1>1, <2>1, <2>2, <2>3, SoundSilent
<1>6. CASE Between(t) \/ Complete(t)
  <2>1. KernelSound' /\ OnDisk' = OnDisk
    BY <1>1, <1>6, HeldSound
  <2>2. records' = records /\ Threads' = {t} /\ frame[t].step \in RETURNED
    BY <1>1, <1>6, CallHeld DEF Threads
  <2>3. ASSUME NEW m, Ahead(m) PROVE Ahead(m)'
    <3>1. CASE frame'[t].step \in {"idle", "clear"} /\ frame[t].call \in {"open", "close"}
      <4>1. OnDisk = m
        BY <1>1, <2>2, <2>3, <3>1 DEF Ahead, Effect, ShortCall, WRITES
      <4> QED
        BY <2>1, <2>2, <3>1, <4>1 DEF Ahead, RETURNED
    <3>2. CASE /\ frame'[t].step \in RETURNED
               /\ frame'[t].call = frame[t].call /\ frame'[t].path2 = frame[t].path2
               /\ frame'[t].value = frame[t].value
               /\ frame'[t].ret = frame[t].ret /\ frame'[t].at = frame[t].at
      BY <1>1, <2>1, <2>2, <2>3, <3>2 DEF Ahead, ShortCall
    <3> QED
      BY <1>1, <1>6, <3>1, <3>2, CallHeld
  <2> QED
    BY <1>1, <2>1, <2>2, <2>3, SoundSilent
<1>7. CASE Emit(t)
  BY <1>1, <1>7, DoneSound, EmitSound
<1>8. CASE Clear(t)
  <2>1. KernelSound' /\ OnDisk' = OnDisk
    BY <1>1, <1>8, DoneSound
  <2>2. /\ records' = records /\ Threads' = {t}
        /\ frame[t].step \notin RETURNED /\ frame'[t].step \notin RETURNED
    BY <1>1, <1>8, ClearView DEF Threads, RETURNED
  <2>3. \A m : Ahead(m) => Ahead(m)'
    BY <2>1, <2>2 DEF Ahead
  <2> QED
    BY <1>1, <2>1, <2>2, <2>3, SoundSilent
<1> QED
  BY <1>2, <1>3, <1>4, <1>5, <1>6, <1>7, <1>8 DEF Next, Between

(* One thread or many.                                                     *)
Faithful == Serial /\ Kept /\ (Alone => Sound)

LEMMA FaithfulNext ==
    ASSUME Plain, Faithful, [Next]_vars
    PROVE  Faithful'
<1>1. Serial' /\ Kept'
  <2>1. Shaped /\ Tracked
    BY DEF Faithful, Serial, Tracked, Stamped
  <2> QED
    BY <2>1, SerialNext, KeptNext DEF Faithful
<1>2. Alone' = Alone
  <2>1. program' = program
    BY SignedNext DEF Faithful, Serial
  <2> QED
    BY <2>1 DEF Alone, Threads
<1>3. ASSUME Alone PROVE Sound'
  <2>1. PICK t : Threads = {t}
    <3>1. IsFiniteSet(Threads)
      BY ShimAssumption DEF Faithful, Serial, Threads
    <3> QED
      BY <1>3, <3>1, OneThreadOnly
  <2> QED
    BY <1>1, <1>3, <2>1, SoundNext DEF Faithful
<1> QED
  BY <1>1, <1>2, <1>3 DEF Faithful

(* replay.ts: replaying a trace is "reproducing the file state the traced  *)
(* calls produced".  Unless a system call of store_payload failed, the     *)
(* payload of every record is in the store; and if the payloads are there, *)
(* of a target of one thread that keeps its files' names while they are    *)
(* open and truncates none by opening it, every path holds after the       *)
(* replay of its trace what it holds after the calls, unless a write was   *)
(* short.                                                                  *)
THEOREM ReplayReproduces == Plain => (Spec => []ReplayIsFaithful)
<1> SUFFICES ASSUME Plain PROVE Spec => []ReplayIsFaithful
  OBVIOUS
<1>1. Init => Faithful
  BY SerialInit, KeptInit, SoundInit DEF Faithful
<1>2. Faithful => ReplayIsFaithful
  <2> SUFFICES ASSUME Faithful, Quiet PROVE ReplayIsFaithful
    BY DEF ReplayIsFaithful
  <2>1. StoreWorks => PayloadsStored
    BY StoredAtRest DEF Faithful
  <2>2. ASSUME Alone, \A e \in Events : ~Short(e)
        PROVE  LET fs == ReplayTrace(Submitted)
               IN  fs.ok /\ \A p \in Paths : Held(fs.names, fs.data, p) = Held(names, files, p)
    <3>1. PICK ms : Chronicle(ms, Submitted) /\ Ahead(ms[Len(Submitted)])
      BY <2>2 DEF Faithful, Sound
    <3>2. PICK t : t \in Threads
      <4>1. IsFiniteSet(Threads)
        BY ShimAssumption DEF Faithful, Serial, Threads
      <4> QED
        BY <2>2, <4>1, OneThreadOnly
    <3>3. OnDisk = ms[Len(Submitted)]
      BY <3>1, <3>2 DEF Ahead, Quiet, RETURNED
    <3>4. /\ Len(Submitted) \in Nat
          /\ \A i \in 1..Len(Submitted) : Replayable(Submitted[i])
      <4>1. Distinct(Events)
        BY EventsDistinct DEF Faithful, Serial
      <4>2. /\ DOMAIN Submitted = 1..Cardinality(Events)
            /\ \A n \in DOMAIN Submitted : Submitted[n] \in Events
        BY <4>1, SortedIs DEF Submitted, Events
      <4>3. Cardinality(Events) \in Nat
        BY <4>1, FS_CardinalityType DEF Distinct
      <4>4. Len(Submitted) = Cardinality(Events)
        <5>1. Submitted = [n \in 1..Cardinality(Events) |-> CHOOSE r \in Events : Place(r, Events) = n]
          BY DEF Submitted, InSubmissionOrder, Events
        <5> QED
          BY <4>3, <5>1
      <4> QED
        BY <2>2, <4>2, <4>3, <4>4 DEF Faithful, Sound
    <3>5. /\ ReplayTrace(Submitted).ok
          /\ \A p \in Paths : Held(ReplayTrace(Submitted).names, ReplayTrace(Submitted).data, p) =
                              ms[Len(Submitted)][p]
      BY <3>1, <3>4, ReplayOfChronicle
    <3> QED
      BY <3>3, <3>5 DEF OnDisk
  <2> QED
    BY <2>1, <2>2 DEF ReplayIsFaithful, Submitted
<1> QED
  BY <1>1, <1>2, FaithfulNext, PTL DEF Spec

=============================================================================
