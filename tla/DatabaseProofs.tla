--------------------------- MODULE DatabaseProofs ---------------------------
(***************************************************************************)
(* What the log of the database workloads and the oracle's verdict over it *)
(* are worth, for any number of operations and concurrent writers.         *)
(***************************************************************************)
EXTENDS DatabaseTargets, FiniteSetTheorems, SequenceTheorems, TLAPS

-----------------------------------------------------------------------------
(* The inductive invariant.                                                *)

IsSequence(s) == s \in Seq({s[k] : k \in DOMAIN s})

Busy == {"begin", "lock", "write", "sync", "commit", "ack"}

Places == Busy \cup {"next", "done", "failed"}

(* The shared counter hands every operation to one writer.                 *)
OperationsApart ==
    /\ next \in Nat \ {0}
    /\ pc \in [Writers -> Places]
    /\ op \in [Writers -> Nat]
    /\ \A t \in Writers : op[t] < next
    /\ \A t, u \in Writers : t # u /\ op[t] = op[u] => op[t] = 0
    /\ \A t \in Writers : pc[t] \in Busy => op[t] \in Operations

MarkerTyped(m) ==
    /\ m.index \in 0..(stamp - 1)
    /\ m.op \in Operations /\ m.op < next /\ m.key = m.op
    /\ \/ m.phase = "begin" /\ ~m.durable
       \/ m.phase = "ack" /\ m.digest = DIGEST /\ (m.durable <=> Durable(m.op))

(* At most one begin and one ack of an operation, in this order, and none  *)
(* before the writer is there.                                             *)
LogInOrder ==
    /\ IsSequence(markers)
    /\ \A k \in DOMAIN markers : MarkerTyped(markers[k])
    /\ \A k, l \in DOMAIN markers :
          markers[k].op = markers[l].op /\ markers[k].phase = markers[l].phase => k = l
    /\ \A k \in DOMAIN markers :
          markers[k].phase = "ack" =>
             \E b \in DOMAIN markers : /\ b < k /\ markers[b].op = markers[k].op
                                       /\ markers[b].phase = "begin"
    /\ \A t \in Writers : \A k \in DOMAIN markers :
          pc[t] \in Busy /\ markers[k].op = op[t] => pc[t] # "begin" /\ markers[k].phase = "begin"
    /\ \A t \in Writers :
          pc[t] \in Busy \ {"begin"} => \E k \in DOMAIN markers : markers[k].op = op[t]

(* The operations announced durable below a stamp.                         *)
Announced(limit) ==
    {markers[k].op : k \in {j \in DOMAIN markers : markers[j].durable /\ markers[j].index < limit}}

OnDisk(o, n) == \E k \in 1..n : commits[k] = o

(* What a call recorded as acknowledged is what the log says below its     *)
(* stamp, and was committed and synced by then.                            *)
CallTrue(e) ==
    /\ e.stamp \in 0..(stamp - 1)
    /\ e.acked = Announced(e.stamp)
    /\ e.floor \in 0..floor
    /\ \A o \in e.acked : OnDisk(o, e.floor)
    /\ ~e.made => e.acked = {}

(* What a writer has committed, durably if its operation is durable.       *)
Pending ==
    \A t \in Writers :
        /\ pc[t] = "sync" => OnDisk(op[t], Len(commits))
        /\ pc[t] \in {"commit", "ack"} /\ Durable(op[t]) => OnDisk(op[t], floor)

HistoryTrue ==
    /\ IsSequence(events) /\ IsSequence(commits)
    /\ acked = Announced(stamp)
    /\ \A o \in acked : OnDisk(o, floor)
    /\ \A i \in DOMAIN events : CallTrue(events[i])
    /\ Pending

Phases ==
    /\ phase = "create" => markers = <<>>
    /\ \A t \in Writers : pc[t] \in Busy => phase = "run"
    /\ phase = "judged" => crash.crashPoint \in DOMAIN events /\ crash.image \in Images

DatabaseInv ==
    /\ TypeOK /\ OperationsApart /\ LogInOrder /\ HistoryTrue /\ Phases

-----------------------------------------------------------------------------
(* Sequences that grow.                                                    *)

LEMMA AppendOne ==
    ASSUME NEW s, IsSequence(s), NEW e
    PROVE  /\ IsSequence(Append(s, e)) /\ Len(s) \in Nat
           /\ Len(Append(s, e)) = Len(s) + 1
           /\ DOMAIN Append(s, e) = 1..(Len(s) + 1) /\ DOMAIN s = 1..Len(s)
           /\ \A k \in 1..Len(s) : Append(s, e)[k] = s[k]
           /\ Append(s, e)[Len(s) + 1] = e
<1> DEFINE R == {s[k] : k \in DOMAIN s}
           t == Append(s, e)
<1>1. s \in Seq(R \cup {e})
  BY DEF IsSequence
<1>2. t \in Seq(R \cup {e}) /\ Len(t) = Len(s) + 1 /\ Len(s) \in Nat
  BY <1>1
<1>3. DOMAIN t = 1..(Len(s) + 1) /\ DOMAIN s = 1..Len(s)
  BY <1>1, <1>2
<1>4. (\A k \in 1..Len(s) : t[k] = s[k]) /\ t[Len(s) + 1] = e
  BY <1>1
<1>5. t \in Seq({t[k] : k \in DOMAIN t})
  BY <1>2, <1>3
<1> QED
  BY <1>2, <1>3, <1>4, <1>5 DEF IsSequence

LEMMA Lengths ==
    ASSUME DatabaseInv
    PROVE  /\ stamp \in Nat
           /\ DOMAIN events = 1..Len(events) /\ Len(events) \in Nat
           /\ DOMAIN markers = 1..Len(markers) /\ Len(markers) \in Nat
           /\ DOMAIN commits = 1..Len(commits) /\ Len(commits) \in Nat
BY LenProperties DEF DatabaseInv, LogInOrder, HistoryTrue, IsSequence, TypeOK

LEMMA WritersAre ==
    ASSUME shape \in Shapes
    PROVE  Writers \subseteq Nat \ {0}
BY DatabaseAssumption DEF Shapes, Writers

(* What was committed stays where it is.                                   *)
LEMMA CommitsStay ==
    ASSUME DatabaseInv, NEW n \in 0..Len(commits), NEW o, NEW c,
           commits' = commits \/ commits' = Append(commits, c)
    PROVE  OnDisk(o, n) => OnDisk(o, n)'
<1>1. \A k \in 1..n : commits'[k] = commits[k]
  BY Lengths, AppendOne DEF DatabaseInv, HistoryTrue
<1> QED
  BY <1>1 DEF OnDisk

-----------------------------------------------------------------------------
(* What a step does to the log.                                            *)

(* A step that writes no marker.                                           *)
LEMMA LogStands ==
    ASSUME DatabaseInv, UNCHANGED <<shape, markers>>,
           next' \in Nat, next' >= next, stamp' \in Nat, stamp' >= stamp,
           \A t \in Writers :
              pc'[t] \in Busy =>
                 \/ op'[t] = op[t] /\ pc[t] \in Busy /\ (pc'[t] = "begin" <=> pc[t] = "begin")
                 \/ op'[t] = next /\ pc'[t] = "begin"
    PROVE  LogInOrder'
<1> USE DEF DatabaseInv
<1>1. Writers' = Writers /\ \A o : (Durable(o)' <=> Durable(o))
  BY DEF Writers, Durable
<1>2. \A k \in DOMAIN markers : MarkerTyped(markers[k])'
  <2>1. next \in Nat /\ stamp \in Nat
    BY Lengths DEF OperationsApart
  <2> QED
    BY <1>1, <2>1 DEF LogInOrder, MarkerTyped, Operations
<1>3. \A t \in Writers : \A k \in DOMAIN markers :
         pc'[t] \in Busy /\ markers[k].op = op'[t] => pc'[t] # "begin" /\ markers[k].phase = "begin"
  BY DEF LogInOrder, OperationsApart, MarkerTyped, Operations
<1>4. \A t \in Writers :
         pc'[t] \in Busy \ {"begin"} => \E k \in DOMAIN markers : markers[k].op = op'[t]
  BY DEF LogInOrder
<1> QED
  BY <1>1, <1>2, <1>3, <1>4 DEF LogInOrder, IsSequence

(* A step that writes one: a begin from before it, an ack from after.      *)
LEMMA LogGrows ==
    ASSUME DatabaseInv, NEW t \in Writers, NEW m, markers' = Append(markers, m),
           UNCHANGED <<shape, next, op>>, stamp' = stamp + 1,
           m.index = stamp, m.op = op[t], m.key = op[t],
           \/ /\ pc[t] = "begin" /\ m.phase = "begin" /\ ~m.durable
              /\ pc' = [pc EXCEPT ![t] = "lock"]
           \/ /\ pc[t] = "ack" /\ m.phase = "ack" /\ m.digest = DIGEST /\ (m.durable <=> Durable(op[t]))
              /\ pc' = [pc EXCEPT ![t] = "next"]
    PROVE  LogInOrder'
<1> USE DEF DatabaseInv
<1> DEFINE n == Len(markers)
<1>1. /\ Writers' = Writers /\ (\A o : (Durable(o)' <=> Durable(o)))
      /\ stamp \in Nat /\ n \in Nat /\ DOMAIN markers = 1..n
  BY Lengths DEF Writers, Durable
<1>2. /\ IsSequence(markers') /\ DOMAIN markers' = 1..(n + 1)
      /\ (\A k \in 1..n : markers'[k] = markers[k]) /\ markers'[n + 1] = m
  BY AppendOne DEF LogInOrder
<1>3. pc[t] \in Busy /\ op[t] \in Operations /\ op[t] < next
  BY DEF OperationsApart, Busy
<1>4. MarkerTyped(m)' /\ \A k \in DOMAIN markers : MarkerTyped(markers[k])'
  BY <1>1, <1>3 DEF LogInOrder, MarkerTyped, Operations
<1>5. \A k \in 1..n : markers[k].op = op[t] => pc[t] # "begin" /\ markers[k].phase = "begin"
  BY <1>1, <1>3 DEF LogInOrder
<1>6. \A k, l \in DOMAIN markers' :
         markers'[k].op = markers'[l].op /\ markers'[k].phase = markers'[l].phase => k = l
  <2>1. \A k \in 1..n : ~(markers[k].op = m.op /\ markers[k].phase = m.phase)
    BY <1>5
  <2> QED
    BY <1>1, <1>2, <2>1 DEF LogInOrder
<1>7. \A k \in DOMAIN markers' :
         markers'[k].phase = "ack" =>
            \E b \in DOMAIN markers' : /\ b < k /\ markers'[b].op = markers'[k].op
                                       /\ markers'[b].phase = "begin"
  <2>1. m.phase = "ack" => \E b \in 1..n : markers[b].op = op[t] /\ markers[b].phase = "begin"
    BY <1>1, <1>5 DEF LogInOrder, Busy
  <2>2. \A k \in 1..n : markers[k].phase = "ack" =>
           \E b \in 1..n : b < k /\ markers[b].op = markers[k].op /\ markers[b].phase = "begin"
    BY <1>1 DEF LogInOrder
  <2>3. \A b \in 1..n : b < n + 1 /\ b \in 1..(n + 1)
    BY <1>1
  <2> QED
    BY <1>1, <1>2, <2>1, <2>2, <2>3
<1>8. \A u \in Writers : \A k \in DOMAIN markers' :
         pc'[u] \in Busy /\ markers'[k].op = op[u] => pc'[u] # "begin" /\ markers'[k].phase = "begin"
  <2> SUFFICES ASSUME NEW u \in Writers, NEW k \in DOMAIN markers',
                      pc'[u] \in Busy, markers'[k].op = op[u]
               PROVE  pc'[u] # "begin" /\ markers'[k].phase = "begin"
    OBVIOUS
  <2>1. CASE u = t
    <3>1. pc[t] = "begin" /\ pc'[t] = "lock" /\ m.phase = "begin"
      BY <2>1 DEF OperationsApart, Busy
    <3> QED
      BY <1>1, <1>2, <1>5, <2>1, <3>1
  <2>2. CASE u # t
    <3>1. pc'[u] = pc[u]
      BY <2>2 DEF OperationsApart
    <3>2. op[u] # op[t]
      BY <1>3, <2>2, <3>1 DEF OperationsApart, Operations
    <3> QED
      BY <1>1, <1>2, <3>1, <3>2 DEF LogInOrder
  <2> QED
    BY <2>1, <2>2
<1>9. \A u \in Writers :
         pc'[u] \in Busy \ {"begin"} => \E k \in DOMAIN markers' : markers'[k].op = op[u]
  <2> SUFFICES ASSUME NEW u \in Writers, pc'[u] \in Busy \ {"begin"}
               PROVE  \E k \in DOMAIN markers' : markers'[k].op = op[u]
    OBVIOUS
  <2>1. CASE u = t
    BY <1>1, <1>2, <2>1
  <2>2. CASE u # t
    <3>1. pc'[u] = pc[u]
      BY <2>2 DEF OperationsApart
    <3> QED
      BY <1>1, <1>2, <3>1 DEF LogInOrder
  <2> QED
    BY <2>1, <2>2
<1> QED
  BY <1>1, <1>2, <1>4, <1>6, <1>7, <1>8, <1>9 DEF LogInOrder

-----------------------------------------------------------------------------
(* What a step does to the history.                                        *)

(* New markers and stamps leave what was announced below an older stamp.   *)
LEMMA AnnouncedStays ==
    ASSUME DatabaseInv, NEW m, NEW limit \in 0..stamp,
           \/ markers' = markers
           \/ markers' = Append(markers, m) /\ m.index = stamp
    PROVE  Announced(limit)' = Announced(limit)
<1> USE DEF DatabaseInv
<1>1. CASE markers' = markers
  BY <1>1 DEF Announced
<1>2. CASE markers' = Append(markers, m) /\ m.index = stamp
  <2> DEFINE n == Len(markers)
  <2>1. n \in Nat /\ DOMAIN markers = 1..n /\ stamp \in Nat
    BY Lengths
  <2>2. /\ DOMAIN markers' = 1..(n + 1)
        /\ (\A k \in 1..n : markers'[k] = markers[k]) /\ markers'[n + 1] = m
    BY <1>2, AppendOne DEF LogInOrder
  <2> DEFINE old == {j \in DOMAIN markers : markers[j].durable /\ markers[j].index < limit}
             new == {j \in DOMAIN markers' : markers'[j].durable /\ markers'[j].index < limit}
  <2>3. new = old
    BY <1>2, <2>1, <2>2
  <2>4. \A k \in old : markers'[k] = markers[k]
    BY <2>1, <2>2
  <2> QED
    BY <2>3, <2>4 DEF Announced
<1> QED
  BY <1>1, <1>2

(* What is announced after a step: all that was, and the new marker.       *)
LEMMA AnnouncedNow ==
    ASSUME DatabaseInv, NEW m, stamp' = stamp + 1,
           \/ markers' = markers /\ ~m.durable
           \/ markers' = Append(markers, m) /\ m.index = stamp
    PROVE  (Announced(stamp))' = Announced(stamp) \cup IF m.durable THEN {m.op} ELSE {}
<1> USE DEF DatabaseInv
<1> DEFINE n == Len(markers)
           old == {j \in DOMAIN markers : markers[j].durable /\ markers[j].index < stamp}
           new == {j \in DOMAIN markers' : markers'[j].durable /\ markers'[j].index < stamp'}
<1>1. n \in Nat /\ DOMAIN markers = 1..n /\ stamp \in Nat
  BY Lengths
<1>2. \A j \in 1..n : markers[j].index \in 0..(stamp - 1)
  BY <1>1 DEF LogInOrder, MarkerTyped
<1>3. CASE markers' = markers /\ ~m.durable
  <2>1. new = {j \in 1..n : markers[j].durable /\ markers[j].index < stamp + 1}
    BY <1>1, <1>3
  <2>2. \A j \in 1..n : markers[j].index < stamp + 1 <=> markers[j].index < stamp
    BY <1>1, <1>2
  <2>3. new = old
    BY <1>1, <2>1, <2>2
  <2> QED
    BY <1>3, <2>3 DEF Announced
<1>4. CASE markers' = Append(markers, m) /\ m.index = stamp
  <2>1. /\ DOMAIN markers' = 1..(n + 1)
        /\ (\A k \in 1..n : markers'[k] = markers[k]) /\ markers'[n + 1] = m
    BY <1>4, AppendOne DEF LogInOrder
  <2>2. new = old \cup IF m.durable THEN {n + 1} ELSE {}
    BY <1>1, <1>2, <1>4, <2>1
  <2>3. \A k \in old : markers'[k] = markers[k]
    BY <1>1, <2>1
  <2> HIDE DEF new, old
  <2>4. {markers'[k].op : k \in new} = {markers[k].op : k \in old} \cup IF m.durable THEN {m.op} ELSE {}
    BY <2>1, <2>2, <2>3
  <2> QED
    BY <2>4 DEF Announced, new, old
<1> QED
  BY <1>3, <1>4

(* A step that neither calls nor marks.                                    *)
LEMMA HistoryStands ==
    ASSUME DatabaseInv, UNCHANGED <<shape, commits, floor, events, stamp, markers, acked>>,
           \A t \in Writers : pc'[t] \in {"sync", "commit", "ack"} =>
              /\ op'[t] = op[t]
              /\ pc'[t] = pc[t] \/ (pc'[t] = "ack" /\ pc[t] = "commit")
    PROVE  HistoryTrue'
<1> USE DEF DatabaseInv
<1>1. /\ Writers' = Writers /\ (\A o : Durable(o)' <=> Durable(o))
      /\ (\A o, n : OnDisk(o, n)' <=> OnDisk(o, n))
      /\ (\A limit : Announced(limit)' = Announced(limit))
  BY DEF Writers, Durable, OnDisk, Announced
<1>2. Pending'
  BY <1>1 DEF HistoryTrue, Pending
<1>3. \A x : CallTrue(x)' <=> CallTrue(x)
  BY <1>1 DEF CallTrue
<1>4. IsSequence(events)' /\ IsSequence(commits)'
  BY DEF HistoryTrue, IsSequence
<1> QED
  BY <1>1, <1>2, <1>3, <1>4 DEF HistoryTrue

(* A step that writes a marker: an ack of a durable operation follows its  *)
(* sync.                                                                   *)
LEMMA HistoryMarks ==
    ASSUME DatabaseInv, UNCHANGED <<shape, commits, floor, events, op>>, stamp' = stamp + 1,
           NEW m, markers' = Append(markers, m), m.index = stamp,
           acked' = acked \cup (IF m.durable THEN {m.op} ELSE {}),
           m.durable => OnDisk(m.op, floor),
           \A t \in Writers : pc'[t] \in {"sync", "commit", "ack"} => pc'[t] = pc[t]
    PROVE  HistoryTrue'
<1> USE DEF DatabaseInv
<1>1. /\ Writers' = Writers /\ (\A o : Durable(o)' <=> Durable(o))
      /\ (\A o, n : OnDisk(o, n)' <=> OnDisk(o, n)) /\ stamp \in Nat
  BY Lengths DEF Writers, Durable, OnDisk
<1>2. Pending'
  BY <1>1 DEF HistoryTrue, Pending
<1>3. Announced(stamp)' = acked'
  BY AnnouncedNow DEF HistoryTrue
<1>4. \A o \in acked' : OnDisk(o, floor)'
  BY <1>1 DEF HistoryTrue
<1>5. \A i \in DOMAIN events : CallTrue(events[i])'
  <2> SUFFICES ASSUME NEW x, CallTrue(x) PROVE CallTrue(x)'
    BY DEF HistoryTrue
  <2>1. x.stamp \in 0..stamp
    BY <1>1 DEF CallTrue
  <2>2. Announced(x.stamp)' = Announced(x.stamp)
    BY <2>1, AnnouncedStays
  <2> QED
    BY <1>1, <2>2 DEF CallTrue
<1> QED
  BY <1>1, <1>2, <1>3, <1>4, <1>5 DEF HistoryTrue, Pending, IsSequence

(* A step that makes a call, which may commit or sync.                     *)
LEMMA HistoryCalls ==
    ASSUME DatabaseInv, UNCHANGED <<shape, markers, acked>>, stamp' = stamp + 1,
           NEW e, events' = Append(events, e),
           e.stamp = stamp, e.floor = floor, e.acked = acked, e.made <=> phase = "run",
           phase \in {"create", "run"},
           NEW c, commits' = commits \/ commits' = Append(commits, c),
           floor' \in floor..Len(commits'), Pending'
    PROVE  HistoryTrue'
<1> USE DEF DatabaseInv
<1> DEFINE n == Len(events)
<1>1. /\ n \in Nat /\ DOMAIN events = 1..n /\ stamp \in Nat
      /\ Len(commits) \in Nat /\ floor \in 0..Len(commits)
  BY Lengths DEF TypeOK
<1>2. /\ IsSequence(events') /\ DOMAIN events' = 1..(n + 1)
      /\ (\A k \in 1..n : events'[k] = events[k]) /\ events'[n + 1] = e
  BY AppendOne DEF HistoryTrue
<1>3. IsSequence(commits')
  <2>1. IsSequence(commits) /\ IsSequence(Append(commits, c))
    BY AppendOne DEF HistoryTrue
  <2> QED
    BY <2>1
<1>4. \A o, k : k \in 0..floor /\ OnDisk(o, k) => OnDisk(o, k)' /\ (OnDisk(o, floor))'
  <2> SUFFICES ASSUME NEW o, NEW k \in 0..floor, OnDisk(o, k)
               PROVE  OnDisk(o, k)' /\ (OnDisk(o, floor))'
    OBVIOUS
  <2>1. k \in 0..Len(commits) /\ floor' \in Int /\ k <= floor'
    BY <1>1
  <2>2. OnDisk(o, k)'
    BY <2>1, CommitsStay
  <2> QED
    BY <2>1, <2>2 DEF OnDisk
<1>5. (Announced(stamp))' = Announced(stamp) /\ \A l \in 0..stamp : Announced(l)' = Announced(l)
  <2>1. (Announced(stamp))' = Announced(stamp) \cup {}
    <3>1. \E m : m = [durable |-> FALSE, op |-> 0]
      OBVIOUS
    <3>2. PICK m : ~m.durable
      BY <3>1
    <3> QED
      BY <3>2, AnnouncedNow
  <2> QED
    BY <2>1 DEF Announced
<1>6. ~e.made => acked = {}
  <2>1. phase = "create" => DOMAIN markers = {}
    BY DEF Phases
  <2> QED
    BY <2>1 DEF HistoryTrue, Announced
<1>7. ASSUME NEW x, CallTrue(x) PROVE CallTrue(x)'
  <2>1. /\ x.stamp \in 0..stamp /\ x.stamp \in 0..(stamp' - 1)
        /\ x.floor \in 0..floor /\ x.floor \in 0..floor'
    BY <1>1, <1>7 DEF CallTrue
  <2> QED
    BY <1>4, <1>5, <1>7, <2>1 DEF CallTrue
<1>8. CallTrue(e)'
  <2>1. e.acked = Announced(stamp) /\ \A o \in e.acked : OnDisk(o, floor)
    BY DEF HistoryTrue
  <2>2. e.stamp \in 0..stamp /\ e.stamp \in 0..(stamp' - 1) /\ e.floor \in 0..floor'
    BY <1>1
  <2> QED
    BY <1>1, <1>4, <1>5, <1>6, <2>1, <2>2 DEF CallTrue
<1>9. acked' = (Announced(stamp))' /\ \A o \in acked' : (OnDisk(o, floor))'
  BY <1>1, <1>4, <1>5 DEF HistoryTrue
<1>10. \A i \in DOMAIN events' : CallTrue(events[i])'
  <2> SUFFICES ASSUME NEW i \in 1..(n + 1) PROVE CallTrue(events[i])'
    BY <1>2
  <2>1. CASE i \in 1..n
    <3>1. CallTrue(events[i])
      BY <1>1, <2>1 DEF HistoryTrue
    <3>2. events'[i] = events[i]
      BY <1>2, <2>1
    <3> QED
      BY <1>7, <3>1, <3>2
  <2>2. CASE i = n + 1
    BY <1>2, <1>8, <2>2
  <2> QED
    BY <1>1, <2>1, <2>2
<1> QED
  BY <1>2, <1>3, <1>9, <1>10 DEF HistoryTrue

-----------------------------------------------------------------------------
(* Step by step.                                                           *)

LEMMA Starts == Init => DatabaseInv
<1> SUFFICES ASSUME Init PROVE DatabaseInv
  OBVIOUS
<1> USE DEF Init
<1>1. IsSequence(<<>>) /\ Len(<<>>) = 0 /\ DOMAIN <<>> = {}
  BY DEF IsSequence
<1>2. Writers \subseteq Nat \ {0}
  BY WritersAre
<1>3. TypeOK
  BY <1>1, <1>2 DEF TypeOK
<1>4. OperationsApart
  BY DEF OperationsApart, Busy, Places
<1>5. LogInOrder
  BY <1>1 DEF LogInOrder, Busy
<1>6. HistoryTrue
  <2>1. acked = Announced(stamp)
    BY <1>1 DEF Announced
  <2>2. Pending
    BY DEF Pending
  <2> QED
    BY <1>1, <2>1, <2>2 DEF HistoryTrue
<1>7. Phases
  BY DEF Phases, Busy
<1> QED
  BY <1>3, <1>4, <1>5, <1>6, <1>7 DEF DatabaseInv

(* A call of the program's own: opening and closing the database.          *)
LEMMA OwnCallKeeps ==
    ASSUME DatabaseInv, CreateDatabase \/ CloseDatabase
    PROVE  DatabaseInv'
<1> USE DEF DatabaseInv
<1> DEFINE record(call) == [stamp |-> stamp, call |-> call, floor |-> floor,
                            started |-> Len(commits), made |-> phase = "run", acked |-> acked]
<1>1. /\ UNCHANGED <<shape, next, pc, op, writer, commits, floor, acked, markers, crash>>
      /\ stamp' = stamp + 1 /\ phase \in {"create", "run"}
      /\ phase' \in {phase, "run"}
      /\ \E call : events' = Append(events, record(call))
  BY DEF CreateDatabase, CloseDatabase, Traced
<1>2. PICK call : events' = Append(events, record(call))
  BY <1>1
<1>3. /\ Len(events') = Len(events) + 1 /\ Len(events) \in Nat /\ Len(markers) \in Nat
      /\ stamp \in Nat /\ Len(commits) \in Nat
      /\ DOMAIN events' = 1..(Len(events) + 1) /\ DOMAIN events = 1..Len(events)
  BY <1>2, Lengths, AppendOne DEF HistoryTrue
<1>4. TypeOK'
  BY <1>1, <1>3 DEF TypeOK, Writers
<1>5. OperationsApart'
  BY <1>1 DEF OperationsApart, Writers
<1>6. LogInOrder'
  BY <1>1, <1>3, LogStands DEF OperationsApart
<1>7. HistoryTrue'
  <2>1. Pending'
    BY <1>1 DEF HistoryTrue, Pending, Writers, Durable, OnDisk
  <2>2. \E e : /\ events' = Append(events, e)
               /\ e.stamp = stamp /\ e.floor = floor /\ e.acked = acked
               /\ (e.made <=> phase = "run")
    <3>1. /\ record(call).stamp = stamp /\ record(call).floor = floor
          /\ record(call).acked = acked /\ (record(call).made <=> phase = "run")
      OBVIOUS
    <3> HIDE DEF record
    <3> QED
      BY <1>2, <3>1
  <2>3. floor' \in floor..Len(commits')
    BY <1>1, <1>3 DEF TypeOK
  <2> QED
    BY <1>1, <2>1, <2>2, <2>3, HistoryCalls
<1>8. Phases'
  BY <1>1, <1>3 DEF Phases, Writers
<1> QED
  BY <1>4, <1>5, <1>6, <1>7, <1>8

(* Exit, the crash and what comes after move nothing but the phase.        *)
LEMMA EndKeeps ==
    ASSUME DatabaseInv, Exit \/ Crash \/ UNCHANGED vars
    PROVE  DatabaseInv'
<1> USE DEF DatabaseInv
<1>1. /\ UNCHANGED <<shape, next, pc, op, writer, commits, floor, acked, stamp, events, markers>>
      /\ \/ phase' = phase /\ crash' = crash
         \/ /\ phase' \in {"aborted", "traced"} /\ \A t \in Writers : pc[t] \in {"done", "failed"}
            /\ phase = "run"
         \/ /\ phase = "traced" /\ phase' = "judged"
            /\ crash'.crashPoint \in DOMAIN events /\ crash'.image \in Images
  BY DEF Exit, Crash, vars
<1>2. TypeOK'
  BY <1>1 DEF TypeOK, Writers
<1>3. OperationsApart'
  BY <1>1 DEF OperationsApart, Writers
<1>4. LogInOrder'
  BY <1>1, LogStands, Lengths DEF OperationsApart
<1>5. HistoryTrue'
  BY <1>1, HistoryStands
<1>6. Phases'
  BY <1>1 DEF Phases, Writers, Busy, Images
<1> QED
  BY <1>2, <1>3, <1>4, <1>5, <1>6

(* A writer takes the next operation, or finds that there is none left.    *)
LEMMA TakeKeeps ==
    ASSUME DatabaseInv, NEW t \in Writers, TakeOperation(t)
    PROVE  DatabaseInv'
<1> USE DEF DatabaseInv
<1>1. /\ UNCHANGED <<shape, writer, commits, floor, acked, stamp, events, markers, phase, crash>>
      /\ op' = [op EXCEPT ![t] = next] /\ next' = next + 1
      /\ pc[t] = "next" /\ phase = "run"
      /\ \/ next > NumOperations /\ pc' = [pc EXCEPT ![t] = "done"]
         \/ ~(next > NumOperations) /\ pc' = [pc EXCEPT ![t] = "begin"]
  BY DEF TakeOperation
<1>2. /\ pc \in [Writers -> Places] /\ op \in [Writers -> Nat] /\ next \in Nat \ {0}
      /\ Writers' = Writers /\ stamp \in Nat
  BY <1>1, Lengths DEF OperationsApart, Writers
<1>3. next \in Operations \/ next > NumOperations
  BY <1>2, DatabaseAssumption DEF Operations
<1>4. /\ op'[t] = next /\ pc'[t] \in {"done", "begin"} /\ (pc'[t] = "begin" => next \in Operations)
      /\ \A u \in Writers \ {t} : op'[u] = op[u] /\ pc'[u] = pc[u]
  BY <1>1, <1>2, <1>3
<1>5. TypeOK'
  <2>1. \A u \in Writers : pc'[u] \in {"write", "sync", "commit"} <=> pc[u] \in {"write", "sync", "commit"}
    BY <1>1, <1>4
  <2> QED
    BY <1>1, <1>2, <2>1 DEF TypeOK
<1>6. OperationsApart'
  <2>1. pc' \in [Writers -> Places] /\ op' \in [Writers -> Nat] /\ next' \in Nat \ {0}
    BY <1>1, <1>2 DEF Places, Busy
  <2>2. \A u \in Writers : op'[u] < next'
    BY <1>1, <1>2, <1>4 DEF OperationsApart
  <2>3. \A u, v \in Writers : u # v /\ op'[u] = op'[v] => op'[u] = 0
    BY <1>1, <1>2, <1>4 DEF OperationsApart
  <2>4. \A u \in Writers : pc'[u] \in Busy => op'[u] \in Operations
    BY <1>4 DEF OperationsApart, Busy
  <2> QED
    BY <1>2, <2>1, <2>2, <2>3, <2>4 DEF OperationsApart
<1>7. LogInOrder'
  <2>1. \A u \in Writers : pc'[u] \in Busy =>
           \/ op'[u] = op[u] /\ pc[u] \in Busy /\ (pc'[u] = "begin" <=> pc[u] = "begin")
           \/ op'[u] = next /\ pc'[u] = "begin"
    BY <1>4 DEF Busy
  <2> QED
    BY <1>1, <1>2, <2>1, LogStands
<1>8. HistoryTrue'
  <2>1. \A u \in Writers : pc'[u] \in {"sync", "commit", "ack"} => op'[u] = op[u] /\ pc'[u] = pc[u]
    BY <1>4
  <2> QED
    BY <1>1, <2>1, HistoryStands
<1>9. Phases'
  BY <1>1, <1>2, <1>4 DEF Phases, Images
<1> QED
  BY <1>5, <1>6, <1>7, <1>8, <1>9

(* The steps of a transaction that neither call nor mark: it begins,       *)
(* commits or fails.                                                       *)
LEMMA TransactionKeeps ==
    ASSUME DatabaseInv, NEW t \in Writers, BeginWrite(t) \/ Commit(t) \/ Fail(t)
    PROVE  DatabaseInv'
<1> USE DEF DatabaseInv
<1>1. /\ UNCHANGED <<shape, next, op, commits, floor, acked, stamp, events, markers, phase, crash>>
      /\ \/ pc[t] = "lock" /\ writer = 0 /\ writer' = t /\ pc' = [pc EXCEPT ![t] = "write"]
         \/ pc[t] = "commit" /\ writer' = 0 /\ pc' = [pc EXCEPT ![t] = "ack"]
         \/ pc[t] \in {"write", "sync"} /\ writer' = 0 /\ pc' = [pc EXCEPT ![t] = "failed"]
  BY DEF BeginWrite, Commit, Fail
<1>2. /\ pc \in [Writers -> Places] /\ Writers' = Writers /\ stamp \in Nat
      /\ 0 \notin Writers /\ next \in Nat
  BY <1>1, Lengths, WritersAre DEF OperationsApart, Writers, TypeOK
<1>3. /\ \A u \in Writers \ {t} : pc'[u] = pc[u]
      /\ \/ pc[t] = "lock" /\ pc'[t] = "write"
         \/ pc[t] = "commit" /\ pc'[t] = "ack"
         \/ pc'[t] = "failed"
  BY <1>1, <1>2
<1>4. TypeOK'
  <2>1. \A u \in Writers : pc'[u] \in {"write", "sync", "commit"} <=> writer' = u
    BY <1>1, <1>2, <1>3 DEF TypeOK
  <2> QED
    BY <1>1, <1>2, <2>1 DEF TypeOK
<1>5. OperationsApart'
  BY <1>1, <1>2, <1>3 DEF OperationsApart, Places, Busy
<1>6. LogInOrder'
  <2>1. \A u \in Writers : pc'[u] \in Busy =>
           pc[u] \in Busy /\ (pc'[u] = "begin" <=> pc[u] = "begin")
    BY <1>3 DEF Busy
  <2> QED
    BY <1>1, <1>2, <2>1, LogStands
<1>7. HistoryTrue'
  <2>1. \A u \in Writers : pc'[u] \in {"sync", "commit", "ack"} =>
           pc'[u] = pc[u] \/ (pc'[u] = "ack" /\ pc[u] = "commit")
    BY <1>3
  <2> QED
    BY <1>1, <2>1, HistoryStands
<1>8. Phases'
  BY <1>1, <1>2, <1>3 DEF Phases, Images, Busy
<1> QED
  BY <1>4, <1>5, <1>6, <1>7, <1>8

(* A writer announces that it begins, or that it is done.                  *)
LEMMA MarkKeeps ==
    ASSUME DatabaseInv, NEW t \in Writers, MarkBegin(t) \/ MarkAck(t)
    PROVE  DatabaseInv'
<1> USE DEF DatabaseInv
<1>1. /\ UNCHANGED <<shape, next, op, writer, commits, floor, events, phase, crash>>
      /\ stamp' = stamp + 1
  BY DEF MarkBegin, MarkAck, Marked
<1>2. \E m : /\ markers' = Append(markers, m)
             /\ m.index = stamp /\ m.op = op[t] /\ m.key = op[t]
             /\ acked' = acked \cup (IF m.durable THEN {m.op} ELSE {})
             /\ \/ /\ pc[t] = "begin" /\ m.phase = "begin" /\ ~m.durable
                   /\ pc' = [pc EXCEPT ![t] = "lock"]
                \/ /\ pc[t] = "ack" /\ m.phase = "ack" /\ m.digest = DIGEST
                   /\ (m.durable <=> Durable(op[t]))
                   /\ pc' = [pc EXCEPT ![t] = "next"]
  <2> DEFINE record(text, digest, durable) ==
               [index |-> stamp, phase |-> text, op |-> op[t], key |-> op[t],
                digest |-> digest, durable |-> durable]
  <2>0. \A text, digest, durable :
           LET m == record(text, digest, durable)
           IN  /\ m.index = stamp /\ m.phase = text /\ m.op = op[t] /\ m.key = op[t]
               /\ m.digest = digest /\ m.durable = durable
    OBVIOUS
  <2>1. CASE MarkBegin(t)
    <3>1. \E digest : /\ markers' = Append(markers, record("begin", digest, FALSE))
                      /\ pc[t] = "begin" /\ acked' = acked /\ pc' = [pc EXCEPT ![t] = "lock"]
      BY <2>1, Zenon DEF MarkBegin, Marked
    <3> HIDE DEF record
    <3>2. PICK m : /\ markers' = Append(markers, m) /\ m.index = stamp /\ m.op = op[t] /\ m.key = op[t]
                   /\ pc[t] = "begin" /\ m.phase = "begin" /\ m.durable = FALSE
                   /\ acked' = acked /\ pc' = [pc EXCEPT ![t] = "lock"]
      BY <2>0, <3>1 DEF record
    <3> QED
      BY <3>2
  <2>2. CASE MarkAck(t)
    <3>1. /\ markers' = Append(markers, record("ack", DIGEST, Durable(op[t])))
          /\ pc[t] = "ack" /\ pc' = [pc EXCEPT ![t] = "next"]
          /\ acked' = IF Durable(op[t]) THEN acked \cup {op[t]} ELSE acked
      BY <2>2, Zenon DEF MarkAck, Marked
    <3>2. PICK m : m = record("ack", DIGEST, Durable(op[t]))
      OBVIOUS
    <3>3. /\ m.index = stamp /\ m.phase = "ack" /\ m.op = op[t] /\ m.key = op[t]
          /\ m.digest = DIGEST /\ (m.durable <=> Durable(op[t]))
      BY <3>2
    <3> QED
      BY <3>1, <3>2, <3>3
  <2> QED
    BY <2>1, <2>2
<1>3. PICK m : /\ markers' = Append(markers, m)
               /\ m.index = stamp /\ m.op = op[t] /\ m.key = op[t]
               /\ acked' = acked \cup (IF m.durable THEN {m.op} ELSE {})
               /\ \/ /\ pc[t] = "begin" /\ m.phase = "begin" /\ ~m.durable
                     /\ pc' = [pc EXCEPT ![t] = "lock"]
                  \/ /\ pc[t] = "ack" /\ m.phase = "ack" /\ m.digest = DIGEST
                     /\ (m.durable <=> Durable(op[t]))
                     /\ pc' = [pc EXCEPT ![t] = "next"]
  BY <1>2
<1>4. /\ pc \in [Writers -> Places] /\ Writers' = Writers /\ stamp \in Nat /\ op[t] \in Operations
      /\ Len(markers') = Len(markers) + 1 /\ Len(events) \in Nat /\ Len(markers) \in Nat
      /\ phase = "run"
  BY <1>1, <1>3, Lengths, AppendOne DEF OperationsApart, Writers, LogInOrder, Phases, Busy
<1>5. /\ \A u \in Writers \ {t} : pc'[u] = pc[u]
      /\ pc[t] \in {"begin", "ack"} /\ pc'[t] \in {"lock", "next"} /\ pc' \in [Writers -> Places]
      /\ pc'[t] = "lock" => pc[t] = "begin"
  BY <1>3, <1>4 DEF Places, Busy
<1>6. TypeOK'
  <2>1. \A u \in Writers : pc'[u] \in {"write", "sync", "commit"} <=> pc[u] \in {"write", "sync", "commit"}
    BY <1>5
  <2> QED
    BY <1>1, <1>3, <1>4, <2>1 DEF TypeOK
<1>7. OperationsApart'
  BY <1>1, <1>4, <1>5 DEF OperationsApart, Busy
<1>8. LogInOrder'
  BY <1>1, <1>3, LogGrows
<1>9. HistoryTrue'
  <2>1. m.durable => OnDisk(m.op, floor)
    BY <1>3 DEF HistoryTrue, Pending
  <2>2. \A u \in Writers : pc'[u] \in {"sync", "commit", "ack"} => pc'[u] = pc[u]
    BY <1>5
  <2> QED
    BY <1>1, <1>3, <2>1, <2>2, HistoryMarks
<1>10. Phases'
  BY <1>1, <1>4, <1>5 DEF Phases, Images
<1> QED
  BY <1>6, <1>7, <1>8, <1>9, <1>10

(* A commit is written, and synced.                                        *)
LEMMA WriteKeeps ==
    ASSUME DatabaseInv, NEW t \in Writers, WriteCommit(t) \/ SyncCommit(t)
    PROVE  DatabaseInv'
<1> USE DEF DatabaseInv
<1> DEFINE record(call) == [stamp |-> stamp, call |-> call, floor |-> floor,
                            started |-> Len(commits), made |-> phase = "run", acked |-> acked]
           o == op[t]
<1>1. /\ UNCHANGED <<shape, next, op, writer, acked, markers, phase, crash>>
      /\ stamp' = stamp + 1
      /\ \E call : events' = Append(events, record(call))
      /\ \/ /\ pc[t] = "write" /\ commits' = Append(commits, o) /\ floor' = floor
            /\ pc' = [pc EXCEPT ![t] = IF Durable(o) THEN "sync" ELSE "commit"]
         \/ /\ pc[t] = "sync" /\ commits' = commits /\ floor' = Len(commits)
            /\ pc' = [pc EXCEPT ![t] = "commit"]
  BY DEF WriteCommit, SyncCommit, Traced
<1>2. PICK call : events' = Append(events, record(call))
  BY <1>1
<1>3. /\ Len(events') = Len(events) + 1 /\ Len(events) \in Nat /\ Len(markers) \in Nat
      /\ stamp \in Nat /\ Len(commits) \in Nat /\ floor \in 0..Len(commits)
      /\ DOMAIN events' = 1..(Len(events) + 1) /\ DOMAIN events = 1..Len(events)
  BY <1>2, Lengths, AppendOne DEF HistoryTrue, TypeOK
<1>4. /\ pc \in [Writers -> Places] /\ Writers' = Writers /\ phase = "run" /\ next \in Nat
      /\ \A p : Durable(p)' <=> Durable(p)
  BY <1>1 DEF OperationsApart, Writers, Phases, Busy, Durable
<1>5. /\ \A u \in Writers \ {t} : pc'[u] = pc[u]
      /\ pc[t] \in {"write", "sync"} /\ pc'[t] \in {"sync", "commit"} /\ pc' \in [Writers -> Places]
      /\ pc[t] = "write" => pc'[t] = IF Durable(o) THEN "sync" ELSE "commit"
      /\ pc[t] = "sync" => pc'[t] = "commit"
  BY <1>1, <1>4 DEF Places, Busy
<1> HIDE DEF record
<1>6. floor' \in floor..Len(commits') /\ floor' \in 0..Len(commits') /\ Len(commits') \in Nat
  <2>1. commits' = Append(commits, o) => Len(commits') = Len(commits) + 1
    BY AppendOne DEF HistoryTrue
  <2> QED
    BY <1>1, <1>3, <2>1
<1>7. TypeOK'
  <2>1. \A u \in Writers : pc'[u] \in {"write", "sync", "commit"} <=> pc[u] \in {"write", "sync", "commit"}
    BY <1>5
  <2> QED
    BY <1>1, <1>3, <1>4, <1>6, <2>1 DEF TypeOK
<1>8. OperationsApart'
  BY <1>1, <1>4, <1>5 DEF OperationsApart, Busy
<1>9. LogInOrder'
  <2>1. \A u \in Writers : pc'[u] \in Busy =>
           pc[u] \in Busy /\ (pc'[u] = "begin" <=> pc[u] = "begin")
    BY <1>5 DEF Busy
  <2> QED
    BY <1>1, <1>3, <1>4, <2>1, LogStands
<1>10. Pending'
  <2> SUFFICES ASSUME NEW u \in Writers
               PROVE  /\ pc'[u] = "sync" => OnDisk(op[u], Len(commits))'
                      /\ pc'[u] \in {"commit", "ack"} /\ Durable(op[u]) => OnDisk(op[u], floor)'
    BY <1>1, <1>4 DEF Pending
  <2>1. \A p : /\ OnDisk(p, Len(commits)) => OnDisk(p, Len(commits))'
               /\ OnDisk(p, floor) => OnDisk(p, floor)'
    <3> SUFFICES ASSUME NEW p
                 PROVE  /\ OnDisk(p, Len(commits)) => OnDisk(p, Len(commits))'
                        /\ OnDisk(p, floor) => OnDisk(p, floor)'
      OBVIOUS
    <3>1. \A k \in 1..Len(commits) : commits'[k] = commits[k]
      BY <1>1, AppendOne DEF HistoryTrue
    <3>2. Len(commits) <= Len(commits') /\ floor <= floor' /\ floor' \in Nat
      <4>1. commits' = Append(commits, o) => Len(commits') = Len(commits) + 1
        BY AppendOne DEF HistoryTrue
      <4> QED
        BY <1>1, <1>3, <4>1
    <3>3. /\ 1..Len(commits) \subseteq 1..Len(commits') /\ 1..floor \subseteq 1..floor'
          /\ 1..floor \subseteq 1..Len(commits)
      BY <1>3, <1>6, <3>2
    <3>4. OnDisk(p, Len(commits)) => OnDisk(p, Len(commits))'
      BY <3>1, <3>3 DEF OnDisk
    <3>5. OnDisk(p, floor) => OnDisk(p, floor)'
      BY <3>1, <3>3 DEF OnDisk
    <3> QED
      BY <3>4, <3>5
  <2>2. CASE u # t
    BY <1>1, <1>5, <2>1, <2>2 DEF HistoryTrue, Pending
  <2>3. CASE u = t /\ pc[t] = "write"
    <3>1. commits' = Append(commits, o)
      BY <1>1, <2>3
    <3>2. Len(commits') = Len(commits) + 1 /\ commits'[Len(commits) + 1] = o
      BY <3>1, AppendOne DEF HistoryTrue
    <3>3. OnDisk(o, Len(commits))'
      BY <1>1, <1>3, <3>2 DEF OnDisk
    <3> QED
      BY <1>5, <2>3, <3>3
  <2>4. CASE u = t /\ pc[t] = "sync"
    <3>1. OnDisk(o, Len(commits)) /\ floor' = Len(commits) /\ commits' = commits
      BY <1>1, <2>4 DEF HistoryTrue, Pending
    <3>2. OnDisk(o, floor)'
      BY <1>1, <3>1 DEF OnDisk
    <3> QED
      BY <1>5, <2>4, <3>2
  <2> QED
    BY <1>5, <2>2, <2>3, <2>4
<1>11. HistoryTrue'
  <2>1. \E e : /\ events' = Append(events, e)
               /\ e.stamp = stamp /\ e.floor = floor /\ e.acked = acked
               /\ (e.made <=> phase = "run")
    <3>1. /\ record(call).stamp = stamp /\ record(call).floor = floor
          /\ record(call).acked = acked /\ (record(call).made <=> phase = "run")
      BY DEF record
    <3> QED
      BY <1>2, <3>1
  <2>2. \E c : commits' = commits \/ commits' = Append(commits, c)
    BY <1>1
  <2> HIDE DEF o
  <2> QED
    BY <1>1, <1>4, <1>6, <1>10, <2>1, <2>2, HistoryCalls
<1>12. Phases'
  BY <1>1, <1>4, <1>5 DEF Phases, Busy
<1> QED
  BY <1>7, <1>8, <1>9, <1>11, <1>12

LEMMA DatabaseInvHolds == Spec => []DatabaseInv
<1>1. DatabaseInv /\ [Next]_vars => DatabaseInv'
  <2> SUFFICES ASSUME DatabaseInv, [Next]_vars PROVE DatabaseInv'
    OBVIOUS
  <2>1. CASE CreateDatabase \/ CloseDatabase
    BY <2>1, OwnCallKeeps
  <2>2. CASE Exit \/ Crash \/ Ended \/ UNCHANGED vars
    BY <2>2, EndKeeps DEF Ended
  <2>3. ASSUME NEW t \in Writers, Write(t) \/ Fail(t) PROVE DatabaseInv'
    <3>1. CASE TakeOperation(t)
      BY <3>1, TakeKeeps
    <3>2. CASE BeginWrite(t) \/ Commit(t) \/ Fail(t)
      BY <3>2, TransactionKeeps
    <3>3. CASE MarkBegin(t) \/ MarkAck(t)
      BY <3>3, MarkKeeps
    <3>4. CASE WriteCommit(t) \/ SyncCommit(t)
      BY <3>4, WriteKeeps
    <3> QED
      BY <2>3, <3>1, <3>2, <3>3, <3>4 DEF Write
  <2> QED
    BY <2>1, <2>2, <2>3 DEF Next
<1> QED
  BY <1>1, Starts, PTL DEF Spec

-----------------------------------------------------------------------------
(* What the log says.                                                      *)

LEMMA MaxOfOne ==
    ASSUME NEW b \in Int
    PROVE  Max({b}) = b
BY DEF Max

(* An operation in the log has one begin and at most one ack.              *)
LEMMA OneEach ==
    ASSUME DatabaseInv, NEW k \in DOMAIN markers
    PROVE  LET o == markers[k].op
           IN  /\ \E b \in DOMAIN markers : /\ Begins(markers, o) = {b} /\ Max(Begins(markers, o)) = b
                                            /\ markers[b].op = o /\ markers[b].phase = "begin"
               /\ \/ Acks(markers, o) = {}
                  \/ \E a \in DOMAIN markers : /\ Acks(markers, o) = {a} /\ Max(Acks(markers, o)) = a
                                               /\ markers[a].op = o /\ markers[a].phase = "ack"
               /\ markers[k].phase = "ack" => Acks(markers, o) = {k}
<1> USE DEF DatabaseInv
<1> DEFINE o == markers[k].op
           begins == Begins(markers, o)
           acks == Acks(markers, o)
<1>1. DOMAIN markers = 1..Len(markers) /\ Len(markers) \in Nat
  BY Lengths
<1>2. PICK b \in DOMAIN markers : markers[b].op = o /\ markers[b].phase = "begin"
  BY DEF LogInOrder, MarkerTyped
<1>3. begins = {b} /\ Max(begins) = b
  <2>1. begins = {b}
    BY <1>2 DEF LogInOrder, Begins
  <2> HIDE DEF begins
  <2>2. b \in Int
    BY <1>1
  <2> QED
    BY <2>1, <2>2, MaxOfOne
<1>4. acks = {} \/ \E a \in DOMAIN markers : /\ acks = {a} /\ Max(acks) = a
                                            /\ markers[a].op = o /\ markers[a].phase = "ack"
  <2>1. CASE acks = {}
    BY <2>1
  <2>2. CASE acks # {}
    <3>1. PICK a \in acks : TRUE
      BY <2>2
    <3>2. a \in DOMAIN markers /\ markers[a].op = o /\ markers[a].phase = "ack"
      BY <3>1 DEF Acks
    <3>3. acks = {a}
      BY <3>1, <3>2 DEF LogInOrder, Acks
    <3> HIDE DEF acks
    <3>4. Max(acks) = a
      BY <1>1, <3>2, <3>3, MaxOfOne
    <3> QED
      BY <3>2, <3>3, <3>4
  <2> QED
    BY <2>1, <2>2
<1>5. markers[k].phase = "ack" => acks = {k}
  <2> SUFFICES ASSUME markers[k].phase = "ack" PROVE acks = {k}
    OBVIOUS
  <2>1. b < k
    BY <1>2 DEF LogInOrder
  <2>2. k \in acks
    BY <1>3, <2>1 DEF Acks
  <2> HIDE DEF acks
  <2> QED
    BY <1>4, <2>2
<1> QED
  BY <1>2, <1>3, <1>4, <1>5

(* The record of an operation in the log: its begin, and its ack if there  *)
(* is one.                                                                 *)
LEMMA OneRecord ==
    ASSUME DatabaseInv, NEW k \in DOMAIN markers
    PROVE  LET o == markers[k].op
               r == AckRecord(markers, o)
           IN  /\ r.op = o /\ r.key = o
               /\ markers[k].phase = "ack" => /\ r.digest = DIGEST /\ r.acknowledgedAt = markers[k].index
                                              /\ (r.durable <=> markers[k].durable)
               /\ r.acknowledgedAt # NEVER => \E a \in DOMAIN markers : markers[a].op = o /\ markers[a].phase = "ack"
<1> USE DEF DatabaseInv
<1> DEFINE o == markers[k].op
           r == AckRecord(markers, o)
           begins == Begins(markers, o)
           acks == Acks(markers, o)
<1>1. PICK b \in DOMAIN markers : begins = {b} /\ Max(begins) = b /\ markers[b].op = o
  BY OneEach
<1>2. \E none : r = [op |-> o, key |-> markers[b].key, beganAt |-> markers[b].index,
                     digest |-> IF acks = {} THEN none ELSE markers[Max(acks)].digest,
                     acknowledgedAt |-> IF acks = {} THEN NEVER ELSE markers[Max(acks)].index,
                     durable |-> acks # {} /\ markers[Max(acks)].durable]
  <2>1. begins # {}
    BY <1>1
  <2>2. r = [op |-> o, key |-> markers[Max(begins)].key, beganAt |-> markers[Max(begins)].index,
             digest |-> IF acks = {} THEN "" ELSE markers[Max(acks)].digest,
             acknowledgedAt |-> IF acks = {} THEN NEVER ELSE markers[Max(acks)].index,
             durable |-> acks # {} /\ markers[Max(acks)].durable]
    BY <2>1, Zenon DEF AckRecord
  <2> HIDE DEF begins, acks, r, o
  <2> QED
    BY <2>2, <1>1, Zenon
<1>3. acks = {} \/ \E a \in DOMAIN markers : /\ acks = {a} /\ Max(acks) = a
                                            /\ markers[a].op = o /\ markers[a].phase = "ack"
  BY OneEach
<1>4. markers[k].phase = "ack" => acks = {k} /\ Max(acks) = k
  <2>1. markers[k].phase = "ack" => acks = {k}
    BY OneEach
  <2> HIDE DEF acks
  <2> QED
    BY <1>3, <2>1
<1>5. markers[b].key = o /\ (markers[k].phase = "ack" => markers[k].digest = DIGEST)
  BY <1>1 DEF LogInOrder, MarkerTyped
<1> HIDE DEF acks, r
<1>6. r.op = o /\ r.key = o
  BY <1>2, <1>5
<1>7. ASSUME markers[k].phase = "ack"
      PROVE  /\ r.digest = DIGEST /\ r.acknowledgedAt = markers[k].index
             /\ (r.durable <=> markers[k].durable)
  <2>1. acks # {} /\ Max(acks) = k
    BY <1>4, <1>7
  <2>2. /\ r.digest = markers[Max(acks)].digest /\ r.acknowledgedAt = markers[Max(acks)].index
        /\ r.durable = (acks # {} /\ markers[Max(acks)].durable)
    BY <1>2, <2>1
  <2>3. r.durable <=> markers[k].durable
    BY <2>1, <2>2
  <2> QED
    BY <1>5, <1>7, <2>1, <2>2, <2>3
<1>8. ASSUME r.acknowledgedAt # NEVER
       PROVE  \E a \in DOMAIN markers : markers[a].op = o /\ markers[a].phase = "ack"
  BY <1>2, <1>3, <1>8
<1> QED
  BY <1>6, <1>7, <1>8 DEF r

(* What was promised before a stamp is what was announced below it.        *)
LEMMA PromisedIsAnnounced ==
    ASSUME DatabaseInv, NEW limit
    PROVE  LET promised == PromisedBefore(ParseAckLog(markers), limit)
           IN  /\ {a.op : a \in promised} = Announced(limit)
               /\ \A a \in promised : a.key = a.op /\ a.digest = DIGEST
<1> USE DEF DatabaseInv
<1> DEFINE log == ParseAckLog(markers)
           promised == PromisedBefore(log, limit)
<1>1. ASSUME NEW a \in promised
      PROVE  /\ a.key = a.op /\ a.digest = DIGEST
             /\ a.op \in Announced(limit)
  <2>1. PICK k \in DOMAIN markers : a = AckRecord(markers, markers[k].op)
    BY DEF PromisedBefore, ParseAckLog
  <2>2. a.durable /\ a.acknowledgedAt # NEVER /\ a.acknowledgedAt < limit
    BY DEF PromisedBefore
  <2>3. PICK j \in DOMAIN markers : markers[j].op = markers[k].op /\ markers[j].phase = "ack"
    BY <2>1, <2>2, OneRecord
  <2>4. /\ a.op = markers[j].op /\ a.key = markers[j].op /\ a.digest = DIGEST
        /\ a.acknowledgedAt = markers[j].index /\ (a.durable <=> markers[j].durable)
    BY <2>1, <2>3, OneRecord
  <2> QED
    BY <2>2, <2>4 DEF Announced
<1>2. ASSUME NEW o \in Announced(limit)
      PROVE  \E a \in promised : a.op = o
  <2>1. PICK k \in DOMAIN markers : markers[k].op = o /\ markers[k].durable /\ markers[k].index < limit
    BY DEF Announced
  <2>2. markers[k].phase = "ack" /\ markers[k].index \in Nat
    <3>1. MarkerTyped(markers[k]) /\ stamp \in Nat
      BY Lengths DEF LogInOrder
    <3> QED
      BY <2>1, <3>1 DEF MarkerTyped
  <2> DEFINE a == AckRecord(markers, o)
  <2>3. a.op = o /\ a.durable /\ a.acknowledgedAt = markers[k].index
    BY <2>1, <2>2, OneRecord
  <2>4. a \in log
    BY <2>1 DEF ParseAckLog
  <2> HIDE DEF a, log
  <2>5. a \in promised
    BY <2>1, <2>2, <2>3, <2>4 DEF PromisedBefore, NEVER
  <2> QED
    BY <2>3, <2>5
<1> HIDE DEF promised
<1>3. {a.op : a \in promised} = Announced(limit)
  BY <1>1, <1>2
<1> QED
  BY <1>1, <1>3 DEF promised

-----------------------------------------------------------------------------
(* What the oracle says.                                                   *)

LEMMA ViolationIs ==
    ASSUME NEW class, NEW limit, NEW o, NEW key, NEW expected, NEW actual
    PROVE  LET v == Violation(class, limit, o, key, expected, actual)
           IN  v.violationClass = class /\ v.op = o
BY DEF Violation

(* Three answers: nothing is owed, the target does not open, or what was   *)
(* lost and the integrity check.                                           *)
LEMMA OracleSays ==
    ASSUME NEW limit, NEW log, NEW rec
    PROVE  LET promised == PromisedBefore(log, limit)
           IN  \E failed, corrupt :
                  /\ failed.violationClass = "RECOVERY_FAILED"
                  /\ corrupt.violationClass = "CORRUPT_INVARIANT"
                  /\ CheckOracle(limit, log, rec) =
                        IF promised = {} THEN {}
                        ELSE IF rec.status = "failed" THEN {failed}
                        ELSE Lost(limit, promised, rec) \cup IF rec.integrityOk THEN {} ELSE {corrupt}
<1> DEFINE promised == PromisedBefore(log, limit)
           nothing == ""
           opens == "<opens and recovers>"
           passes == "<integrity check passes>"
           fails == "<integrity check failed>"
           f == Violation("RECOVERY_FAILED", limit, NOOP, nothing, opens, "failed")
           c == Violation("CORRUPT_INVARIANT", limit, NOOP, nothing, passes, fails)
<1> HIDE DEF nothing, opens, passes, fails
<1>1. f.violationClass = "RECOVERY_FAILED" /\ c.violationClass = "CORRUPT_INVARIANT"
  BY ViolationIs
<1>2. CheckOracle(limit, log, rec) =
         IF promised = {} THEN {}
         ELSE IF rec.status = "failed" THEN {f}
         ELSE Lost(limit, promised, rec) \cup IF rec.integrityOk THEN {} ELSE {c}
  BY Zenon DEF CheckOracle, nothing, opens, passes, fails
<1> HIDE DEF f, c
<1> QED
  BY <1>1, <1>2

(* A loss is an operation promised whose value is not read back.           *)
LEMMA LostAre ==
    ASSUME NEW limit, NEW promised, NEW rec,
           \A a \in promised : a.key = a.op /\ a.digest = DIGEST
    PROVE  /\ \A v \in Lost(limit, promised, rec) : v.violationClass = "LOST_ACKED"
           /\ {v.op : v \in Lost(limit, promised, rec)} =
                 {o \in {a.op : a \in promised} : o \notin DOMAIN rec.values \/ rec.values[o] # DIGEST}
<1> DEFINE L == Lost(limit, promised, rec)
           unread == {b \in promised : ReadBack(rec, b.key) # b.digest}
           loss(a) == Violation("LOST_ACKED", limit, a.op, a.key, a.digest, ReadBack(rec, a.key))
<1>1. L = {loss(a) : a \in unread}
  BY DEF Lost
<1>2. \A a : loss(a).violationClass = "LOST_ACKED" /\ loss(a).op = a.op
  BY ViolationIs
<1>3. NOVALUE # DIGEST
  BY DEF NOVALUE, DIGEST
<1>4. \A a \in promised :
         ReadBack(rec, a.key) # a.digest <=> (a.op \notin DOMAIN rec.values \/ rec.values[a.op] # DIGEST)
  BY <1>3 DEF ReadBack
<1>5. \A a \in promised : a \in unread <=> (a.op \notin DOMAIN rec.values \/ rec.values[a.op] # DIGEST)
  BY <1>4
<1> HIDE DEF L, loss, unread
<1>6. \A v \in L : v.violationClass = "LOST_ACKED"
  BY <1>1, <1>2
<1>7. unread \subseteq promised
  BY DEF unread
<1>8. {v.op : v \in L} = {a.op : a \in unread}
  BY <1>1, <1>2
<1>9. {a.op : a \in unread} =
        {o \in {a.op : a \in promised} : o \notin DOMAIN rec.values \/ rec.values[o] # DIGEST}
  BY <1>5, <1>7
<1> QED
  BY <1>6, <1>8, <1>9 DEF L

LEMMA StatusIs ==
    ASSUME NEW image
    PROVE  RecoverDatabase(image).status \in {"opened", "failed"}
<1>1. \E none : RecoverDatabase(image) =
        IF ~image.exists
        THEN [status |-> "opened", integrityOk |-> TRUE, values |-> [k \in {} |-> none]]
        ELSE IF QueryFails(image) THEN [status |-> "failed"]
        ELSE [status |-> "opened", integrityOk |-> IntegrityOk(image),
              values |-> [k \in {o \in Operations : image.rows[o] # "none"} |-> image.rows[k]]]
  BY Zenon DEF RecoverDatabase
<1> QED
  BY <1>1

(* What the verdict is about: what was acknowledged when the last call of  *)
(* the crash point was issued.                                             *)
LEMMA OwedIsAnnounced ==
    ASSUME DatabaseInv, phase = "judged"
    PROVE  LET owed == events[crash.crashPoint].acked
               promised == PromisedBefore(ParseAckLog(markers), events[crash.crashPoint].stamp)
           IN  /\ {a.op : a \in promised} = owed
               /\ (promised = {} <=> owed = {})
               /\ \A a \in promised : a.key = a.op /\ a.digest = DIGEST
<1>1. CallTrue(events[crash.crashPoint])
  BY DEF DatabaseInv, Phases, HistoryTrue
<1> DEFINE limit == events[crash.crashPoint].stamp
           promised == PromisedBefore(ParseAckLog(markers), limit)
<1>2. /\ {a.op : a \in promised} = Announced(limit)
      /\ \A a \in promised : a.key = a.op /\ a.digest = DIGEST
  BY PromisedIsAnnounced
<1>3. events[crash.crashPoint].acked = Announced(limit)
  BY <1>1 DEF CallTrue
<1> HIDE DEF promised, limit
<1>4. promised = {} <=> Announced(limit) = {}
  BY <1>2
<1> QED
  BY <1>2, <1>3, <1>4 DEF promised, limit

-----------------------------------------------------------------------------
(* The theorems.                                                           *)

(* Types, and whoever is inside the write transaction holds it: redb's     *)
(* writers exclude each other (redb-workload/src/main.rs, begin_write).    *)
THEOREM DatabaseTypes == Spec => []TypeOK
BY DatabaseInvHolds, PTL DEF DatabaseInv

(* The oracle judges by what had been acknowledged when the crash happened *)
(* and reports exactly what is owed and not read back, although it reads a *)
(* log that goes on after the crash (acklog.ts, oracle.ts).                *)
THEOREM VerdictIsOwedAlways == Spec => []VerdictIsOwed
<1>1. ASSUME DatabaseInv PROVE VerdictIsOwed
  <2> SUFFICES ASSUME phase = "judged" PROVE VerdictIsOwed
    BY DEF VerdictIsOwed
  <2> DEFINE limit == events[crash.crashPoint].stamp
             owed == events[crash.crashPoint].acked
             rec == RecoverDatabase(crash.image)
             promised == PromisedBefore(ParseAckLog(markers), limit)
             lost == Lost(limit, promised, rec)
             missed == {o \in owed : o \notin DOMAIN rec.values \/ rec.values[o] # DIGEST}
  <2>1. /\ {a.op : a \in promised} = owed /\ (promised = {} <=> owed = {})
        /\ \A a \in promised : a.key = a.op /\ a.digest = DIGEST
    BY <1>1, OwedIsAnnounced
  <2>2. rec.status \in {"opened", "failed"}
    BY StatusIs
  <2>3. (\A v \in lost : v.violationClass = "LOST_ACKED") /\ {v.op : v \in lost} = missed
    <3> HIDE DEF promised, rec, limit, owed
    <3>1. \A v \in lost : v.violationClass = "LOST_ACKED"
      BY <2>1, LostAre
    <3>2. {v.op : v \in lost} =
             {o \in {a.op : a \in promised} : o \notin DOMAIN rec.values \/ rec.values[o] # DIGEST}
      BY <2>1, LostAre
    <3> HIDE DEF lost
    <3> QED
      BY <2>1, <3>1, <3>2
  <2>4. \E failed, corrupt :
           /\ failed.violationClass = "RECOVERY_FAILED"
           /\ corrupt.violationClass = "CORRUPT_INVARIANT"
           /\ Verdict = IF promised = {} THEN {}
                        ELSE IF rec.status = "failed" THEN {failed}
                        ELSE lost \cup IF rec.integrityOk THEN {} ELSE {corrupt}
    <3>1. Verdict = CheckOracle(limit, ParseAckLog(markers), rec)
      BY DEF Verdict
    <3> HIDE DEF limit, rec
    <3> QED
      BY <3>1, OracleSays
  <2> HIDE DEF limit, promised, lost, rec, owed
  <2>5. PICK failed, corrupt :
           /\ failed.violationClass = "RECOVERY_FAILED"
           /\ corrupt.violationClass = "CORRUPT_INVARIANT"
           /\ Verdict = IF promised = {} THEN {}
                        ELSE IF rec.status = "failed" THEN {failed}
                        ELSE lost \cup IF rec.integrityOk THEN {} ELSE {corrupt}
    BY <2>4
  <2>6. {v.op : v \in Reported("LOST_ACKED")} =
           {o \in owed : rec.status = "opened" /\ (o \notin DOMAIN rec.values \/ rec.values[o] # DIGEST)}
    <3>1. CASE promised # {} /\ rec.status = "opened"
      <4>1. Reported("LOST_ACKED") = lost
        BY <2>3, <2>5, <3>1 DEF Reported
      <4> QED
        BY <2>3, <3>1, <4>1
    <3>2. CASE promised = {} \/ rec.status = "failed"
      <4>1. Reported("LOST_ACKED") = {}
        BY <2>5, <3>2 DEF Reported
      <4> QED
        BY <2>1, <3>2, <4>1
    <3> QED
      BY <2>2, <3>1, <3>2
  <2>7. Cardinality(Reported("RECOVERY_FAILED")) = IF owed # {} /\ ~(rec.status = "opened") THEN 1 ELSE 0
    <3>1. CASE promised # {} /\ rec.status = "failed"
      <4>1. Reported("RECOVERY_FAILED") = {failed}
        BY <2>5, <3>1 DEF Reported
      <4> QED
        BY <2>1, <3>1, <4>1, FS_Singleton
    <3>2. CASE promised = {} \/ rec.status = "opened"
      <4>1. Reported("RECOVERY_FAILED") = {}
        BY <2>3, <2>5, <3>2 DEF Reported
      <4> QED
        BY <2>1, <3>2, <4>1, FS_EmptySet
    <3> QED
      BY <2>2, <3>1, <3>2
  <2>8. (Reported("CORRUPT_INVARIANT") # {}) <=> (owed # {} /\ rec.status = "opened" /\ ~rec.integrityOk)
    BY <2>1, <2>2, <2>3, <2>5 DEF Reported
  <2> QED
    BY <2>6, <2>7, <2>8 DEF VerdictIsOwed, owed, rec
<1> QED
  BY <1>1, DatabaseInvHolds, PTL

(* A database that keeps its word is never reported: a crash that leaves   *)
(* every durable commit acknowledged by then readable and checks out gives *)
(* no violation (oracle.ts, checkOracle).                                  *)
THEOREM NoFalseReportEver == Spec => []NoFalseReport
<1>1. ASSUME DatabaseInv PROVE NoFalseReport
  <2> SUFFICES ASSUME phase = "judged", LegalAt(events[crash.crashPoint], crash.image)
               PROVE  Verdict = {}
    BY DEF NoFalseReport
  <2> DEFINE e == events[crash.crashPoint]
             image == crash.image
             rec == RecoverDatabase(image)
             limit == e.stamp
             promised == PromisedBefore(ParseAckLog(markers), limit)
             lost == Lost(limit, promised, rec)
  <2>1. CallTrue(e)
    BY <1>1 DEF DatabaseInv, Phases, HistoryTrue
  <2>2. /\ {a.op : a \in promised} = e.acked /\ (promised = {} <=> e.acked = {})
        /\ \A a \in promised : a.key = a.op /\ a.digest = DIGEST
    BY <1>1, OwedIsAnnounced
  <2>3. \E failed, corrupt :
           /\ failed.violationClass = "RECOVERY_FAILED"
           /\ corrupt.violationClass = "CORRUPT_INVARIANT"
           /\ Verdict = IF promised = {} THEN {}
                        ELSE IF rec.status = "failed" THEN {failed}
                        ELSE lost \cup IF rec.integrityOk THEN {} ELSE {corrupt}
    <3>1. Verdict = CheckOracle(limit, ParseAckLog(markers), rec)
      BY DEF Verdict
    <3> HIDE DEF limit, rec
    <3> QED
      BY <3>1, OracleSays
  <2>4. CASE e.acked = {}
    <3> HIDE DEF e, promised, rec, lost
    <3> QED
      BY <2>2, <2>3, <2>4
  <2>5. CASE e.acked # {}
    <3>1. e.made
      BY <2>1, <2>5 DEF CallTrue
    <3>2. /\ image.exists /\ image.opens /\ image.reads
          /\ image.check = "passed" \/ (image.check = "repaired" /\ shape.engine = "redb")
          /\ \E n \in e.floor..(e.started + IF e.call = "pwrite" THEN 1 ELSE 0) :
                \A o \in Operations :
                   image.rows[o] = IF \E k \in 1..n : commits[k] = o THEN DIGEST ELSE "none"
      BY <3>1 DEF LegalAt
    <3>3. rec = [status |-> "opened", integrityOk |-> IntegrityOk(image),
                 values |-> [k \in {o \in Operations : image.rows[o] # "none"} |-> image.rows[k]]]
      BY <3>2, Zenon DEF RecoverDatabase, QueryFails
    <3>4. IntegrityOk(image)
      BY <3>2 DEF IntegrityOk
    <3>5. \A o \in e.acked : o \in Operations /\ image.rows[o] = DIGEST
      <4>1. PICK n \in e.floor..(e.started + IF e.call = "pwrite" THEN 1 ELSE 0) :
               \A o \in Operations :
                  image.rows[o] = IF \E k \in 1..n : commits[k] = o THEN DIGEST ELSE "none"
        BY <3>2
      <4>2. \A o \in e.acked : o \in Operations
        BY <1>1, <2>1 DEF CallTrue, Announced, DatabaseInv, LogInOrder, MarkerTyped
      <4>3. \A o \in e.acked : \E k \in 1..n : commits[k] = o
        <5>1. e.floor \in Nat /\ n \in Int /\ e.floor <= n
          <6>1. e.floor \in Nat
            BY <1>1, <2>1 DEF CallTrue, DatabaseInv, TypeOK
          <6> HIDE DEF e
          <6> QED
            BY <4>1, <6>1
        <5>2. \A o \in e.acked : \E k \in 1..e.floor : commits[k] = o
          BY <2>1 DEF CallTrue, OnDisk
        <5> HIDE DEF e
        <5> QED
          BY <5>1, <5>2
      <4> QED
        BY <4>1, <4>2, <4>3
    <3>6. lost = {}
      <4>1. \A o \in e.acked : o \in DOMAIN rec.values /\ rec.values[o] = DIGEST
        <5>1. DIGEST # "none"
          BY DEF DIGEST
        <5> QED
          BY <3>3, <3>5, <5>1
      <4> HIDE DEF e, promised, rec
      <4>2. {v.op : v \in lost} = {}
        BY <2>2, <4>1, LostAre
      <4> QED
        BY <4>2
    <3>7. rec.status = "opened" /\ rec.integrityOk
      BY <3>3, <3>4
    <3> HIDE DEF e, promised, rec, lost
    <3> QED
      BY <2>3, <3>6, <3>7
  <2> QED
    BY <2>4, <2>5
<1> QED
  BY <1>1, DatabaseInvHolds, PTL

(* No later marker takes a promise back: an acknowledged record stays in   *)
(* the log as it is (acklog.ts, parseAckLog).                              *)
THEOREM PromisesStandAlways == Spec => PromisesStand
<1>1. DatabaseInv /\ [Next]_vars =>
        [\A a \in ParseAckLog(markers) : a.acknowledgedAt # NEVER => a \in ParseAckLog(markers')]_vars
  <2> SUFFICES ASSUME DatabaseInv, Next, NEW a \in ParseAckLog(markers), a.acknowledgedAt # NEVER
               PROVE  a \in ParseAckLog(markers')
    OBVIOUS
  <2> USE DEF DatabaseInv
  <2> DEFINE n == Len(markers)
  <2>1. DOMAIN markers = 1..n /\ n \in Nat
    BY Lengths
  <2>2. PICK k \in DOMAIN markers : a = AckRecord(markers, markers[k].op)
    BY DEF ParseAckLog
  <2> DEFINE o == markers[k].op
  <2>3. PICK l \in DOMAIN markers : markers[l].op = o /\ markers[l].phase = "ack"
    BY <2>2, OneRecord
  <2>4. \/ markers' = markers
        \/ \E m : markers' = Append(markers, m) /\ m.op # o
    <3>1. CASE CreateDatabase \/ CloseDatabase \/ Exit \/ Crash \/ Ended
      BY <3>1 DEF CreateDatabase, CloseDatabase, Exit, Crash, Ended, vars
    <3>2. ASSUME NEW t \in Writers, Write(t) \/ Fail(t)
          PROVE  \/ markers' = markers
                 \/ \E m : markers' = Append(markers, m) /\ m.op # o
      <4>1. CASE TakeOperation(t) \/ BeginWrite(t) \/ WriteCommit(t) \/ SyncCommit(t) \/ Commit(t) \/ Fail(t)
        BY <4>1 DEF TakeOperation, BeginWrite, WriteCommit, SyncCommit, Commit, Fail
      <4>2. CASE MarkBegin(t) \/ MarkAck(t)
        <5>1. pc[t] \in Busy /\ \E text, digest, durable : Marked(op[t], text, digest, durable)
          BY <4>2, Zenon DEF MarkBegin, MarkAck, Busy
        <5>2. \E m : markers' = Append(markers, m) /\ m.op = op[t]
          BY <5>1 DEF Marked
        <5>3. o # op[t]
          BY <2>3, <5>1 DEF LogInOrder
        <5> QED
          BY <5>2, <5>3
      <4> QED
        BY <3>2, <4>1, <4>2 DEF Write
    <3> QED
      BY <3>1, <3>2 DEF Next
  <2>5. CASE markers' = markers
    BY <2>5
  <2>6. ASSUME NEW m, markers' = Append(markers, m), m.op # o
        PROVE  a \in ParseAckLog(markers')
    <3>1. /\ DOMAIN markers' = 1..(n + 1)
          /\ (\A i \in 1..n : markers'[i] = markers[i]) /\ markers'[n + 1] = m
      BY <2>6, AppendOne DEF LogInOrder
    <3>2. Begins(markers', o) = Begins(markers, o)
      BY <2>1, <2>6, <3>1 DEF Begins
    <3>3. Acks(markers', o) = Acks(markers, o)
      BY <2>1, <2>6, <3>1, <3>2 DEF Acks
    <3>4. AckRecord(markers', o) = AckRecord(markers, o)
      <4> DEFINE begins == Begins(markers, o)
                 acks == Acks(markers, o)
      <4>1. begins # {} /\ Max(begins) \in 1..n
        BY <2>1, OneEach
      <4>2. acks # {} /\ Max(acks) \in 1..n
        BY <2>1, <2>3, OneEach
      <4> HIDE DEF begins, acks
      <4>3. markers'[Max(begins)] = markers[Max(begins)] /\ markers'[Max(acks)] = markers[Max(acks)]
        BY <3>1, <4>1, <4>2
      <4>4. Begins(markers', o) = begins /\ Acks(markers', o) = acks
        BY <3>2, <3>3 DEF begins, acks
      <4>5. Begins(markers, o) = begins /\ Acks(markers, o) = acks
        BY DEF begins, acks
      <4> QED
        BY <4>1, <4>2, <4>3, <4>4, <4>5, Zenon DEF AckRecord
    <3>5. o \in {markers'[i].op : i \in DOMAIN markers'}
      BY <2>1, <3>1
    <3> QED
      BY <2>2, <3>4, <3>5 DEF ParseAckLog
  <2> QED
    BY <2>4, <2>5, <2>6
<1> QED
  BY <1>1, DatabaseInvHolds, PTL DEF Spec, PromisesStand

=============================================================================
