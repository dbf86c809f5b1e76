-------------------------- MODULE CrashSpaceProofs --------------------------
(* What CrashSpace promises for any number of threads, paths and calls.    *)
EXTENDS CrashSpace, FiniteSetTheorems, TLAPS

(* Sector prefixes are whole numbers of bytes.                             *)
LEMMA PrefixesAreNat ==
    ASSUME NEW e \in Event
    PROVE  StrictSectorPrefixes(e) \subseteq Nat
BY DEF StrictSectorPrefixes, SECTOR_BYTES, Event

-----------------------------------------------------------------------------
(* Type correctness: the variables keep their types, calls are performed   *)
(* before they return and nothing the kernel refused reaches the disk.     *)
THEOREM TypeCorrect == Spec => []TypeOK
<1>1. Init => TypeOK
  BY MaxEventsAssumption DEF Init, TypeOK, performed, Calls, Applied, File, Event
<1>2. TypeOK /\ [Next]_vars => TypeOK'
  <2> SUFFICES ASSUME TypeOK, [Next]_vars PROVE TypeOK'
    OBVIOUS
  <2> USE MaxEventsAssumption
  <2>1. ASSUME NEW t \in Threads, NEW op \in Ops, Issue(t, op)
        PROVE  TypeOK'
    <3> DEFINE n == Len(events)
    <3>1. op \in Event
      BY OpsAssumption
    <3>2. /\ events' \in Seq(Event)
          /\ Len(events') = n + 1
          /\ \A i \in 1..n : events'[i] = events[i]
          /\ n \in Nat
      BY <2>1, <3>1 DEF Issue, TypeOK
    <3>3. /\ Len(events)' <= MaxEvents
          /\ running' \in [Threads -> Nat]
          /\ \A u \in Threads : running'[u] \in 0..Len(events')
      BY <2>1, <3>2 DEF Issue, TypeOK
    <3>4. performed' \subseteq Calls' /\ performed' = performed
      BY <2>1, <3>2 DEF Issue, TypeOK, performed, Calls
    <3>5. Applied' = Applied
      BY <2>1, <3>2, <3>4 DEF TypeOK, Applied, Calls, Mutation, Succeeded
    <3>6. before' \subseteq Calls' \X Calls'
      BY <2>1, <3>2 DEF Issue, TypeOK, performed, Calls
    <3> QED
      BY <2>1, <3>2, <3>3, <3>4, <3>5, <3>6 DEF Issue, TypeOK
  <2>2. ASSUME NEW t \in Threads, NEW f \in File, Perform(t, f)
        PROVE  TypeOK'
    <3> DEFINE i == running[t]
               e == events[i]
    <3>1. i \in Calls \ performed /\ e \in Event
      BY <2>2 DEF Perform, TypeOK, Calls
    <3>2. /\ performed' = performed \cup {i}
          /\ performed \subseteq performed'
          /\ file' \in [performed' -> File]
      BY <2>2, <3>1 DEF Perform, TypeOK, performed
    <3>3. names' \in [Paths -> File]
      <4>1. e.path \in Paths /\ e.path2 \in Paths
        BY <3>1 DEF Event
      <4>2. <<e.path, i>> \in File
        BY <3>1, <4>1 DEF File, Calls, TypeOK
      <4>3. NamesAfter(i, e) \in [Paths -> File]
        BY <4>1, <4>2 DEF NamesAfter, TypeOK
      <4> QED
        BY <2>2, <4>3 DEF Perform, TypeOK
    <3>4. bound' \in [Paths -> SUBSET File]
      BY <2>2, <3>3 DEF Perform, TypeOK
    <3>5. Applied \subseteq Applied'
      BY <2>2, <3>2 DEF Perform, Applied
    <3>6. performed' \subseteq Calls' /\ returned' \subseteq performed'
      BY <2>2, <3>1, <3>2 DEF Perform, TypeOK, Calls
    <3> QED
      BY <2>2, <3>2, <3>3, <3>4, <3>5, <3>6 DEF Perform, TypeOK, Calls
  <2>3. ASSUME NEW t \in Threads, NEW f \in File, PerformSync(t, f)
        PROVE  TypeOK'
    <3> DEFINE i == running[t]
               e == events[i]
    <3>1. i \in Calls \ performed
      BY <2>3 DEF PerformSync
    <3>2. /\ performed' = performed \cup {i}
          /\ performed \subseteq performed'
          /\ file' \in [performed' -> File]
      BY <2>3, <3>1 DEF PerformSync, TypeOK, performed
    <3>3. Applied \subseteq Applied'
      BY <2>3, <3>2 DEF PerformSync, Applied
    <3>4. disk' \subseteq Applied' /\ torn' \subseteq [op : Applied', bytes : Nat]
      BY <2>3, <3>3 DEF PerformSync, TypeOK
    <3>5. performed' \subseteq Calls' /\ returned' \subseteq performed'
      BY <2>3, <3>1, <3>2 DEF PerformSync, TypeOK, Calls
    <3> QED
      BY <2>3, <3>2, <3>4, <3>5 DEF PerformSync, TypeOK, Calls
  <2>4. ASSUME NEW t \in Threads, Return(t)
        PROVE  TypeOK'
    BY <2>4 DEF Return, TypeOK, performed, Calls, Applied
  <2>5. ASSUME NEW i \in Applied, Writeback(i)
        PROVE  TypeOK'
    BY <2>5 DEF Writeback, TypeOK, performed, Calls, Applied
  <2>6. ASSUME NEW i \in Applied, NEW b \in StrictSectorPrefixes(events[i]), Tear(i, b)
        PROVE  TypeOK'
    <3>1. events[i] \in Event
      BY DEF TypeOK, Applied, Calls
    <3>2. b \in Nat
      BY <3>1, PrefixesAreNat
    <3>3. /\ torn' \subseteq [op : Applied, bytes : Nat]
          /\ Applied' = Applied /\ performed' = performed /\ Calls' = Calls
      BY <2>6, <3>2 DEF Tear, performed, Applied, Calls
    <3> QED
      BY <2>6, <3>3 DEF Tear, TypeOK
  <2>7. CASE UNCHANGED vars
    BY <2>7 DEF vars, TypeOK, performed, Calls, Applied
  <2> QED
    BY <2>1, <2>2, <2>3, <2>4, <2>5, <2>6, <2>7 DEF Next
<1> QED
  BY <1>1, <1>2, PTL DEF Spec

-----------------------------------------------------------------------------
(* Every state enumerated at a crash point holds the floor of that crash   *)
(* point, under either ordering discipline.                                *)
LEMMA FloorInEveryState ==
    ASSUME NEW es, NEW cp, NEW m, NEW st \in StatesAt(es, cp, m)
    PROVE  AlwaysPresent(es, cp) \subseteq st.persisted
<1>1. CASE m.totalOrder
  <2>1. st \in PrefixStates(es, cp)
    BY <1>1 DEF StatesAt
  <2>2. PICK S : AlwaysPresent(es, cp) \subseteq S /\ st = CrashState(cp, S, {})
    BY <2>1 DEF PrefixStates
  <2> QED
    BY <2>2 DEF CrashState
<1>2. CASE ~m.totalOrder
  <2>1. st \in SubsetStates(es, cp)
    BY <1>2 DEF StatesAt
  <2>2. PICK S \in LegalSets(es, cp) : \E partial : st = CrashState(cp, S, partial)
    BY <2>1 DEF SubsetStates
  <2>3. AlwaysPresent(es, cp) \subseteq S
    BY <2>2 DEF LegalSets
  <2> QED
    BY <2>2, <2>3 DEF CrashState
<1> QED
  BY <1>1, <1>2

(* A call that had returned when another was issued was issued before it.  *)
BeforeIsOrder == \A w \in before : w[1] < w[2]

LEMMA BeforeOrdered == Spec => []BeforeIsOrder
<1>1. Init => BeforeIsOrder
  BY DEF Init, BeforeIsOrder
<1>2. TypeOK /\ BeforeIsOrder /\ [Next]_vars => BeforeIsOrder'
  <2> SUFFICES ASSUME TypeOK, BeforeIsOrder, [Next]_vars PROVE BeforeIsOrder'
    OBVIOUS
  <2>1. ASSUME NEW t \in Threads, NEW op \in Ops, Issue(t, op)
        PROVE  BeforeIsOrder'
    <3>1. \A j \in returned : j < Len(events) + 1
      BY DEF TypeOK, Calls
    <3> QED
      BY <2>1, <3>1 DEF Issue, BeforeIsOrder
  <2>2. CASE UNCHANGED before
    BY <2>2 DEF BeforeIsOrder
  <2> QED
    BY <2>1, <2>2 DEF Next, Perform, PerformSync, Return, Writeback, Tear, vars
<1> QED
  BY <1>1, <1>2, TypeCorrect, PTL DEF Spec

(* The durability floor, for any number of threads and any interleaving:   *)
(* what had returned before a successful persistence call of its path was  *)
(* issued is in every state enumerated at or after that call.              *)
THEOREM FloorHolds == Spec => []DurabilityFloor
<1>1. TypeOK /\ BeforeIsOrder => DurabilityFloor
  <2> SUFFICES ASSUME TypeOK, BeforeIsOrder,
                      NEW w \in before,
                      Mutation(events[w[1]]),
                      Persists(events[w[2]]),
                      Succeeded(events[w[2]]),
                      events[w[1]].path = events[w[2]].path,
                      NEW cp \in w[2]..Len(events),
                      NEW st \in StatesAt(events, cp, model)
               PROVE  w[1] \in st.persisted
    BY DEF DurabilityFloor
  <2>1. w[1] \in Calls /\ w[2] \in Calls /\ w[1] < w[2]
    BY DEF TypeOK, BeforeIsOrder
  <2>2. w[1] \in 1..cp /\ w[2] \in (w[1] + 1)..cp
    BY <2>1 DEF Calls, TypeOK
  <2>3. w[1] \in PinnedBy(events, cp)
    BY <2>2 DEF PinnedBy
  <2> QED
    BY <2>3, FloorInEveryState DEF AlwaysPresent
<1> QED
  BY <1>1, TypeCorrect, BeforeOrdered, PTL

-----------------------------------------------------------------------------
(* Every free operation is in the window or older than it.                 *)
LEMMA WindowOrOlder ==
    ASSUME NEW es, NEW cp \in Nat
    PROVE  Free(es, cp) = Window(es, cp) \cup Older(es, cp)
<1>1. ASSUME NEW i PROVE Younger(es, cp, i) \in Nat
  <2>1. IsFiniteSet(1..cp)
    BY FS_Interval
  <2>2. {j \in Free(es, cp) : j > i} \subseteq 1..cp
    BY DEF Free, Performed
  <2>3. IsFiniteSet({j \in Free(es, cp) : j > i})
    BY <2>1, <2>2, FS_Subset
  <2> QED
    BY <2>3, FS_CardinalityType DEF Younger
<1> QED
  BY <1>1, WindowAssumption DEF Window, Older

(* A legal set with one of its torn operations is a state.                 *)
LEMMA TornStateEnumerated ==
    ASSUME NEW es, NEW cp, NEW S \in LegalSets(es, cp), NEW w \in TornOf(es, cp, S)
    PROVE  CrashState(cp, S, {w}) \in SubsetStates(es, cp)
<1> DEFINE TornStates(X) == {CrashState(cp, X, {x}) : x \in TornOf(es, cp, X)}
<1>1. CrashState(cp, S, {w}) \in TornStates(S)
  OBVIOUS
<1>2. SubsetStates(es, cp) = {CrashState(cp, X, {}) : X \in LegalSets(es, cp)}
                                \cup UNION {TornStates(X) : X \in LegalSets(es, cp)}
  BY DEF SubsetStates
<1> HIDE DEF TornStates
<1>3. CrashState(cp, S, {w}) \in UNION {TornStates(X) : X \in LegalSets(es, cp)}
  BY <1>1
<1> QED
  BY <1>2, <1>3

(* What one thread adds to the types: at most the last call is unfinished, *)
(* what a performed persistence call persists is on disk, the disk is      *)
(* closed under the orders the filesystem keeps, and the torn operation is *)
(* a strict prefix of one that is not on disk.                             *)
OneUnfinished ==
    \A t \in Threads : /\ running[t] \in {0, Len(events)}
                       /\ Calls \ performed \subseteq {running[t]}

SyncedOnDisk ==
    \A i \in performed, j \in Applied :
        (/\ Persists(events[i]) /\ Succeeded(events[i])
         /\ j < i /\ file[j] = file[i]
         /\ Forces(model, events[i], events[j])) => j \in disk

OrderedOnDisk ==
    model.totalOrder => \A i \in disk, j \in Applied : j < i => j \in disk

ExistingOnDisk ==
    \A k \in disk : events[k].call \in NEEDS_EXISTING_FILE =>
        \A j \in Applied : (j < k /\ file[j] = file[k]) =>
            \E l \in disk : l < k /\ file[l] = file[k]

TornIsStrict ==
    /\ torn # {} => TornWrites /\ \E w \in torn : torn = {w}
    /\ \A w \in torn : w.op \notin disk /\ w.bytes \in StrictSectorPrefixes(events[w.op])

SerialInv == OneUnfinished /\ SyncedOnDisk /\ OrderedOnDisk /\ ExistingOnDisk /\ TornIsStrict

LEMMA SerialInvHolds ==
    ASSUME NEW t0, Threads = {t0}
    PROVE  Spec => []SerialInv
<1>1. Init => SerialInv
  BY DEF Init, SerialInv, OneUnfinished, SyncedOnDisk, OrderedOnDisk, ExistingOnDisk,
         TornIsStrict, performed, Calls, Applied
<1>2. TypeOK /\ SerialInv /\ [Next]_vars => SerialInv'
  <2> SUFFICES ASSUME TypeOK, SerialInv, [Next]_vars PROVE SerialInv'
    OBVIOUS
  <2> DEFINE n == Len(events)
  <2>0. n \in Nat /\ performed \subseteq 1..n /\ Applied \subseteq performed
        /\ disk \subseteq Applied /\ running[t0] \in Nat
    BY DEF TypeOK, Calls, Applied
  <2>1. ASSUME NEW t \in Threads, NEW op \in Ops, Issue(t, op)
        PROVE  SerialInv'
    <3>1. /\ Len(events') = n + 1
          /\ \A i \in 1..n : events'[i] = events[i]
      BY <2>1, OpsAssumption DEF Issue, TypeOK
    <3>2. performed' = performed /\ Applied' = Applied
      BY <2>0, <2>1, <3>1 DEF Issue, performed, Applied
    <3>3. OneUnfinished'
      <4>1. running' = [running EXCEPT ![t0] = n + 1] /\ running[t0] = 0
        BY <2>1 DEF Issue
      <4>2. 1..n \subseteq performed
        BY <2>0, <4>1 DEF SerialInv, OneUnfinished, Calls
      <4> QED
        BY <2>0, <3>1, <3>2, <4>1, <4>2 DEF OneUnfinished, Calls, TypeOK
    <3>4. SyncedOnDisk'
      BY <2>0, <2>1, <3>1, <3>2 DEF SerialInv, SyncedOnDisk, Issue
    <3>5. OrderedOnDisk'
      BY <2>0, <2>1, <3>1, <3>2 DEF SerialInv, OrderedOnDisk, Issue
    <3>6. ExistingOnDisk'
      BY <2>0, <2>1, <3>1, <3>2 DEF SerialInv, ExistingOnDisk, Issue
    <3>7. TornIsStrict'
      BY <2>0, <2>1, <3>1, <3>2 DEF SerialInv, TornIsStrict, Issue, TypeOK
    <3> QED
      BY <3>3, <3>4, <3>5, <3>6, <3>7 DEF SerialInv
  <2>2. ASSUME NEW t \in Threads, NEW f \in File, Perform(t, f)
        PROVE  SerialInv'
    <3>1. running[t] = n /\ n \notin performed /\ n \in 1..n
      BY <2>0, <2>2 DEF Perform, SerialInv, OneUnfinished, Calls
    <3>2. /\ performed' = performed \cup {n}
          /\ \A k \in performed : file'[k] = file[k]
      BY <2>2, <3>1 DEF Perform, performed
    <3>3. Applied \subseteq Applied' /\ Applied' \subseteq Applied \cup {n}
      BY <2>2, <3>2 DEF Perform, Applied
    <3>4. OneUnfinished'
      BY <2>2, <3>1, <3>2 DEF Perform, SerialInv, OneUnfinished, Calls
    <3>5. SyncedOnDisk'
      BY <2>0, <2>2, <3>1, <3>2, <3>3 DEF Perform, SerialInv, SyncedOnDisk
    <3>6. OrderedOnDisk'
      BY <2>0, <2>2, <3>1, <3>3 DEF Perform, SerialInv, OrderedOnDisk
    <3>7. ExistingOnDisk'
      BY <2>0, <2>2, <3>1, <3>2, <3>3 DEF Perform, SerialInv, ExistingOnDisk
    <3>8. TornIsStrict'
      BY <2>2 DEF Perform, SerialInv, TornIsStrict
    <3> QED
      BY <3>4, <3>5, <3>6, <3>7, <3>8 DEF SerialInv
  <2>3. ASSUME NEW t \in Threads, NEW f \in File, PerformSync(t, f)
        PROVE  SerialInv'
    <3>1. running[t] = n /\ n \notin performed /\ n \in 1..n
      BY <2>0, <2>3 DEF PerformSync, SerialInv, OneUnfinished, Calls
    <3>2. /\ performed' = performed \cup {n}
          /\ \A k \in performed : file'[k] = file[k]
          /\ file'[n] = f
      BY <2>3, <3>1 DEF PerformSync, performed
    <3>3. Applied' = Applied
      <4>1. events[n].call \notin MUTATING
        BY <2>3, <3>1 DEF PerformSync, Persists, PERSISTENCE, MUTATING
      <4> QED
        BY <2>3, <3>2, <4>1 DEF PerformSync, Applied, Mutation
    <3>4. OneUnfinished'
      BY <2>3, <3>1, <3>2 DEF PerformSync, SerialInv, OneUnfinished, Calls
    <3>5. SyncedOnDisk'
      <4> SUFFICES ASSUME NEW i \in performed', NEW j \in Applied',
                          Persists(events'[i]), Succeeded(events'[i]), j < i,
                          file'[j] = file'[i],
                          Forces(model', events'[i], events'[j])
                   PROVE  j \in disk'
        BY DEF SyncedOnDisk
      <4>1. CASE i = n
        BY <2>0, <2>3, <3>1, <3>2, <3>3, <4>1 DEF PerformSync
      <4>2. CASE i \in performed
        BY <2>0, <2>3, <3>2, <3>3, <4>2 DEF PerformSync, SerialInv, SyncedOnDisk
      <4> QED
        BY <3>2, <4>1, <4>2
    <3>6. OrderedOnDisk' /\ TornIsStrict'
      BY <2>3, <3>3 DEF PerformSync, SerialInv, OrderedOnDisk, TornIsStrict
    <3>7. ExistingOnDisk'
      BY <2>0, <2>3, <3>2, <3>3 DEF PerformSync, SerialInv, ExistingOnDisk
    <3> QED
      BY <3>4, <3>5, <3>6, <3>7 DEF SerialInv
  <2>4. ASSUME NEW t \in Threads, Return(t)
        PROVE  SerialInv'
    <3>1. OneUnfinished'
      BY <2>0, <2>4 DEF Return, SerialInv, OneUnfinished, Calls, performed, TypeOK
    <3> QED
      BY <2>4, <3>1 DEF Return, SerialInv, SyncedOnDisk, OrderedOnDisk, ExistingOnDisk,
                        TornIsStrict, performed, Applied
  <2>5. ASSUME NEW i \in Applied, Writeback(i)
        PROVE  SerialInv'
    <3>1. performed' = performed /\ Applied' = Applied /\ Calls' = Calls
      BY <2>5 DEF Writeback, performed, Applied, Calls
    <3>2. OneUnfinished'
      BY <2>5, <3>1 DEF Writeback, SerialInv, OneUnfinished
    <3>3. SyncedOnDisk'
      BY <2>5, <3>1 DEF Writeback, SerialInv, SyncedOnDisk
    <3>4. OrderedOnDisk'
      BY <2>5, <3>1 DEF Writeback, Writable, MustPrecede, SerialInv, OrderedOnDisk
    <3>5. ExistingOnDisk'
      <4> SUFFICES ASSUME NEW k \in disk', events[k].call \in NEEDS_EXISTING_FILE,
                          NEW j \in Applied, j < k, file[j] = file[k]
                   PROVE  \E l \in disk' : l < k /\ file[l] = file[k]
        BY <2>5, <3>1 DEF ExistingOnDisk, Writeback
      <4>1. CASE k \in disk
        BY <2>5, <4>1 DEF Writeback, SerialInv, ExistingOnDisk
      <4>2. CASE k = i
        BY <2>5, <4>2 DEF Writeback, Writable
      <4> QED
        BY <2>5, <4>1, <4>2 DEF Writeback
    <3>6. TornIsStrict'
      <4>1. torn' = torn \/ torn' = {}
        BY <2>5 DEF Writeback, SerialInv, TornIsStrict
      <4> QED
        BY <2>5, <4>1 DEF Writeback, SerialInv, TornIsStrict
    <3> QED
      BY <3>2, <3>3, <3>4, <3>5, <3>6 DEF SerialInv
  <2>6. ASSUME NEW i \in Applied, NEW b \in StrictSectorPrefixes(events[i]), Tear(i, b)
        PROVE  SerialInv'
    <3>1. performed' = performed /\ Applied' = Applied /\ Calls' = Calls
      BY <2>6 DEF Tear, performed, Applied, Calls
    <3>2. TornIsStrict'
      BY <2>6 DEF Tear, TornIsStrict
    <3> QED
      BY <2>6, <3>1, <3>2 DEF Tear, SerialInv, OneUnfinished, SyncedOnDisk, OrderedOnDisk,
                              ExistingOnDisk
  <2>7. CASE UNCHANGED vars
    BY <2>7 DEF vars, SerialInv, OneUnfinished, SyncedOnDisk, OrderedOnDisk, ExistingOnDisk,
                TornIsStrict, performed, Applied, Calls
  <2> QED
    BY <2>1, <2>2, <2>3, <2>4, <2>5, <2>6, <2>7 DEF Next
<1> QED
  BY <1>1, <1>2, TypeCorrect, PTL DEF Spec

(* Completeness of the enumeration for a program of one thread: whatever   *)
(* the disk holds at any instant, some enumerated state is exactly that,   *)
(* for every window and every trace on which the code pins no more than    *)
(* the filesystem model makes its persistence calls persist.               *)
THEOREM EveryDiskIsEnumerated ==
    ASSUME NEW t0, Threads = {t0}
    PROVE  Spec => []Covered
<1>1. TypeOK /\ SerialInv => Covered
  <2> SUFFICES ASSUME TypeOK, SerialInv, InDomain, model.totalOrder => torn = {}
               PROVE  Enumerated
    BY DEF Covered
  <2> DEFINE n == Len(events)
             pending == /\ n \notin performed
                        /\ Persists(events[n])
                        /\ Succeeded(events[n])
             cp == IF pending /\ n > 1 THEN n - 1 ELSE n
  <2>1. n \in Nat /\ n >= 1 /\ cp \in Nat /\ cp \in 1..n /\ cp \in CrashPoints
    <3>1. n \in Nat /\ n # 0
      BY DEF InDomain, TypeOK
    <3> QED
      BY <3>1 DEF CrashPoints
  <2>2. \A i \in 1..n : i < n => i \in performed
    BY <2>1 DEF SerialInv, OneUnfinished, Calls
  <2>3. disk \subseteq Applied /\ Applied \subseteq performed /\ performed \subseteq 1..n
    BY DEF TypeOK, Applied, Calls
  <2>4. Applied \subseteq Performed(events, cp)
    <3> SUFFICES ASSUME NEW i \in Applied PROVE i \in Performed(events, cp)
      OBVIOUS
    <3>1. i \in 1..n /\ i \in performed /\ Mutation(events[i]) /\ Succeeded(events[i])
      BY <2>3 DEF Applied
    <3>2. i \in 1..cp
      BY <2>1, <3>1 DEF Mutation, Persists, MUTATING, PERSISTENCE
    <3> QED
      BY <3>1, <3>2 DEF Performed
  <2>5. \A i \in Performed(events, n) : i < n => i \in Applied
    BY <2>1, <2>2 DEF Performed, Applied
  <2>6. PinnedBy(events, cp) \subseteq Performed(events, n)
    BY <2>1 DEF PinnedBy, InDomain, NoFailurePinned
  <2>7. PinnedBy(events, cp) \subseteq disk
    <3> SUFFICES ASSUME NEW j \in PinnedBy(events, cp) PROVE j \in disk
      OBVIOUS
    <3>0. PICK h \in (j+1)..cp : SyncOf(h, j)
      BY <2>1 DEF PinnedBy, SyncOf
    <3>1. PICK i \in 1..cp : SyncOf(i, j) /\ Forces(model, events[i], events[j])
      BY <2>1, <3>0 DEF PinnedBy, InDomain, SyncsForce
    <3>2. j \in 1..cp /\ i \in 1..n /\ j < i /\ j < n /\ i > 1
      BY <2>1, <3>1 DEF PinnedBy, SyncOf
    <3>3. j \in Applied
      BY <2>5, <2>6, <3>2
    <3>4. i \in performed
      BY <2>1, <2>2, <3>1, <3>2 DEF SyncOf
    <3>5. file[j] = file[i]
      BY <2>3, <3>1, <3>3, <3>4 DEF InDomain, OneNamePerFile, SyncOf
    <3> QED
      BY <3>1, <3>2, <3>3, <3>4, <3>5 DEF SerialInv, SyncedOnDisk, SyncOf
  <2>8. AlwaysPresent(events, cp) \subseteq disk
    BY <2>1, <2>7 DEF AlwaysPresent, InDomain, WindowHolds
  <2>9. Performed(events, cp) \subseteq Issued(events, cp)
    BY <2>1, WindowOrOlder DEF Issued, AlwaysPresent, Free
  <2>10. CASE model.totalOrder
    <3>1. disk \subseteq Issued(events, cp)
      BY <2>3, <2>4, <2>9
    <3>2. ASSUME NEW i \in Issued(events, cp), NEW j \in disk, i < j
          PROVE  i \in disk
      <4>1. i \in Performed(events, n)
        BY <2>1, <2>6 DEF Issued, AlwaysPresent, Older, Window, Free, Performed
      <4>2. i \in Applied
        BY <2>1, <2>3, <2>5, <3>2, <4>1 DEF Performed
      <4> QED
        BY <2>10, <3>2, <4>2 DEF SerialInv, OrderedOnDisk
    <3>3. CrashState(cp, disk, {}) \in PrefixStates(events, cp)
      BY <2>8, <3>1, <3>2 DEF PrefixStates
    <3> QED
      BY <2>1, <2>10, <3>3 DEF Enumerated, StatesAt
  <2>11. CASE ~model.totalOrder
    <3>1. disk = AlwaysPresent(events, cp) \cup (disk \cap Window(events, cp))
      BY <2>3, <2>4, <2>8, <2>9 DEF Issued
    <3>2. ExistsOnDisk(events, disk)
      <4> DEFINE earlier(k) == {j \in Performed(events, k - 1) : events[j].path = events[k].path}
      <4> SUFFICES ASSUME NEW k \in disk, events[k].call \in NEEDS_EXISTING_FILE,
                          NEW j \in earlier(k)
                   PROVE  earlier(k) \cap disk # {}
        BY DEF ExistsOnDisk
      <4>1. k \in 1..n /\ k \in Applied
        BY <2>3
      <4>2. j \in Applied /\ j < k
        BY <2>1, <2>5, <4>1 DEF Performed
      <4>3. file[j] = file[k]
        BY <2>3, <4>1, <4>2 DEF InDomain, OneNamePerFile
      <4>4. PICK l \in disk : l < k /\ file[l] = file[k]
        BY <4>2, <4>3 DEF SerialInv, ExistingOnDisk
      <4>5. events[l].path = events[k].path
        BY <2>3, <4>1, <4>4 DEF InDomain, OneNamePerFile
      <4>6. l \in Performed(events, k - 1)
        BY <2>1, <2>3, <4>1, <4>4 DEF Performed, Applied
      <4> QED
        BY <4>4, <4>5, <4>6
    <3>3. disk \in LegalSets(events, cp)
      BY <3>1, <3>2 DEF LegalSets
    <3>4. CASE torn = {}
      <4>1. CrashState(cp, disk, torn) \in SubsetStates(events, cp)
        BY <3>3, <3>4 DEF SubsetStates
      <4> QED
        BY <2>1, <2>11, <4>1 DEF Enumerated, StatesAt
    <3>5. CASE torn # {}
      <4>1. PICK w \in torn : torn = {w} /\ TornWrites
        BY <3>5 DEF SerialInv, TornIsStrict
      <4>2. /\ w.op \in Applied \ disk
            /\ w.bytes \in StrictSectorPrefixes(events[w.op])
            /\ w = [op |-> w.op, bytes |-> w.bytes]
        BY DEF SerialInv, TornIsStrict, TypeOK
      <4>3. w.op \in Window(events, cp) \ disk
        BY <2>4, <2>8, <2>9, <4>2 DEF Issued
      <4>4. w \in TornOf(events, cp, disk)
        BY <4>1, <4>2, <4>3 DEF TornOf
      <4>5. CrashState(cp, disk, torn) \in SubsetStates(events, cp)
        BY <3>3, <4>1, <4>4, TornStateEnumerated
      <4> QED
        BY <2>1, <2>11, <4>5 DEF Enumerated, StatesAt
    <3> QED
      BY <3>4, <3>5
  <2> QED
    BY <2>10, <2>11
<1> QED
  BY <1>1, TypeCorrect, SerialInvHolds, PTL

-----------------------------------------------------------------------------
(* A torn write never is the whole one.                                    *)
LEMMA PrefixesAreStrict ==
    ASSUME NEW e \in Event, NEW b \in StrictSectorPrefixes(e)
    PROVE  b < e.len
<1>1. e.len \in Nat
  BY DEF Event
<1>2. PICK s \in 1..(((e.len + 511) \div 512) - 1) : b = s * 512
  BY DEF StrictSectorPrefixes, SECTOR_BYTES
<1>3. ((e.len + 511) \div 512) * 512 <= e.len + 511
  BY <1>1
<1>4. (s + 1) * 512 <= ((e.len + 511) \div 512) * 512
  BY <1>1, <1>2
<1> QED
  BY <1>1, <1>2, <1>3, <1>4

(* The two shapes of a state: a prefix of what was issued, or a legal set  *)
(* with at most one operation of the window torn.                          *)
LEMMA StateShape ==
    ASSUME NEW es, NEW cp, NEW m, NEW st \in StatesAt(es, cp, m)
    PROVE  /\ AlwaysPresent(es, cp) \subseteq st.persisted
           /\ st.persisted \subseteq Issued(es, cp)
           /\ m.totalOrder =>
                /\ \A i \in Issued(es, cp), j \in st.persisted : i < j => i \in st.persisted
                /\ st.partial = {}
           /\ ~m.totalOrder =>
                /\ ExistsOnDisk(es, st.persisted)
                /\ st.partial \subseteq TornOf(es, cp, st.persisted)
<1>1. CASE m.totalOrder
  <2>1. PICK S \in SUBSET Issued(es, cp) :
          /\ AlwaysPresent(es, cp) \subseteq S
          /\ \A i \in Issued(es, cp), j \in S : i < j => i \in S
          /\ st = CrashState(cp, S, {})
    BY <1>1 DEF StatesAt, PrefixStates
  <2> QED
    BY <1>1, <2>1 DEF CrashState
<1>2. CASE ~m.totalOrder
  <2>1. PICK S \in LegalSets(es, cp) :
          st = CrashState(cp, S, {}) \/ \E t \in TornOf(es, cp, S) : st = CrashState(cp, S, {t})
    BY <1>2 DEF StatesAt, SubsetStates
  <2>2. /\ AlwaysPresent(es, cp) \subseteq S /\ S \subseteq Issued(es, cp)
        /\ ExistsOnDisk(es, S)
    BY DEF LegalSets, Issued
  <2>3. st.persisted = S /\ st.partial \subseteq TornOf(es, cp, S)
    BY <2>1 DEF CrashState
  <2> QED
    BY <1>2, <2>2, <2>3
<1> QED
  BY <1>1, <1>2

(* The other half of what the enumeration is for: no state that is tested  *)
(* is one the filesystem could not have left, for any number of threads    *)
(* and all four models, where the orders the code does not read are given. *)
(* What performed persistence calls forced is in it, the rest of it could  *)
(* have been written back in some order, and what is torn was next.        *)
THEOREM OnlyProducibleIsEnumerated == Spec => []OnlyProducible
<1>1. TypeOK => OnlyProducible
  <2> DEFINE n == Len(events)
  <2> SUFFICES ASSUME TypeOK, OneNamePerFile, NoFailurePinned, OrderIsGiven, performed = Calls,
                      NEW st \in StatesAt(events, n, model)
               PROVE  /\ Forced \subseteq st.persisted
                      /\ st.persisted \subseteq Applied
                      /\ \A i \in st.persisted : Writable(i, st.persisted)
                      /\ \A w \in st.partial : /\ w.op \in Applied \ st.persisted
                                               /\ Writable(w.op, st.persisted)
                                               /\ w.bytes < events[w.op].len
    BY DEF OnlyProducible
  <2> DEFINE S == st.persisted
  <2>1. /\ AlwaysPresent(events, n) \subseteq S /\ S \subseteq Issued(events, n)
        /\ model.totalOrder =>
             /\ \A i \in Issued(events, n), j \in S : i < j => i \in S
             /\ st.partial = {}
        /\ ~model.totalOrder =>
             ExistsOnDisk(events, S) /\ st.partial \subseteq TornOf(events, n, S)
    BY StateShape
  <2>2. /\ n \in Nat /\ Calls = 1..n /\ performed = Calls
        /\ \A i \in Calls : events[i] \in Event
        /\ \A i, j \in Calls : events[i].path = events[j].path <=> file[i] = file[j]
    BY DEF TypeOK, Calls, OneNamePerFile
  <2>3. Applied = Performed(events, n)
    BY <2>2 DEF Applied, Performed
  <2>4. Issued(events, n) = Applied
    <3>1. PinnedBy(events, n) \subseteq Applied
      BY <2>3 DEF NoFailurePinned
    <3> QED
      BY <2>2, <2>3, <3>1, WindowOrOlder DEF Issued, AlwaysPresent, Free
  <2>5. Forced \subseteq S
    <3> SUFFICES ASSUME NEW j \in Applied,
                        NEW i \in performed, Persists(events[i]), Succeeded(events[i]),
                        j < i, file[j] = file[i]
                 PROVE  j \in S
      BY DEF Forced
    <3>1. j \in Calls /\ Mutation(events[j]) /\ i \in (j + 1)..n
      BY <2>2 DEF Applied
    <3>2. events[j].path = events[i].path
      BY <2>2, <3>1
    <3>3. j \in PinnedBy(events, n)
      BY <2>2, <3>1, <3>2 DEF PinnedBy
    <3> QED
      BY <2>1, <3>3 DEF AlwaysPresent
  <2>6. ASSUME NEW i \in Applied, model.totalOrder => i \in S,
               NEW j \in Applied, j < i, MustPrecede(j, i)
        PROVE  j \in S
    <3>1. CASE model.totalOrder
      BY <2>1, <2>4, <2>6, <3>1
    <3>2. CASE ~model.totalOrder
      BY <2>1, <2>6, <3>2 DEF OrderIsGiven
    <3> QED
      BY <3>1, <3>2
  <2>7. ASSUME NEW i \in S
        PROVE  Writable(i, S)
    <3> DEFINE earlier == {j \in Applied : j < i}
               sameFile == {j \in earlier : file[j] = file[i]}
    <3>1. i \in Calls /\ i \in Applied
      BY <2>1, <2>4 DEF Applied
    <3>2. \A j \in earlier : MustPrecede(j, i) => j \in S
      BY <2>6, <3>1
    <3>3. ASSUME events[i].call \in NEEDS_EXISTING_FILE, sameFile # {}
          PROVE  sameFile \cap S # {}
      <4> DEFINE known == {j \in Performed(events, i - 1) : events[j].path = events[i].path}
      <4>1. CASE model.totalOrder
        <5>1. PICK j \in sameFile : TRUE
          BY <3>3
        <5>2. MustPrecede(j, i)
          BY <4>1 DEF MustPrecede
        <5> QED
          BY <3>2, <5>1, <5>2
      <4>2. CASE ~model.totalOrder
        <5>1. known = sameFile
          BY <2>2, <3>1 DEF Performed, Applied
        <5>2. known # {} => known \cap S # {}
          BY <2>1, <3>3, <4>2 DEF ExistsOnDisk
        <5> QED
          BY <3>3, <5>1, <5>2
      <4> QED
        BY <4>1, <4>2
    <3> QED
      BY <3>2, <3>3 DEF Writable
  <2>8. ASSUME NEW w \in st.partial
        PROVE  /\ w.op \in Applied \ S
               /\ Writable(w.op, S)
               /\ w.bytes < events[w.op].len
    <3>1. ~model.totalOrder
      BY <2>1
    <3>2. PICK i \in Window(events, n) \ S : \E b \in StrictSectorPrefixes(events[i]) :
                w = [op |-> i, bytes |-> b]
      BY <2>1, <3>1 DEF TornOf
    <3>3. i \in Applied \ S /\ events[i] \in Event
      BY <2>2, <2>4 DEF Issued, Applied
    <3>4. events[i].call \notin NEEDS_EXISTING_FILE
      BY <3>2 DEF StrictSectorPrefixes, PAYLOAD, NEEDS_EXISTING_FILE
    <3>5. Writable(i, S)
      BY <2>6, <3>1, <3>3, <3>4 DEF Writable
    <3> QED
      BY <3>2, <3>3, <3>5, PrefixesAreStrict
  <2> QED
    BY <2>1, <2>4, <2>5, <2>7, <2>8
<1> QED
  BY <1>1, TypeCorrect, PTL

=============================================================================
