--------------------------- MODULE CampaignProofs ---------------------------
(***************************************************************************)
(* What runCampaign promises, for any number of operations and states, any *)
(* protocols and any failures of the host.                                 *)
(***************************************************************************)
EXTENDS Campaign, FiniteSetTheorems, SequenceTheorems, TLAPS

-----------------------------------------------------------------------------
(* Least and greatest elements, and finite images.                         *)

LEMMA Smallest ==
    ASSUME NEW T \in SUBSET Nat, T # {}
    PROVE  \E x \in T : \A y \in T : x <= y
<1>1. PICK n : n \in T
  OBVIOUS
<1> DEFINE B == 0..n
           F == {0..x : x \in {y \in T : y <= n}}
<1>2. F \subseteq FiniteSubsetsOf(B) /\ F # {}
  <2>1. \A x \in T : IsFiniteSet(0..x)
    BY FS_Interval
  <2>2. 0..n \in F
    BY <1>1
  <2>3. ASSUME NEW x \in T, x <= n PROVE 0..x \in SUBSET B
    BY <1>1, <2>3
  <2> QED
    BY <2>1, <2>2, <2>3 DEF FiniteSubsetsOf
<1>3. PICK U \in F : \A V \in F : ~(<<V, U>> \in StrictSubsetOrdering(B))
  <2> HIDE DEF B, F
  <2>1. IsWellFoundedOn(StrictSubsetOrdering(B), FiniteSubsetsOf(B))
    BY FS_StrictSubsetOrderingWellFounded
  <2> QED
    BY <1>2, <2>1, WFMin
<1>4. PICK x \in T : x <= n /\ U = 0..x
  OBVIOUS
<1>5. ASSUME NEW y \in T PROVE x <= y
  <2> SUFFICES ASSUME y < x PROVE FALSE
    BY <1>4
  <2>1. 0..y \in F
    BY <1>1, <1>4
  <2>2. 0..y \subseteq 0..x /\ 0..y \subseteq B /\ 0..x \subseteq B /\ 0..y # 0..x
    BY <1>1, <1>4
  <2> HIDE DEF B, F
  <2>3. <<0..y, 0..x>> \in StrictSubsetOrdering(B)
    BY <2>2 DEF StrictSubsetOrdering
  <2> QED
    BY <2>1, <2>3, <1>3, <1>4
<1> QED
  BY <1>5

LEMMA MinOf ==
    ASSUME NEW T \in SUBSET Nat, T # {}
    PROVE  Min(T) \in T
BY Smallest DEF Min

LEMMA MaxOf ==
    ASSUME NEW T \in SUBSET Nat, T # {}, NEW n \in Nat, \A y \in T : y <= n
    PROVE  Max(T) \in T
<1> DEFINE D == {n - y : y \in T}
<1>1. PICK x \in D : \A y \in D : x <= y
  <2>1. \A y \in T : n - y \in Nat
    OBVIOUS
  <2>2. D \in SUBSET Nat /\ D # {}
    BY <2>1
  <2> HIDE DEF D
  <2> QED
    BY <2>2, Smallest
<1>2. PICK z \in T : x = n - z
  OBVIOUS
<1>3. ASSUME NEW y \in T PROVE z >= y
  <2>1. n - y \in D
    OBVIOUS
  <2> QED
    BY <1>1, <1>2, <2>1
<1> QED
  BY <1>3 DEF Max

LEMMA FiniteRange ==
    ASSUME NEW f, IsFiniteSet(DOMAIN f)
    PROVE  IsFiniteSet({f[x] : x \in DOMAIN f})
<1> DEFINE T == {f[x] : x \in DOMAIN f}
<1>1. PICK s \in Seq(DOMAIN f) : \A x \in DOMAIN f : \E n \in 1..Len(s) : s[n] = x
  BY DEF IsFiniteSet
<1> DEFINE t == [n \in 1..Len(s) |-> f[s[n]]]
<1>2. \A n \in 1..Len(s) : s[n] \in DOMAIN f
  OBVIOUS
<1>3. t \in Seq(T) /\ Len(t) = Len(s)
  BY <1>2
<1>4. \A y \in T : \E n \in 1..Len(t) : t[n] = y
  BY <1>1, <1>3
<1> HIDE DEF T, t
<1>5. IsFiniteSet(T)
  BY <1>3, <1>4 DEF IsFiniteSet
<1> QED
  BY <1>5 DEF T

-----------------------------------------------------------------------------
(* The acknowledgement log.                                                *)

IsSequence(s) == s \in Seq({s[k] : k \in DOMAIN s})

MarkersTyped ==
    /\ IsSequence(markers)
    /\ \A k \in DOMAIN markers : markers[k].index \in Nat /\ markers[k].phase \in {"begin", "ack"}

(* An operation with a marker has one that opens its record.               *)
LEMMA RecordsBegin ==
    ASSUME MarkersTyped
    PROVE  \A a \in ParseAckLog(markers) : a.beganAt \in Nat
<1> SUFFICES ASSUME NEW k \in DOMAIN markers
             PROVE  AckRecord(markers, markers[k].op).beganAt \in Nat
  BY DEF ParseAckLog
<1> DEFINE o == markers[k].op
           first == IF Begins(markers, o) # {} THEN Max(Begins(markers, o)) ELSE Min(Acks(markers, o))
<1>1. Len(markers) \in Nat /\ DOMAIN markers = 1..Len(markers)
  BY LenProperties DEF MarkersTyped, IsSequence
<1>2. Begins(markers, o) \subseteq DOMAIN markers /\ Acks(markers, o) \subseteq DOMAIN markers
  BY DEF Begins, Acks
<1>3. first \in DOMAIN markers
  <2>1. CASE Begins(markers, o) # {}
    <3>1. Begins(markers, o) \in SUBSET Nat /\ \A y \in Begins(markers, o) : y <= Len(markers)
      BY <1>1, <1>2
    <3> QED
      BY <1>1, <1>2, <2>1, <3>1, MaxOf
  <2>2. CASE Begins(markers, o) = {}
    <3>1. markers[k].phase = "ack"
      BY <2>2 DEF Begins, MarkersTyped
    <3>2. k \in Acks(markers, o)
      BY <2>2, <3>1 DEF Acks
    <3> QED
      BY <1>1, <1>2, <2>2, <3>2, MinOf
  <2> QED
    BY <2>1, <2>2
<1>4. AckRecord(markers, o).beganAt = markers[first].index
  BY DEF AckRecord
<1> QED
  BY <1>3, <1>4 DEF MarkersTyped

LEMMA OperationsBegin ==
    ASSUME MarkersTyped, NEW v
    PROVE  OperationOf(v).beganAt \in Nat
<1>1. CASE \E a \in ParseAckLog(markers) : a.op = v.op
  <2>1. OperationOf(v) \in ParseAckLog(markers)
    BY <1>1 DEF OperationOf
  <2> QED
    BY <2>1, RecordsBegin
<1>2. CASE ~ \E a \in ParseAckLog(markers) : a.op = v.op
  BY <1>2 DEF OperationOf
<1> QED
  BY <1>1, <1>2

(* The violation the oracle reports first is one of them.                  *)
LEMMA FirstIsOne ==
    ASSUME MarkersTyped, NEW vs, vs # {}
    PROVE  FirstOf(vs) \in vs
<1> DEFINE B == {OperationOf(v).beganAt : v \in vs}
<1>1. PICK b \in B : \A c \in B : b <= c
  <2>1. B \in SUBSET Nat /\ B # {}
    BY OperationsBegin
  <2> QED
    BY <2>1, Smallest
<1>2. PICK v \in vs : b = OperationOf(v).beganAt
  OBVIOUS
<1>3. \A w \in vs : OperationOf(v).beganAt <= OperationOf(w).beganAt
  BY <1>1, <1>2
<1> QED
  BY <1>3 DEF FirstOf

(* One state has finitely many violations.                                 *)
LEMMA ViolationsFinite ==
    ASSUME MarkersTyped, NEW st, NEW rec
    PROVE  IsFiniteSet(Violations(st, rec))
<1> DEFINE log == ParseAckLog(markers)
           crashStamp == CrashStamp(st)
           promised == PromisedBefore(log, crashStamp)
           failed == {b \in promised : ReadBack(rec, b.key) # b.digest}
           lost == [a \in failed |->
                      Violation("LOST_ACKED", crashStamp, a.op, a.key, a.digest, ReadBack(rec, a.key))]
<1>1. IsFiniteSet(log)
  <2> DEFINE named == [i \in DOMAIN markers |-> markers[i].op]
             ops == {named[i] : i \in DOMAIN named}
             logged == [o \in ops |-> AckRecord(markers, o)]
  <2>1. IsFiniteSet(DOMAIN markers)
    BY LenProperties, FS_Interval DEF MarkersTyped, IsSequence
  <2>2. IsFiniteSet(ops)
    BY <2>1, FiniteRange
  <2>3. IsFiniteSet({logged[o] : o \in DOMAIN logged})
    BY <2>2, FiniteRange
  <2>4. log = {logged[o] : o \in DOMAIN logged}
    BY DEF ParseAckLog
  <2> QED
    BY <2>3, <2>4
<1>2. IsFiniteSet(failed)
  BY <1>1, FS_Subset DEF PromisedBefore
<1>3. IsFiniteSet({lost[a] : a \in DOMAIN lost})
  BY <1>2, FiniteRange
<1>4. Lost(crashStamp, promised, rec) = {lost[a] : a \in DOMAIN lost}
  BY DEF Lost
<1>5. \A x : IsFiniteSet({x}) /\ IsFiniteSet({})
  BY FS_Singleton, FS_EmptySet
<1>6. IsFiniteSet(Lost(crashStamp, promised, rec))
  BY <1>3, <1>4
<1> HIDE DEF promised, crashStamp, log, failed, lost
<1>7. \A T : IsFiniteSet(T) => IsFiniteSet(Lost(crashStamp, promised, rec) \cup T)
  BY <1>6, FS_Union
<1> QED
  BY <1>5, <1>7 DEF Violations, CheckOracle, promised, crashStamp, log

-----------------------------------------------------------------------------
(* The inductive invariant.  While the drivers run there is no campaign;   *)
(* from then on the trace stands still.                                    *)
NothingYet ==
    phase = "drive" => /\ queue = <<>> /\ tested = 0
                       /\ DOMAIN images = {} /\ DOMAIN findings = {}

TraceTyped ==
    /\ MarkersTyped
    /\ IsSequence(events) /\ IsSequence(owner) /\ IsSequence(queue)
    /\ stamp \in Nat

(* There is a state in hand wherever one is worked on, and evidence comes  *)
(* from the states that were judged before it.                             *)
OneInHand ==
    /\ phase \in {"populate", "recover", "judge", "aborted"} => tested < Len(queue)
    /\ \A s \in DOMAIN findings : findings[s].image \in 1..tested

(* The image in hand is as far as the phase says.                          *)
HandIsWhole ==
    /\ phase = "populate" =>
         images[tested + 1] = [fs |-> EmptyFs(Len(events)), state |-> Current]
    /\ phase = "recover" =>
         images[tested + 1] = [fs |-> ReplaySelection(events, Current), state |-> Current]
    /\ phase = "judge" => /\ images[tested + 1].state = Current
                          /\ recovery = RecoverFileKv(ReplaySelection(events, Current))

FindingsTyped ==
    \A s \in DOMAIN findings :
        DOMAIN findings[s] = {"violation", "occurrences", "state", "image"}

CampaignInv ==
    /\ TypeOK /\ NothingYet /\ TraceTyped /\ OneInHand /\ HandIsWhole
    /\ EvidenceKept /\ FindingsTyped /\ FindingsReproduce

-----------------------------------------------------------------------------
(* What the proof needs of sequences and of an unchanged trace.            *)

LEMMA AppendOne ==
    ASSUME NEW s, IsSequence(s), NEW e
    PROVE  /\ IsSequence(Append(s, e)) /\ Len(s) \in Nat
           /\ Len(Append(s, e)) = Len(s) + 1
           /\ DOMAIN Append(s, e) = 1..(Len(s) + 1) /\ DOMAIN s = 1..Len(s)
           /\ \A k \in 1..Len(s) : Append(s, e)[k] = s[k]
           /\ Append(s, e)[Len(s) + 1] = e
<1> DEFINE R == {s[k] : k \in DOMAIN s}
           t == Append(s, e)
<1>1. s \in Seq(R \cup {e})
  BY DEF IsSequence
<1>2. t \in Seq(R \cup {e}) /\ Len(t) = Len(s) + 1 /\ Len(s) \in Nat
  BY <1>1
<1>3. DOMAIN t = 1..(Len(s) + 1) /\ DOMAIN s = 1..Len(s)
  BY <1>1, <1>2
<1>4. (\A k \in 1..Len(s) : t[k] = s[k]) /\ t[Len(s) + 1] = e
  BY <1>1
<1>5. t \in Seq({t[k] : k \in DOMAIN t})
  BY <1>2, <1>3
<1> QED
  BY <1>2, <1>3, <1>4, <1>5 DEF IsSequence

LEMMA SameTrace ==
    ASSUME UNCHANGED <<events, markers>>, NEW st, NEW rec, NEW s
    PROVE  WithSignature(st, rec, s)' = WithSignature(st, rec, s)
BY DEF WithSignature, Sig, Violations, OperationOf, CrashStamp

LEMMA TraceStands ==
    ASSUME TraceTyped, UNCHANGED <<driverVars, queue>>
    PROVE  TraceTyped'
BY DEF TraceTyped, MarkersTyped, IsSequence, driverVars

LEMMA FindingsStand ==
    ASSUME FindingsReproduce, FindingsTyped, UNCHANGED <<driverVars, findings>>
    PROVE  (FindingsReproduce /\ FindingsTyped)'
BY SameTrace DEF FindingsReproduce, FindingsTyped, driverVars

-----------------------------------------------------------------------------
(* Step by step.                                                           *)

LEMMA Starts == Init => CampaignInv
<1> SUFFICES ASSUME Init PROVE CampaignInv
  OBVIOUS
<1>1. IsSequence(<<>>) /\ Len(<<>>) = 0 /\ DOMAIN <<>> = {}
  BY DEF IsSequence
<1>2. TypeOK
  BY <1>1 DEF Init, TypeOK
<1>3. NothingYet /\ TraceTyped
  BY <1>1 DEF Init, NothingYet, TraceTyped, MarkersTyped
<1>4. OneInHand /\ HandIsWhole /\ EvidenceKept /\ FindingsTyped /\ FindingsReproduce
  BY DEF Init, OneInHand, HandIsWhole, EvidenceKept, FindingsTyped, FindingsReproduce
<1> QED
  BY <1>2, <1>3, <1>4 DEF CampaignInv

LEMMA DriveKeeps ==
    ASSUME CampaignInv, NEW o \in Operations, Drive(o)
    PROVE  CampaignInv'
<1> DEFINE step == protocol[o][pc[o]]
           e == StepCall(o, step)
           m == StepMarker(o, step)
<1> USE DEF CampaignInv
<1>1. TraceTyped' /\ stamp' = Len(events') + Len(markers') /\ Len(owner') = Len(events')
  <2>1. CASE step \in {"begin", "ack"}
    <3>1. markers' = Append(markers, m) /\ UNCHANGED <<events, owner, queue>> /\ stamp' = stamp + 1
      BY <2>1 DEF Drive
    <3>2. m.index = stamp /\ m.phase = step
      BY DEF StepMarker
    <3>3. MarkersTyped'
      BY <2>1, <3>1, <3>2, AppendOne DEF MarkersTyped, TraceTyped
    <3>4. Len(markers') = Len(markers) + 1 /\ Len(markers) \in Nat
      BY <3>1, AppendOne DEF MarkersTyped, TraceTyped
    <3>5. Len(events) \in Nat
      BY LenProperties DEF TraceTyped, IsSequence
    <3>6. UNCHANGED <<IsSequence(events), IsSequence(owner), IsSequence(queue)>>
      BY <3>1 DEF IsSequence
    <3> QED
      BY <3>1, <3>3, <3>4, <3>5, <3>6 DEF TraceTyped, TypeOK
  <2>2. CASE step \notin {"begin", "ack"}
    <3>1. /\ events' = Append(events, e) /\ owner' = Append(owner, o)
          /\ UNCHANGED <<markers, queue>> /\ stamp' = stamp + 1
      BY <2>2 DEF Drive
    <3>2. /\ IsSequence(events') /\ IsSequence(owner')
          /\ Len(events') = Len(events) + 1 /\ Len(owner') = Len(owner) + 1
          /\ Len(events) \in Nat
      BY <3>1, AppendOne DEF TraceTyped
    <3>3. Len(markers) \in Nat
      BY LenProperties DEF TraceTyped, MarkersTyped, IsSequence
    <3>4. MarkersTyped' /\ IsSequence(queue)' = IsSequence(queue)
      BY <3>1 DEF TraceTyped, MarkersTyped, IsSequence
    <3> QED
      BY <3>1, <3>2, <3>3, <3>4 DEF TraceTyped, TypeOK
  <2> QED
    BY <2>1, <2>2
<1>2. phase = "drive" /\ UNCHANGED <<model, phase, queue, tested, images, findings>>
  BY DEF Drive
<1>3. TypeOK'
  BY <1>1, <1>2 DEF TypeOK, Drive
<1>4. DOMAIN findings = {} /\ DOMAIN images = {}
  BY <1>2 DEF NothingYet
<1>5. NothingYet' /\ OneInHand' /\ HandIsWhole'
  BY <1>2, <1>4 DEF NothingYet, OneInHand, HandIsWhole
<1>6. EvidenceKept' /\ FindingsTyped' /\ FindingsReproduce'
  BY <1>2, <1>4 DEF EvidenceKept, FindingsTyped, FindingsReproduce
<1> QED
  BY <1>1, <1>3, <1>5, <1>6

LEMMA StartKeeps ==
    ASSUME CampaignInv, StartCampaign
    PROVE  CampaignInv'
<1> USE DEF CampaignInv
<1>1. phase = "drive" /\ phase' = "materialize" /\ UNCHANGED <<model, driverVars, tested, images, findings>>
  BY DEF StartCampaign
<1>2. IsSequence(queue') /\ Len(queue') \in Nat
  <2>1. PICK n \in 0..MaxTested : \E q \in [1..n -> AllStates] : queue' = q
    BY DEF StartCampaign
  <2> QED
    BY <2>1, CampaignAssumption DEF IsSequence
<1>3. tested = 0 /\ DOMAIN findings = {} /\ DOMAIN images = {}
  BY <1>1 DEF NothingYet
<1>4. TraceTyped'
  BY <1>1, <1>2 DEF TraceTyped, MarkersTyped, IsSequence, driverVars
<1>5. TypeOK'
  BY <1>1, <1>2, <1>3 DEF TypeOK, driverVars
<1>6. NothingYet' /\ OneInHand' /\ HandIsWhole'
  BY <1>1, <1>3 DEF NothingYet, OneInHand, HandIsWhole
<1>7. EvidenceKept' /\ FindingsTyped' /\ FindingsReproduce'
  BY <1>1, <1>3 DEF EvidenceKept, FindingsTyped, FindingsReproduce
<1> QED
  BY <1>4, <1>5, <1>6, <1>7

LEMMA CreateImageKeeps ==
    ASSUME CampaignInv, CreateImage
    PROVE  CampaignInv'
<1> USE DEF CampaignInv
<1>1. /\ phase = "materialize" /\ phase' = "populate" /\ tested < Len(queue)
      /\ UNCHANGED <<model, driverVars, queue, tested, recovery, findings>>
  BY DEF CreateImage
<1>2. Len(queue) \in Nat /\ tested \in Nat
  BY LenProperties DEF TraceTyped, IsSequence, TypeOK
<1>3. DOMAIN images' = DOMAIN images \cup {tested + 1}
  BY DEF CreateImage
<1>4. images'[tested + 1] = [fs |-> EmptyFs(Len(events)), state |-> Current]
  BY DEF CreateImage
<1>5. \A i \in DOMAIN images : i # tested + 1 => images'[i] = images[i]
  BY DEF CreateImage
<1>6. TypeOK' /\ TraceTyped'
  BY <1>1, <1>2, <1>3, TraceStands DEF TypeOK, driverVars
<1>7. NothingYet' /\ OneInHand'
  BY <1>1 DEF NothingYet, OneInHand
<1>8. HandIsWhole'
  BY <1>1, <1>4 DEF HandIsWhole, Current, driverVars
<1>9. EvidenceKept'
  <2>1. \A s \in DOMAIN findings : findings[s].image \in DOMAIN images /\ findings[s].image # tested + 1
    BY <1>1, <1>2 DEF OneInHand, EvidenceKept
  <2> QED
    BY <1>1, <1>3, <1>5, <2>1 DEF EvidenceKept
<1>10. FindingsTyped' /\ FindingsReproduce'
  BY <1>1, FindingsStand
<1> QED
  BY <1>6, <1>7, <1>8, <1>9, <1>10

LEMMA PopulateKeeps ==
    ASSUME CampaignInv, Populate
    PROVE  CampaignInv'
<1> USE DEF CampaignInv
<1> DEFINE whole == ReplaySelection(events, Current)
<1>1. /\ phase = "populate" /\ phase' \in {"recover", "aborted"}
      /\ images' = [images EXCEPT ![tested + 1].fs = whole]
      /\ UNCHANGED <<model, driverVars, queue, tested, recovery, findings>>
  BY DEF Populate
<1>2. Len(queue) \in Nat /\ tested \in Nat /\ tested < Len(queue)
  BY <1>1, LenProperties DEF TraceTyped, IsSequence, TypeOK, OneInHand
<1>3. tested + 1 \in DOMAIN images /\ images[tested + 1] = [fs |-> EmptyFs(Len(events)), state |-> Current]
  BY <1>1 DEF EvidenceKept, HandIsWhole
<1> HIDE DEF whole
<1>4. /\ DOMAIN images' = DOMAIN images
      /\ images'[tested + 1] = [fs |-> whole, state |-> Current]
      /\ \A i \in DOMAIN images : i # tested + 1 => images'[i] = images[i]
  BY <1>1, <1>3
<1>5. TypeOK' /\ TraceTyped'
  BY <1>1, <1>4, TraceStands DEF TypeOK, driverVars
<1>6. NothingYet' /\ OneInHand'
  BY <1>1, <1>2 DEF NothingYet, OneInHand
<1>7. HandIsWhole'
  BY <1>1, <1>4 DEF HandIsWhole, Current, driverVars, whole
<1>8. EvidenceKept'
  <2>1. \A s \in DOMAIN findings : findings[s].image \in DOMAIN images /\ findings[s].image # tested + 1
    BY <1>1, <1>2 DEF OneInHand, EvidenceKept
  <2> QED
    BY <1>1, <1>4, <2>1 DEF EvidenceKept
<1>9. FindingsTyped' /\ FindingsReproduce'
  BY <1>1, FindingsStand
<1> QED
  BY <1>5, <1>6, <1>7, <1>8, <1>9

LEMMA RecoverKeeps ==
    ASSUME CampaignInv, Recover
    PROVE  CampaignInv'
<1> USE DEF CampaignInv
<1>1. /\ phase = "recover" /\ phase' = "judge"
      /\ recovery' = RecoverFileKv(images[tested + 1].fs)
      /\ UNCHANGED <<model, driverVars, queue, tested, images, findings>>
  BY DEF Recover
<1>2. TypeOK' /\ TraceTyped'
  BY <1>1, TraceStands DEF TypeOK, driverVars
<1>3. NothingYet' /\ OneInHand' /\ EvidenceKept'
  BY <1>1 DEF NothingYet, OneInHand, EvidenceKept
<1>4. HandIsWhole'
  BY <1>1 DEF HandIsWhole, Current, driverVars
<1>5. FindingsTyped' /\ FindingsReproduce'
  BY <1>1, FindingsStand
<1> QED
  BY <1>2, <1>3, <1>4, <1>5

(* Nothing but the phase changes.                                          *)
LEMMA StopKeeps ==
    ASSUME CampaignInv, HostFails \/ FinishCampaign \/ UNCHANGED vars
    PROVE  CampaignInv'
<1> USE DEF CampaignInv
<1>1. UNCHANGED <<model, driverVars, queue, tested, images, recovery, findings>>
  BY DEF HostFails, FinishCampaign, vars, driverVars
<1>2. \/ phase \in {"populate", "recover"} /\ phase' = "aborted"
      \/ phase = "materialize" /\ phase' = "done"
      \/ phase' = phase
  BY DEF HostFails, FinishCampaign, vars
<1>3. TypeOK' /\ TraceTyped'
  BY <1>1, <1>2, TraceStands DEF TypeOK, driverVars
<1>4. NothingYet' /\ OneInHand' /\ EvidenceKept'
  BY <1>1, <1>2 DEF NothingYet, OneInHand, EvidenceKept
<1>5. HandIsWhole'
  BY <1>1, <1>2 DEF HandIsWhole, Current, driverVars
<1>6. FindingsTyped' /\ FindingsReproduce'
  BY <1>1, FindingsStand
<1> QED
  BY <1>3, <1>4, <1>5, <1>6

(* Folding one state's violations into the findings: what was found keeps  *)
(* its violation, state and image and never loses an occurrence; what is   *)
(* new is one of the state's violations.                                   *)
LEMMA FoldKeeps ==
    ASSUME MarkersTyped, NEW found, NEW st, NEW rec, NEW image,
           \A s \in DOMAIN found :
              /\ DOMAIN found[s] = {"violation", "occurrences", "state", "image"}
              /\ found[s].occurrences \in Nat \ {0}
    PROVE  LET after == FoldFindings(found, st, rec, image)
           IN  /\ DOMAIN found \subseteq DOMAIN after
               /\ \A s \in DOMAIN after :
                    /\ DOMAIN after[s] = {"violation", "occurrences", "state", "image"}
                    /\ after[s].occurrences \in Nat \ {0}
                    /\ IF s \in DOMAIN found
                       THEN /\ after[s].violation = found[s].violation
                            /\ after[s].state = found[s].state
                            /\ after[s].image = found[s].image
                       ELSE /\ after[s].violation \in WithSignature(st, rec, s)
                            /\ after[s].state = st
                            /\ after[s].image = image
<1> DEFINE now == {Sig(v, st) : v \in Violations(st, rec)}
           count(s) == Cardinality(WithSignature(st, rec, s))
           first(s) == FirstOf(WithSignature(st, rec, s))
           after == FoldFindings(found, st, rec, image)
<1>1. \A s \in now : count(s) \in Nat \ {0} /\ first(s) \in WithSignature(st, rec, s)
  <2> SUFFICES ASSUME NEW s \in now
               PROVE  count(s) \in Nat \ {0} /\ first(s) \in WithSignature(st, rec, s)
    OBVIOUS
  <2>1. WithSignature(st, rec, s) # {}
    BY DEF WithSignature
  <2>2. IsFiniteSet(WithSignature(st, rec, s))
    BY ViolationsFinite, FS_Subset DEF WithSignature
  <2>3. count(s) \in Nat /\ count(s) # 0
    <3> DEFINE W == WithSignature(st, rec, s)
    <3> HIDE DEF W
    <3>1. Cardinality(W) \in Nat /\ (Cardinality(W) = 0 <=> W = {})
      BY <2>2, FS_CardinalityType, FS_EmptySet DEF W
    <3> QED
      BY <2>1, <3>1 DEF W
  <2>4. first(s) \in WithSignature(st, rec, s)
    BY <2>1, FirstIsOne
  <2> QED
    BY <2>3, <2>4
<1>2. after = [s \in DOMAIN found \cup now |->
                 IF s \notin now THEN found[s]
                 ELSE IF s \in DOMAIN found THEN [found[s] EXCEPT !.occurrences = @ + count(s)]
                 ELSE [violation |-> first(s), occurrences |-> count(s),
                       state |-> st, image |-> image]]
  BY DEF FoldFindings
<1> HIDE DEF now, count, first, after
<1>3. DOMAIN after = DOMAIN found \cup now
  BY <1>2
<1> SUFFICES ASSUME NEW s \in DOMAIN after
             PROVE  /\ DOMAIN after[s] = {"violation", "occurrences", "state", "image"}
                    /\ after[s].occurrences \in Nat \ {0}
                    /\ IF s \in DOMAIN found
                       THEN /\ after[s].violation = found[s].violation
                            /\ after[s].state = found[s].state
                            /\ after[s].image = found[s].image
                       ELSE /\ after[s].violation \in WithSignature(st, rec, s)
                            /\ after[s].state = st
                            /\ after[s].image = image
  BY <1>3 DEF after
<1>4. CASE s \notin now
  <2>1. s \in DOMAIN found /\ after[s] = found[s]
    BY <1>2, <1>3, <1>4
  <2> QED
    BY <2>1
<1>5. CASE s \in now /\ s \in DOMAIN found
  <2>1. after[s] = [found[s] EXCEPT !.occurrences = @ + count(s)]
    BY <1>2, <1>3, <1>5
  <2>2. count(s) \in Nat
    BY <1>1, <1>5
  <2>3. after[s].occurrences = found[s].occurrences + count(s)
    BY <2>1, <1>5
  <2> QED
    BY <1>5, <2>1, <2>2, <2>3
<1>6. CASE s \in now /\ s \notin DOMAIN found
  <2>1. after[s] = [violation |-> first(s), occurrences |-> count(s), state |-> st, image |-> image]
    BY <1>2, <1>3, <1>6
  <2> QED
    BY <1>1, <1>6, <2>1
<1> QED
  BY <1>4, <1>5, <1>6

LEMMA JudgeKeeps ==
    ASSUME CampaignInv, Judge
    PROVE  CampaignInv'
<1> USE DEF CampaignInv
<1> DEFINE image == tested + 1
           new == {s \in DOMAIN findings' : s \notin DOMAIN findings}
<1>1. /\ phase = "judge" /\ phase' = "materialize" /\ tested' = tested + 1
      /\ findings' = FoldFindings(findings, Current, recovery, image)
      /\ images' = [i \in KeptImages(findings', image) |-> images[i]]
      /\ UNCHANGED <<model, driverVars, queue, recovery>>
  BY DEF Judge
<1>2. Len(queue) \in Nat /\ tested \in Nat /\ tested < Len(queue)
  BY <1>1, LenProperties DEF TraceTyped, IsSequence, TypeOK, OneInHand
<1>3. \A s \in DOMAIN findings :
         /\ DOMAIN findings[s] = {"violation", "occurrences", "state", "image"}
         /\ findings[s].occurrences \in Nat \ {0}
         /\ findings[s].image \in 1..tested
  BY DEF FindingsTyped, TypeOK, OneInHand
<1>4. /\ DOMAIN findings \subseteq DOMAIN findings'
      /\ \A s \in DOMAIN findings' :
           /\ DOMAIN findings'[s] = {"violation", "occurrences", "state", "image"}
           /\ findings'[s].occurrences \in Nat \ {0}
           /\ s \notin new => /\ findings'[s].violation = findings[s].violation
                              /\ findings'[s].state = findings[s].state
                              /\ findings'[s].image = findings[s].image
           /\ s \in new => /\ findings'[s].violation \in WithSignature(Current, recovery, s)
                           /\ findings'[s].state = Current
                           /\ findings'[s].image = image
  BY <1>1, <1>3, FoldKeeps DEF TraceTyped
<1> HIDE DEF new
<1>5. new = {s \in DOMAIN findings' : s \notin DOMAIN findings}
  BY DEF new
<1>6. DOMAIN images = {findings[s].image : s \in DOMAIN findings} \cup {image}
  BY <1>1 DEF EvidenceKept
<1>7. {findings'[s].image : s \in DOMAIN findings'} =
        {findings[s].image : s \in DOMAIN findings} \cup (IF new = {} THEN {} ELSE {image})
  BY <1>4, <1>5
<1>8. DOMAIN images' = {findings'[s].image : s \in DOMAIN findings'}
  <2>1. image \notin {findings[s].image : s \in DOMAIN findings}
    BY <1>2, <1>3
  <2>2. DOMAIN images' = KeptImages(findings', image)
    BY <1>1
  <2>3. CASE new = {}
    <3>1. ~ \E s \in DOMAIN findings' : findings'[s].image = image
      BY <1>7, <2>1, <2>3
    <3> QED
      BY <1>6, <1>7, <2>1, <2>2, <2>3, <3>1 DEF KeptImages
  <2>4. CASE new # {}
    <3>1. \E s \in DOMAIN findings' : findings'[s].image = image
      BY <1>7, <2>4
    <3> QED
      BY <1>6, <1>7, <2>2, <2>4, <3>1 DEF KeptImages
  <2> QED
    BY <2>3, <2>4
<1>9. \A i \in DOMAIN images' : images'[i] = images[i]
  BY <1>1
<1>10. TypeOK' /\ TraceTyped'
  <2>1. DOMAIN images' \subseteq 1..Len(queue)
    BY <1>2, <1>3, <1>6, <1>7, <1>8
  <2>2. tested' \in 0..Len(queue)
    BY <1>1, <1>2
  <2> QED
    BY <1>1, <1>4, <2>1, <2>2, TraceStands DEF TypeOK, driverVars
<1>11. NothingYet' /\ HandIsWhole'
  BY <1>1 DEF NothingYet, HandIsWhole
<1>12. OneInHand'
  BY <1>1, <1>2, <1>3, <1>4, <1>5 DEF OneInHand
<1>13. EvidenceKept'
  <2>1. images[image].state = Current
    BY <1>1 DEF HandIsWhole
  <2>2. ASSUME NEW s \in DOMAIN findings' PROVE images'[findings'[s].image].state = findings'[s].state
    <3>1. images'[findings'[s].image] = images[findings'[s].image]
      BY <1>8, <1>9
    <3>2. s \notin new => images[findings[s].image].state = findings[s].state
      BY <1>5 DEF EvidenceKept
    <3> QED
      BY <1>4, <2>1, <3>1, <3>2
  <2> QED
    BY <1>1, <1>8, <2>2 DEF EvidenceKept
<1>14. FindingsTyped'
  BY <1>4 DEF FindingsTyped
<1>15. FindingsReproduce'
  <2> SUFFICES ASSUME NEW s \in DOMAIN findings'
               PROVE  findings'[s].violation \in
                        WithSignature(findings'[s].state,
                                      RecoverFileKv(ReplaySelection(events, findings'[s].state)), s)
    BY <1>1, SameTrace DEF FindingsReproduce, driverVars
  <2>1. recovery = RecoverFileKv(ReplaySelection(events, Current))
    BY <1>1 DEF HandIsWhole
  <2>2. CASE s \in new
    BY <1>4, <2>1, <2>2
  <2>3. CASE s \notin new
    BY <1>4, <1>5, <2>3 DEF FindingsReproduce
  <2> QED
    BY <2>2, <2>3
<1> QED
  BY <1>10, <1>11, <1>12, <1>13, <1>14, <1>15

-----------------------------------------------------------------------------
(* The theorems.                                                           *)

LEMMA CampaignInvHolds == Spec => []CampaignInv
<1>1. CampaignInv /\ [Next]_vars => CampaignInv'
  <2> SUFFICES ASSUME CampaignInv, [Next]_vars PROVE CampaignInv'
    OBVIOUS
  <2>1. ASSUME NEW o \in Operations, Drive(o) PROVE CampaignInv'
    BY <2>1, DriveKeeps
  <2>2. CASE StartCampaign
    BY <2>2, StartKeeps
  <2>3. CASE CreateImage
    BY <2>3, CreateImageKeeps
  <2>4. CASE Populate
    BY <2>4, PopulateKeeps
  <2>5. CASE Recover
    BY <2>5, RecoverKeeps
  <2>6. CASE Judge
    BY <2>6, JudgeKeeps
  <2>7. CASE HostFails \/ FinishCampaign \/ Ended \/ UNCHANGED vars
    BY <2>7, StopKeeps DEF Ended
  <2> QED
    BY <2>1, <2>2, <2>3, <2>4, <2>5, <2>6, <2>7 DEF Next
<1> QED
  BY <1>1, Starts, PTL DEF Spec

(* Types: calls and markers share one counter, and every finding was seen  *)
(* at least once (campaign.ts, runCampaign).                               *)
THEOREM CampaignTypes == Spec => []TypeOK
BY CampaignInvHolds, PTL DEF CampaignInv

(* campaign.ts: the images on disk are the evidence and the one in hand,   *)
(* each of the state its finding shows, also when an exception ends it.    *)
THEOREM EvidenceIsKept == Spec => []EvidenceKept
BY CampaignInvHolds, PTL DEF CampaignInv

(* The violation a finding reports is one the oracle reports of the state  *)
(* it kept, under its signature (campaign.ts, dedup.ts).                   *)
THEOREM FindingsCanBeShown == Spec => []FindingsReproduce
BY CampaignInvHolds, PTL DEF CampaignInv

(* runCampaign implements the loop of StateTesting: every step is a step   *)
(* of it or invisible to it (campaign.ts, the loop over sample.tested).    *)
THEOREM CampaignTestsStates == Spec => TestsStates
<1> USE DEF Stage, Loop!vars
<1>1. Init => Loop!Init
  BY DEF Init, Loop!Init
<1>2. CampaignInv /\ [Next]_vars => [Loop!Next]_(Loop!vars)
  <2> SUFFICES ASSUME CampaignInv, [Next]_vars
               PROVE  Loop!Next \/ UNCHANGED Loop!vars
    OBVIOUS
  <2> USE DEF CampaignInv
  <2>1. Len(queue) \in Nat /\ tested \in 0..Len(queue)
    BY LenProperties DEF TraceTyped, IsSequence, TypeOK
  <2>2. ASSUME NEW o \in Operations, Drive(o) PROVE UNCHANGED Loop!vars
    BY <2>2 DEF Drive
  <2>3. CASE StartCampaign
    <3>1. phase = "drive" /\ phase' = "materialize" /\ tested' = 0
      BY <2>3 DEF StartCampaign, NothingYet
    <3>2. Len(queue') \in Nat
      BY <2>3, StartKeeps, LenProperties DEF TraceTyped, IsSequence
    <3> QED
      BY <3>1, <3>2 DEF Loop!Next, Loop!Sample
  <2>4. CASE CreateImage
    <3>1. /\ phase = "materialize" /\ phase' = "populate" /\ tested < Len(queue)
          /\ UNCHANGED <<events, queue, tested>>
      BY <2>4 DEF CreateImage, driverVars
    <3>2. images'[tested + 1] = [fs |-> EmptyFs(Len(events)), state |-> Current]
      BY <2>4 DEF CreateImage
    <3> QED
      BY <2>1, <3>1, <3>2 DEF Current, Loop!Next, Loop!Make
  <2>5. CASE Populate
    <3>1. /\ phase = "populate" /\ phase' \in {"recover", "aborted"}
          /\ UNCHANGED <<events, queue, tested>>
      BY <2>5 DEF Populate, driverVars
    <3>2. Stage = "made"
      BY <3>1 DEF HandIsWhole
    <3>3. CASE phase' = "recover"
      <4>1. HandIsWhole'
        BY <2>5, PopulateKeeps
      <4>2. Stage' = "whole"
        BY <3>3, <4>1 DEF HandIsWhole
      <4> QED
        BY <3>1, <3>2, <4>2 DEF Loop!Next, Loop!Populate
    <3>4. CASE phase' = "aborted"
      BY <3>1, <3>2, <3>4 DEF Loop!Next, Loop!Stop
    <3> QED
      BY <3>1, <3>3, <3>4
  <2>6. CASE Recover
    <3>1. phase = "recover" /\ phase' = "judge" /\ UNCHANGED <<queue, tested>>
      BY <2>6 DEF Recover
    <3>2. Stage = "whole"
      BY <3>1 DEF HandIsWhole
    <3>3. HandIsWhole'
      BY <2>6, RecoverKeeps
    <3>4. Stage' = "recovered"
      BY <3>1, <3>3 DEF HandIsWhole
    <3> QED
      BY <3>1, <3>2, <3>4 DEF Loop!Next, Loop!Recover
  <2>7. CASE HostFails
    <3>1. phase \in {"populate", "recover"} /\ phase' = "aborted" /\ UNCHANGED <<queue, tested>>
      BY <2>7 DEF HostFails
    <3>2. Stage \in {"made", "whole"}
      BY <3>1 DEF HandIsWhole
    <3> QED
      BY <3>1, <3>2 DEF Loop!Next, Loop!Stop
  <2>8. CASE Judge
    <3>1. /\ phase = "judge" /\ phase' = "materialize" /\ tested' = tested + 1
          /\ UNCHANGED queue
      BY <2>8 DEF Judge
    <3>2. Stage = "recovered"
      BY <3>1 DEF HandIsWhole
    <3> QED
      BY <2>1, <3>1, <3>2 DEF Loop!Next, Loop!Judge
  <2>9. CASE FinishCampaign
    BY <2>9 DEF FinishCampaign
  <2>10. CASE Ended \/ UNCHANGED vars
    BY <2>10 DEF Ended, vars, Current
  <2> QED
    BY <2>2, <2>3, <2>4, <2>5, <2>6, <2>7, <2>8, <2>9, <2>10 DEF Next
<1> QED
  BY <1>1, <1>2, CampaignInvHolds, PTL DEF Spec, TestsStates, Loop!Safety

-----------------------------------------------------------------------------
(* What is lost and who is blamed.  From here on every operation has a key *)
(* and a scratch file of its own, as in targets/unsafe-kv/main.c, and      *)
(* follows one of the three protocols.                                     *)
OwnFiles ==
    /\ KeyOf \in [Operations -> Paths] /\ Tmp \in [Operations -> Paths]
    /\ \A o, p \in Operations :
          /\ KeyOf[o] # Tmp[p]
          /\ o # p => KeyOf[o] # KeyOf[p] /\ Tmp[o] # Tmp[p]
    /\ \A o \in Operations : Tmp[o] # Dir
    /\ Protocols \subseteq {unsafeKv, syncedInPlace, syncedRename}

MARKS == {"begin", "ack"}
CALLS == {"open", "write", "put", "close", "rename", "sync", "syncTmp", "syncDir"}

(* What a driver's call is, whatever its stamp.                            *)
Says(e, o, step) ==
    /\ e.ret = 0 /\ e.off = 0 /\ e.value = Value(o)
    /\ step = "open" => e.call = "open"
    /\ step = "write" => e.call = "write" /\ e.path = Tmp[o] /\ e.len = ValueBytes
    /\ step = "put" => e.call = "pwrite" /\ e.path = KeyOf[o] /\ e.len = ValueBytes
    /\ step = "close" => e.call = "close"
    /\ step = "rename" => e.call = "rename" /\ e.path = Tmp[o] /\ e.path2 = KeyOf[o]
    /\ step = "sync" => e.call = "fdatasync" /\ e.path = KeyOf[o]
    /\ step = "syncTmp" => e.call = "fsync" /\ e.path = Tmp[o]
    /\ step = "syncDir" => e.call = "fsync" /\ e.path = Dir

(* ... and its markers.                                                    *)
Marks(m, o, step) ==
    /\ m.op = o /\ m.phase = step /\ m.key = KeyOf[o]
    /\ step = "ack" => m.digest = Value(o)
    /\ m.durable <=> (step = "ack" /\ durable[o])

LEMMA CallSays ==
    ASSUME NEW o \in Operations, NEW step \in CALLS
    PROVE  Says(StepCall(o, step), o, step) /\ StepCall(o, step).stamp = stamp
BY DEF CALLS, StepCall, Call, Says

LEMMA MarkerSays ==
    ASSUME NEW o \in Operations, NEW step \in MARKS
    PROVE  Marks(StepMarker(o, step), o, step) /\ StepMarker(o, step).index = stamp
<1> DEFINE m == StepMarker(o, step)
<1>1. /\ m.index = stamp /\ m.op = o /\ m.phase = step /\ m.key = KeyOf[o]
      /\ m.durable = (step = "ack" /\ durable[o])
      /\ m.digest = IF step = "ack" THEN Value(o) ELSE ""
  BY DEF StepMarker
<1> HIDE DEF m
<1>2. m.durable <=> (step = "ack" /\ durable[o])
  BY <1>1, Zenon
<1>3. Marks(m, o, step)
  BY <1>1, <1>2 DEF Marks
<1> QED
  BY <1>1, <1>3 DEF m

LEMMA Steps ==
    ASSUME OwnFiles, NEW p \in Protocols
    PROVE  /\ Len(p) \in Nat
           /\ \A k \in 1..Len(p) : p[k] \in MARKS \cup CALLS
           /\ \A k, l \in 1..Len(p) : p[k] = p[l] => k = l
BY DEF OwnFiles, unsafeKv, syncedInPlace, syncedRename, MARKS, CALLS

(* Operation o has taken its steps in order, the k-th at stamp w[k], and   *)
(* what the trace has of it is what those steps left.                      *)
Took(o, w) ==
    /\ w \in [1..(pc[o] - 1) -> 0..(stamp - 1)]
    /\ \A k, l \in DOMAIN w : k < l => w[k] < w[l]
    /\ \A k \in DOMAIN w :
          IF protocol[o][k] \in MARKS
          THEN \E m \in DOMAIN markers : markers[m].op = o /\ markers[m].index = w[k]
          ELSE \E i \in DOMAIN events : owner[i] = o /\ events[i].stamp = w[k]
    /\ \A m \in DOMAIN markers : markers[m].op = o =>
          \E k \in DOMAIN w : /\ protocol[o][k] \in MARKS
                              /\ markers[m].index = w[k]
                              /\ Marks(markers[m], o, protocol[o][k])
    /\ \A i \in DOMAIN events : owner[i] = o =>
          \E k \in DOMAIN w : /\ protocol[o][k] \in CALLS
                              /\ events[i].stamp = w[k]
                              /\ Says(events[i], o, protocol[o][k])

(* Stamps ascend in both lists, and the lists share none.                  *)
Stamped ==
    /\ \A i \in DOMAIN events : events[i].stamp \in 0..(stamp - 1) /\ owner[i] \in Operations
    /\ \A m \in DOMAIN markers : markers[m].index \in 0..(stamp - 1) /\ markers[m].op \in Operations
    /\ \A i, j \in DOMAIN events : i < j => events[i].stamp < events[j].stamp
    /\ \A m, n \in DOMAIN markers : m < n => markers[m].index < markers[n].index
    /\ \A i \in DOMAIN events, m \in DOMAIN markers : events[i].stamp # markers[m].index

Driven ==
    \A o \in Operations :
        /\ protocol[o] \in Protocols
        /\ pc[o] \in 1..(Len(protocol[o]) + 1)
        /\ \E w : Took(o, w)

(* One driver after the other, unless they run in threads of their own.    *)
InTurn ==
    ~Concurrent =>
        /\ \A o, p \in Operations : (o < p /\ pc[p] > 1) => Finished(o)
        /\ \A i \in DOMAIN events, m \in DOMAIN markers :
              markers[m].op < owner[i] => markers[m].index < events[i].stamp
        /\ \A i, j \in DOMAIN events : i < j => owner[i] <= owner[j]

(* The campaign follows, on states of the trace.                           *)
OfTheTrace ==
    /\ phase # "drive" => \A o \in Operations : Finished(o)
    /\ \A k \in DOMAIN queue : queue[k] \in AllStates
    /\ \A s \in DOMAIN findings : findings[s].state \in AllStates

DriverInv == Stamped /\ Driven /\ InTurn

(* What a driver's step adds to the trace, at the end of one of its lists. *)
Adds(o, step) ==
    /\ \A m \in DOMAIN markers : m \in Int /\ m \in DOMAIN markers' /\ markers'[m] = markers[m]
    /\ \A m \in DOMAIN markers' :
          \/ m \in DOMAIN markers
          \/ /\ step \in MARKS /\ m \in Int /\ \A k \in DOMAIN markers : k < m
             /\ \A k \in DOMAIN markers' : k <= m
             /\ markers'[m].index = stamp /\ Marks(markers'[m], o, step)
    /\ step \in MARKS => \E m \in DOMAIN markers' : markers'[m].op = o /\ markers'[m].index = stamp
    /\ \A i \in DOMAIN events : /\ i \in Int /\ i \in DOMAIN events'
                                /\ events'[i] = events[i] /\ owner'[i] = owner[i]
    /\ \A i \in DOMAIN events' :
          \/ i \in DOMAIN events
          \/ /\ step \in CALLS /\ i \in Int /\ \A k \in DOMAIN events : k < i
             /\ \A k \in DOMAIN events' : k <= i
             /\ events'[i].stamp = stamp /\ owner'[i] = o /\ Says(events'[i], o, step)
    /\ step \in CALLS => \E i \in DOMAIN events' : owner'[i] = o /\ events'[i].stamp = stamp

LEMMA DriveAdds ==
    ASSUME OwnFiles, CampaignInv, DriverInv, NEW o \in Operations, Drive(o)
    PROVE  /\ Adds(o, protocol[o][pc[o]])
           /\ protocol[o][pc[o]] \in MARKS \cup CALLS
           /\ pc[o] \in 1..Len(protocol[o]) /\ Len(protocol[o]) \in Nat
           /\ pc \in [Operations -> Nat] /\ pc' = [pc EXCEPT ![o] = @ + 1]
           /\ stamp \in Nat /\ stamp' = stamp + 1
           /\ UNCHANGED <<protocol, durable, phase>>
<1> DEFINE step == protocol[o][pc[o]]
<1>1. /\ pc[o] \in 1..Len(protocol[o]) /\ Len(protocol[o]) \in Nat /\ step \in MARKS \cup CALLS
  <2>1. protocol[o] \in Protocols /\ pc[o] \in 1..(Len(protocol[o]) + 1) /\ ~Finished(o)
    BY DEF DriverInv, Driven, Drive
  <2>2. Len(protocol[o]) \in Nat
    BY <2>1, Steps
  <2>3. pc[o] \in 1..Len(protocol[o])
    BY <2>1, <2>2 DEF Finished
  <2> QED
    BY <2>1, <2>2, <2>3, Steps
<1>2. /\ pc \in [Operations -> Nat] /\ pc' = [pc EXCEPT ![o] = @ + 1]
      /\ stamp \in Nat /\ stamp' = stamp + 1
      /\ UNCHANGED <<protocol, durable, phase>>
  BY DEF CampaignInv, TypeOK, TraceTyped, Drive
<1>3. /\ IsSequence(markers) /\ IsSequence(events) /\ IsSequence(owner) /\ Len(owner) = Len(events)
  BY DEF CampaignInv, TypeOK, TraceTyped, MarkersTyped
<1>4. /\ Len(markers) \in Nat /\ DOMAIN markers = 1..Len(markers)
      /\ Len(events) \in Nat /\ DOMAIN events = 1..Len(events)
  BY <1>3, LenProperties DEF IsSequence
<1>5. CASE step \in MARKS
  <2>1. markers' = Append(markers, StepMarker(o, step)) /\ UNCHANGED <<events, owner>>
    BY <1>5 DEF MARKS, Drive
  <2> DEFINE n == Len(markers) + 1
  <2>2. /\ DOMAIN markers' = 1..n /\ markers'[n] = StepMarker(o, step)
        /\ \A k \in 1..Len(markers) : markers'[k] = markers[k]
    BY <1>3, <2>1, AppendOne
  <2>3. Marks(markers'[n], o, step) /\ markers'[n].index = stamp /\ markers'[n].op = o
    <3>1. Marks(markers'[n], o, step) /\ markers'[n].index = stamp
      BY <1>5, <2>2, MarkerSays
    <3> QED
      BY <3>1 DEF Marks
  <2>4. step \notin CALLS
    BY <1>5 DEF MARKS, CALLS
  <2> HIDE DEF step
  <2>5. Adds(o, step)
    BY <1>4, <1>5, <2>1, <2>2, <2>3, <2>4 DEF Adds
  <2> QED
    BY <1>1, <1>2, <2>5 DEF step
<1>6. CASE step \in CALLS
  <2>0. step \notin MARKS
    BY <1>6 DEF MARKS, CALLS
  <2>1. /\ events' = Append(events, StepCall(o, step)) /\ owner' = Append(owner, o)
        /\ UNCHANGED markers
    BY <2>0 DEF MARKS, Drive
  <2> DEFINE n == Len(events) + 1
  <2>2. /\ DOMAIN events' = 1..n /\ events'[n] = StepCall(o, step)
        /\ \A k \in 1..Len(events) : events'[k] = events[k]
    BY <1>3, <2>1, AppendOne
  <2>3. owner'[n] = o /\ \A k \in 1..Len(events) : owner'[k] = owner[k]
    BY <1>3, <2>1, AppendOne
  <2>4. Says(events'[n], o, step) /\ events'[n].stamp = stamp
    BY <1>6, <2>2, CallSays
  <2> HIDE DEF step
  <2>5. /\ \A i \in DOMAIN events : /\ i \in Int /\ i \in DOMAIN events'
                                    /\ events'[i] = events[i] /\ owner'[i] = owner[i]
        /\ \A m \in DOMAIN markers : m \in Int
    BY <1>4, <2>2, <2>3
  <2>6. \A i \in DOMAIN events' :
          \/ i \in DOMAIN events
          \/ i = n /\ i \in Int /\ (\A k \in DOMAIN events : k < i) /\ (\A k \in DOMAIN events' : k <= i)
    BY <1>4, <2>2
  <2>7. n \in DOMAIN events'
    BY <1>4, <2>2
  <2> HIDE DEF n
  <2>8. Adds(o, step)
    BY <1>6, <2>0, <2>1, <2>3, <2>4, <2>5, <2>6, <2>7 DEF Adds
  <2> QED
    BY <1>1, <1>2, <2>8 DEF step
<1> QED
  BY <1>1, <1>5, <1>6

LEMMA DriverStarts ==
    ASSUME OwnFiles, Init
    PROVE  DriverInv
<1>1. DOMAIN events = {} /\ DOMAIN markers = {}
  BY DEF Init
<1>2. ASSUME NEW o \in Operations PROVE Took(o, [k \in 1..(pc[o] - 1) |-> 0])
  BY <1>1 DEF Init, Took
<1>3. \A o \in Operations : protocol[o] \in Protocols /\ pc[o] = 1 /\ Len(protocol[o]) \in Nat
  BY Steps DEF Init
<1>4. Stamped
  BY <1>1 DEF Stamped
<1>5. Driven
  <2> SUFFICES ASSUME NEW o \in Operations
               PROVE  /\ protocol[o] \in Protocols
                      /\ pc[o] \in 1..(Len(protocol[o]) + 1)
                      /\ \E w : Took(o, w)
    BY DEF Driven
  <2>1. \E w : Took(o, w)
    BY <1>2, Zenon
  <2> QED
    BY <1>3, <2>1
<1>6. InTurn
  BY <1>1, <1>3 DEF InTurn
<1> QED
  BY <1>4, <1>5, <1>6 DEF DriverInv

LEMMA DriverStands ==
    ASSUME DriverInv, UNCHANGED driverVars
    PROVE  DriverInv'
<1>1. Stamped'
  BY DEF DriverInv, Stamped, driverVars
<1>2. InTurn'
  BY DEF DriverInv, InTurn, Finished, driverVars
<1>3. ASSUME NEW o, NEW w, Took(o, w) PROVE Took(o, w)'
  BY <1>3 DEF Took, Marks, driverVars
<1>4. Driven'
  BY <1>3 DEF DriverInv, Driven, driverVars
<1> QED
  BY <1>1, <1>2, <1>4 DEF DriverInv

LEMMA DriveStamped ==
    ASSUME OwnFiles, CampaignInv, DriverInv, NEW o \in Operations, Drive(o)
    PROVE  Stamped'
<1> DEFINE step == protocol[o][pc[o]]
<1>1. Adds(o, step) /\ stamp \in Nat /\ stamp' = stamp + 1
  BY DriveAdds
<1> HIDE DEF step
<1>2. Stamped
  BY DEF DriverInv
<1>3. \A i \in DOMAIN events' : events'[i].stamp \in 0..stamp /\ owner'[i] \in Operations
  BY <1>1, <1>2 DEF Adds, Stamped
<1>4. \A m \in DOMAIN markers' : markers'[m].index \in 0..stamp /\ markers'[m].op \in Operations
  BY <1>1, <1>2 DEF Adds, Stamped, Marks
<1>5. \A i, j \in DOMAIN events' : i < j => events'[i].stamp < events'[j].stamp
  <2> SUFFICES ASSUME NEW i \in DOMAIN events', NEW j \in DOMAIN events', i < j
               PROVE  events'[i].stamp < events'[j].stamp
    OBVIOUS
  <2>1. i \in DOMAIN events
    BY <1>1 DEF Adds
  <2>2. CASE j \in DOMAIN events
    BY <1>1, <1>2, <2>1, <2>2 DEF Adds, Stamped
  <2>3. CASE j \notin DOMAIN events
    BY <1>1, <1>2, <2>1, <2>3 DEF Adds, Stamped
  <2> QED
    BY <2>2, <2>3
<1>6. \A m, n \in DOMAIN markers' : m < n => markers'[m].index < markers'[n].index
  <2> SUFFICES ASSUME NEW m \in DOMAIN markers', NEW n \in DOMAIN markers', m < n
               PROVE  markers'[m].index < markers'[n].index
    OBVIOUS
  <2>1. m \in DOMAIN markers
    BY <1>1 DEF Adds
  <2>2. CASE n \in DOMAIN markers
    BY <1>1, <1>2, <2>1, <2>2 DEF Adds, Stamped
  <2>3. CASE n \notin DOMAIN markers
    BY <1>1, <1>2, <2>1, <2>3 DEF Adds, Stamped
  <2> QED
    BY <2>2, <2>3
<1>7. ASSUME NEW i \in DOMAIN events', NEW m \in DOMAIN markers'
      PROVE  events'[i].stamp # markers'[m].index
  <2>1. i \in DOMAIN events \/ m \in DOMAIN markers
    <3>1. ~(step \in MARKS /\ step \in CALLS)
      BY DEF MARKS, CALLS
    <3> QED
      BY <1>1, <3>1 DEF Adds
  <2>2. CASE i \in DOMAIN events /\ m \in DOMAIN markers
    BY <1>1, <1>2, <2>2 DEF Adds, Stamped
  <2>3. CASE i \in DOMAIN events /\ m \notin DOMAIN markers
    BY <1>1, <1>2, <2>3 DEF Adds, Stamped
  <2>4. CASE i \notin DOMAIN events /\ m \in DOMAIN markers
    BY <1>1, <1>2, <2>4 DEF Adds, Stamped
  <2> QED
    BY <2>1, <2>2, <2>3, <2>4
<1> QED
  BY <1>1, <1>3, <1>4, <1>5, <1>6, <1>7 DEF Stamped

LEMMA DriveDriven ==
    ASSUME OwnFiles, CampaignInv, DriverInv, NEW o \in Operations, Drive(o)
    PROVE  Driven'
<1> DEFINE step == protocol[o][pc[o]]
<1>1. /\ Adds(o, step) /\ step \in MARKS \cup CALLS
      /\ pc[o] \in 1..Len(protocol[o]) /\ Len(protocol[o]) \in Nat
      /\ pc \in [Operations -> Nat] /\ pc' = [pc EXCEPT ![o] = @ + 1]
      /\ stamp \in Nat /\ stamp' = stamp + 1
      /\ UNCHANGED <<protocol, durable, phase>>
  BY DriveAdds
<1>2. step = protocol[o][pc[o]]
  OBVIOUS
<1> HIDE DEF step
<1>3. \A m, p, s : Marks(m, p, s)' <=> Marks(m, p, s)
  BY <1>1 DEF Marks
<1> SUFFICES ASSUME NEW p \in Operations
             PROVE  /\ protocol'[p] \in Protocols
                    /\ pc'[p] \in 1..(Len(protocol'[p]) + 1)
                    /\ \E w : Took(p, w)'
  BY DEF Driven
<1>4. protocol[p] \in Protocols /\ pc[p] \in 1..(Len(protocol[p]) + 1)
  BY DEF DriverInv, Driven
<1>5. PICK w : Took(p, w)
  BY DEF DriverInv, Driven
<1>6. CASE p = o
  <2>a. PICK n : n = pc[o]
    OBVIOUS
  <2>b. PICK v : v = [k \in 1..n |-> IF k = n THEN stamp ELSE w[k]]
    OBVIOUS
  <2>1. n \in Nat /\ n >= 1 /\ pc'[o] = n + 1 /\ pc'[o] - 1 = n
    BY <1>1, <2>a
  <2>2. w \in [1..(n - 1) -> 0..(stamp - 1)] /\ DOMAIN w = 1..(n - 1)
    BY <1>5, <1>6, <2>a DEF Took
  <2>3. /\ DOMAIN v = 1..n /\ v[n] = stamp /\ \A k \in DOMAIN w : k \in 1..n /\ k < n /\ v[k] = w[k]
        /\ \A k \in 1..n : k # n => k \in DOMAIN w
    BY <2>1, <2>2, <2>b
  <2>4. protocol'[o][n] = step
    BY <1>1, <1>2, <2>a
  <2>5. \A k \in 1..n : v[k] \in 0..stamp
    BY <1>1, <2>1, <2>2, <2>3
  <2>6. \A k, l \in 1..n : k < l => v[k] < v[l]
    <3> SUFFICES ASSUME NEW k \in 1..n, NEW l \in 1..n, k < l PROVE v[k] < v[l]
      OBVIOUS
    <3>1. k \in DOMAIN w /\ w[k] \in 0..(stamp - 1)
      BY <2>1, <2>2, <2>3
    <3>2. CASE l = n
      BY <1>1, <2>3, <3>1, <3>2
    <3>3. CASE l # n
      BY <1>5, <1>6, <2>3, <3>1, <3>3 DEF Took
    <3> QED
      BY <3>2, <3>3
  <2>7. \A k \in 1..n :
          IF protocol'[o][k] \in MARKS
          THEN \E m \in DOMAIN markers' : markers'[m].op = o /\ markers'[m].index = v[k]
          ELSE \E i \in DOMAIN events' : owner'[i] = o /\ events'[i].stamp = v[k]
    <3> SUFFICES ASSUME NEW k \in 1..n
                 PROVE  IF protocol'[o][k] \in MARKS
                        THEN \E m \in DOMAIN markers' : markers'[m].op = o /\ markers'[m].index = v[k]
                        ELSE \E i \in DOMAIN events' : owner'[i] = o /\ events'[i].stamp = v[k]
      OBVIOUS
    <3>1. CASE k = n
      BY <1>1, <2>3, <2>4, <3>1 DEF Adds
    <3>2. CASE k # n
      <4>1. k \in DOMAIN w /\ v[k] = w[k] /\ protocol'[o][k] = protocol[o][k]
        BY <1>1, <2>3, <3>2
      <4>2. IF protocol[o][k] \in MARKS
            THEN \E m \in DOMAIN markers : markers[m].op = o /\ markers[m].index = w[k]
            ELSE \E i \in DOMAIN events : owner[i] = o /\ events[i].stamp = w[k]
        BY <1>5, <1>6, <4>1 DEF Took
      <4> QED
        BY <1>1, <4>1, <4>2 DEF Adds
    <3> QED
      BY <3>1, <3>2
  <2>8. \A m \in DOMAIN markers' : markers'[m].op = o =>
          \E k \in 1..n : /\ protocol'[o][k] \in MARKS /\ markers'[m].index = v[k]
                          /\ Marks(markers'[m], o, protocol'[o][k])
    <3> SUFFICES ASSUME NEW m \in DOMAIN markers', markers'[m].op = o
                 PROVE  \E k \in 1..n : /\ protocol'[o][k] \in MARKS /\ markers'[m].index = v[k]
                                        /\ Marks(markers'[m], o, protocol'[o][k])
      OBVIOUS
    <3>1. CASE m \in DOMAIN markers
      <4>1. markers'[m] = markers[m]
        BY <1>1, <3>1 DEF Adds
      <4>2. PICK k \in DOMAIN w : /\ protocol[o][k] \in MARKS /\ markers[m].index = w[k]
                                  /\ Marks(markers[m], o, protocol[o][k])
        BY <1>5, <1>6, <3>1, <4>1 DEF Took
      <4> QED
        BY <1>1, <2>3, <4>1, <4>2
    <3>2. CASE m \notin DOMAIN markers
      <4>1. step \in MARKS /\ markers'[m].index = stamp /\ Marks(markers'[m], o, step)
        BY <1>1, <3>2 DEF Adds
      <4>2. n \in 1..n
        BY <2>1
      <4> QED
        BY <2>3, <2>4, <4>1, <4>2
    <3> QED
      BY <3>1, <3>2
  <2>9. \A i \in DOMAIN events' : owner'[i] = o =>
          \E k \in 1..n : /\ protocol'[o][k] \in CALLS /\ events'[i].stamp = v[k]
                          /\ Says(events'[i], o, protocol'[o][k])
    <3> SUFFICES ASSUME NEW i \in DOMAIN events', owner'[i] = o
                 PROVE  \E k \in 1..n : /\ protocol'[o][k] \in CALLS /\ events'[i].stamp = v[k]
                                        /\ Says(events'[i], o, protocol'[o][k])
      OBVIOUS
    <3>1. CASE i \in DOMAIN events
      <4>1. events'[i] = events[i] /\ owner'[i] = owner[i]
        BY <1>1, <3>1 DEF Adds
      <4>2. PICK k \in DOMAIN w : /\ protocol[o][k] \in CALLS /\ events[i].stamp = w[k]
                                  /\ Says(events[i], o, protocol[o][k])
        BY <1>5, <1>6, <3>1, <4>1 DEF Took
      <4> QED
        BY <1>1, <2>3, <4>1, <4>2
    <3>2. CASE i \notin DOMAIN events
      <4>1. step \in CALLS /\ events'[i].stamp = stamp /\ Says(events'[i], o, step)
        BY <1>1, <3>2 DEF Adds
      <4>2. n \in 1..n
        BY <2>1
      <4> QED
        BY <2>3, <2>4, <4>1, <4>2
    <3> QED
      BY <3>1, <3>2
  <2>10. v \in [1..n -> 0..(stamp' - 1)]
    <3>1. stamp' - 1 = stamp
      BY <1>1
    <3>2. v = [k \in 1..n |-> v[k]]
      BY <2>b
    <3> QED
      BY <2>5, <3>1, <3>2
  <2>11. Took(o, v)'
    BY <1>3, <2>1, <2>3, <2>6, <2>7, <2>8, <2>9, <2>10 DEF Took
  <2> QED
    BY <1>1, <1>4, <1>6, <2>1, <2>11, <2>a
<1>7. CASE p # o
  <2>1. pc'[p] = pc[p] /\ protocol'[p] = protocol[p]
    BY <1>1, <1>7
  <2>2. \A k \in DOMAIN w : w[k] \in 0..(stamp - 1) /\ w[k] \in 0..(stamp' - 1)
    BY <1>1, <1>5 DEF Took
  <2>3. w \in [1..(pc'[p] - 1) -> 0..(stamp' - 1)]
    BY <1>5, <2>1, <2>2 DEF Took
  <2>4. \A m \in DOMAIN markers' : markers'[m].op = p => m \in DOMAIN markers /\ markers'[m] = markers[m]
    BY <1>1, <1>7 DEF Adds, Marks
  <2>5. \A i \in DOMAIN events' : owner'[i] = p =>
           i \in DOMAIN events /\ events'[i] = events[i] /\ owner'[i] = owner[i]
    BY <1>1, <1>7 DEF Adds
  <2>6. /\ \A m \in DOMAIN markers : m \in DOMAIN markers' /\ markers'[m] = markers[m]
        /\ \A i \in DOMAIN events : i \in DOMAIN events' /\ events'[i] = events[i] /\ owner'[i] = owner[i]
    BY <1>1 DEF Adds
  <2>7. Took(p, w)'
    BY <1>3, <1>5, <2>1, <2>3, <2>4, <2>5, <2>6 DEF Took
  <2> QED
    BY <1>4, <2>1, <2>7
<1> QED
  BY <1>6, <1>7

LEMMA DriveInTurn ==
    ASSUME OwnFiles, CampaignInv, DriverInv, NEW o \in Operations, Drive(o)
    PROVE  InTurn'
<1> DEFINE step == protocol[o][pc[o]]
<1>1. /\ Adds(o, step)
      /\ pc[o] \in 1..Len(protocol[o]) /\ Len(protocol[o]) \in Nat
      /\ pc \in [Operations -> Nat] /\ pc' = [pc EXCEPT ![o] = @ + 1]
      /\ stamp \in Nat /\ stamp' = stamp + 1
      /\ UNCHANGED <<protocol, durable, phase>>
  BY DriveAdds
<1> HIDE DEF step
<1> SUFFICES ASSUME ~Concurrent PROVE InTurn'
  BY DEF InTurn
<1>2. ~Finished(o) /\ \A p \in Operations : p < o => Finished(p)
  BY DEF Drive
<1>3. \A p \in Operations : p # o => pc'[p] = pc[p]
  BY <1>1
<1>4. \A p \in Operations : Finished(p) => p # o /\ Finished(p)'
  BY <1>1, <1>2 DEF Finished
<1>5. \A p \in Operations : p > o => ~(pc[p] > 1)
  BY <1>2 DEF DriverInv, InTurn, Operations
<1>6. \A p, q \in Operations : (p < q /\ pc'[q] > 1) => Finished(p)'
  <2> SUFFICES ASSUME NEW p \in Operations, NEW q \in Operations, p < q, pc'[q] > 1
               PROVE  Finished(p)'
    OBVIOUS
  <2>1. CASE q = o
    BY <1>2, <1>4, <2>1
  <2>2. CASE q # o
    BY <1>3, <1>4, <2>2 DEF DriverInv, InTurn
  <2> QED
    BY <2>1, <2>2
(* Nothing in the trace is of an operation after this one.                 *)
<1>7. \A i \in DOMAIN events : owner[i] \in Operations /\ owner[i] <= o
  <2> SUFFICES ASSUME NEW i \in DOMAIN events PROVE owner[i] \in Operations /\ owner[i] <= o
    OBVIOUS
  <2>1. owner[i] \in Operations
    BY DEF DriverInv, Stamped
  <2>2. PICK w : Took(owner[i], w)
    BY <2>1 DEF DriverInv, Driven
  <2>3. DOMAIN w = 1..(pc[owner[i]] - 1) /\ DOMAIN w # {}
    BY <2>2 DEF Took
  <2>4. pc[owner[i]] > 1
    BY <1>1, <2>1, <2>3
  <2> QED
    BY <1>5, <2>1, <2>4 DEF Operations
<1>8. \A i \in DOMAIN events', m \in DOMAIN markers' :
         markers'[m].op < owner'[i] => markers'[m].index < events'[i].stamp
  <2> SUFFICES ASSUME NEW i \in DOMAIN events', NEW m \in DOMAIN markers', markers'[m].op < owner'[i]
               PROVE  markers'[m].index < events'[i].stamp
    OBVIOUS
  <2>1. CASE i \in DOMAIN events /\ m \in DOMAIN markers
    BY <1>1, <2>1 DEF Adds, DriverInv, InTurn
  <2>2. CASE i \notin DOMAIN events
    <3>1. events'[i].stamp = stamp /\ owner'[i] = o /\ step \in CALLS
      BY <1>1, <2>2 DEF Adds
    <3>2. m \in DOMAIN markers /\ markers'[m] = markers[m]
      BY <1>1, <3>1 DEF Adds, MARKS, CALLS
    <3> QED
      BY <1>1, <3>1, <3>2 DEF DriverInv, Stamped
  <2>3. CASE i \in DOMAIN events /\ m \notin DOMAIN markers
    <3>1. markers'[m].op = o /\ owner'[i] = owner[i]
      BY <1>1, <2>3 DEF Adds, Marks
    <3> QED
      BY <1>7, <2>3, <3>1 DEF Operations
  <2> QED
    BY <2>1, <2>2, <2>3
<1>9. \A i, j \in DOMAIN events' : i < j => owner'[i] <= owner'[j]
  <2> SUFFICES ASSUME NEW i \in DOMAIN events', NEW j \in DOMAIN events', i < j
               PROVE  owner'[i] <= owner'[j]
    OBVIOUS
  <2>1. i \in DOMAIN events /\ owner'[i] = owner[i]
    BY <1>1 DEF Adds
  <2>2. CASE j \in DOMAIN events
    BY <1>1, <2>1, <2>2 DEF Adds, DriverInv, InTurn
  <2>3. CASE j \notin DOMAIN events
    BY <1>1, <1>7, <2>1, <2>3 DEF Adds
  <2> QED
    BY <2>2, <2>3
<1> QED
  BY <1>6, <1>8, <1>9 DEF InTurn

LEMMA DriverNext ==
    ASSUME OwnFiles, CampaignInv, DriverInv, [Next]_vars
    PROVE  DriverInv'
<1>1. ASSUME NEW o \in Operations, Drive(o) PROVE DriverInv'
  BY <1>1, DriveStamped, DriveDriven, DriveInTurn DEF DriverInv
<1>2. CASE UNCHANGED driverVars
  BY <1>2, DriverStands
<1> QED
  BY <1>1, <1>2 DEF Next, StartCampaign, CreateImage, Populate, Recover, HostFails, Judge,
                    FinishCampaign, Ended, vars, driverVars

LEMMA OfTheTraceNext ==
    ASSUME OwnFiles, CampaignInv, DriverInv, OfTheTrace, [Next]_vars
    PROVE  OfTheTrace'
<1>1. ASSUME NEW o \in Operations, Drive(o) PROVE OfTheTrace'
  <2>1. phase' = "drive" /\ queue' = <<>> /\ DOMAIN findings' = {}
    BY <1>1 DEF Drive, CampaignInv, NothingYet
  <2>2. DOMAIN queue' = {}
    BY <2>1
  <2> QED
    BY <2>1, <2>2 DEF OfTheTrace
<1>2. ASSUME UNCHANGED <<model, driverVars>> PROVE AllStates' = AllStates /\ \A o : Finished(o)' <=> Finished(o)
  BY <1>2 DEF AllStates, Finished, driverVars
<1>3. CASE StartCampaign
  <2>1. /\ phase = "drive" /\ (\A o \in Operations : Finished(o))
        /\ UNCHANGED <<model, driverVars, findings>>
    BY <1>3 DEF StartCampaign
  <2>2. PICK n \in 0..MaxTested : queue' \in [1..n -> AllStates]
    BY <1>3 DEF StartCampaign
  <2>3. \A k \in DOMAIN queue' : queue'[k] \in AllStates
    BY <2>2
  <2> QED
    BY <1>2, <2>1, <2>3 DEF OfTheTrace
<1>4. CASE Judge
  <2>1. /\ phase = "judge" /\ findings' = FoldFindings(findings, Current, recovery, tested + 1)
        /\ UNCHANGED <<model, driverVars, queue>>
    BY <1>4 DEF Judge
  <2>2. Current \in AllStates
    <3>1. Len(queue) \in Nat /\ tested \in Nat /\ tested < Len(queue) /\ DOMAIN queue = 1..Len(queue)
      BY <2>1, LenProperties DEF CampaignInv, TraceTyped, IsSequence, TypeOK, OneInHand
    <3> QED
      BY <3>1 DEF Current, OfTheTrace
  <2>3. \A s \in DOMAIN findings' : IF s \in DOMAIN findings
                                    THEN findings'[s].state = findings[s].state
                                    ELSE findings'[s].state = Current
    <3>1. \A s \in DOMAIN findings :
             /\ DOMAIN findings[s] = {"violation", "occurrences", "state", "image"}
             /\ findings[s].occurrences \in Nat \ {0}
      BY DEF CampaignInv, FindingsTyped, TypeOK
    <3> QED
      BY <2>1, <3>1, FoldKeeps DEF CampaignInv, TraceTyped
  <2>4. \A s \in DOMAIN findings' : findings'[s].state \in AllStates
    BY <2>2, <2>3 DEF OfTheTrace
  <2> QED
    BY <1>2, <2>1, <2>4 DEF OfTheTrace
<1>5. ASSUME UNCHANGED <<model, driverVars, queue, findings>>, phase = "drive" => phase' = "drive"
      PROVE OfTheTrace'
  BY <1>2, <1>5 DEF OfTheTrace
<1>6. CASE CreateImage \/ Populate \/ Recover \/ HostFails \/ FinishCampaign \/ Ended \/ UNCHANGED vars
  BY <1>5, <1>6 DEF CreateImage, Populate, Recover, HostFails, FinishCampaign, Ended, vars, driverVars
<1> QED
  BY <1>1, <1>3, <1>4, <1>6 DEF Next

LEMMA DriverInvHolds == ASSUME OwnFiles PROVE Spec => [](DriverInv /\ OfTheTrace)
<1>1. Init => DriverInv /\ OfTheTrace
  <2>1. Init => OfTheTrace
    BY DEF Init, OfTheTrace
  <2> QED
    BY <2>1, DriverStarts
<1>2. CampaignInv /\ DriverInv /\ OfTheTrace /\ [Next]_vars => (DriverInv /\ OfTheTrace)'
  BY DriverNext, OfTheTraceNext
<1> QED
  BY <1>1, <1>2, CampaignInvHolds, PTL DEF Spec

-----------------------------------------------------------------------------
(* A finished operation: its two markers and its mutations.                *)

MUTATES == {"write", "put", "rename"}

LEMMA Apart ==
    ASSUME OwnFiles, NEW o \in Operations, NEW w, Took(o, w)
    PROVE  /\ \A k \in DOMAIN w : w[k] \in Int
           /\ \A k, l \in DOMAIN w : w[k] = w[l] => k = l
<1>1. \A k \in DOMAIN w : w[k] \in Int /\ k \in Int
  BY DEF Took
<1> QED
  BY <1>1 DEF Took

LEMMA MarkOfStep ==
    ASSUME OwnFiles, NEW o \in Operations, NEW w, Took(o, w),
           NEW k \in DOMAIN w, protocol[o][k] \in MARKS
    PROVE  \E m \in DOMAIN markers : /\ markers[m].op = o /\ markers[m].index = w[k]
                                     /\ Marks(markers[m], o, protocol[o][k])
<1>1. PICK m \in DOMAIN markers : markers[m].op = o /\ markers[m].index = w[k]
  BY DEF Took
<1>2. PICK l \in DOMAIN w : markers[m].index = w[l] /\ Marks(markers[m], o, protocol[o][l])
  BY <1>1 DEF Took
<1>3. l = k
  BY <1>1, <1>2, Apart
<1> QED
  BY <1>1, <1>2, <1>3

LEMMA CallOfStep ==
    ASSUME OwnFiles, NEW o \in Operations, NEW w, Took(o, w),
           NEW k \in DOMAIN w, protocol[o][k] \in CALLS
    PROVE  \E i \in DOMAIN events : /\ owner[i] = o /\ events[i].stamp = w[k]
                                    /\ Says(events[i], o, protocol[o][k])
<1>0. protocol[o][k] \notin MARKS
  BY DEF MARKS, CALLS
<1>1. PICK i \in DOMAIN events : owner[i] = o /\ events[i].stamp = w[k]
  BY <1>0 DEF Took
<1>2. PICK l \in DOMAIN w : events[i].stamp = w[l] /\ Says(events[i], o, protocol[o][l])
  BY <1>1 DEF Took
<1>3. l = k
  BY <1>1, <1>2, Apart
<1> QED
  BY <1>1, <1>2, <1>3

LEMMA MutatingSteps ==
    ASSUME NEW o \in Operations, NEW step \in CALLS, NEW e, Says(e, o, step)
    PROVE  Mutation(e) <=> step \in MUTATES
BY DEF CALLS, Says, Mutation, MUTATING, MUTATES

(* The three protocols have in common that the mutations are between the   *)
(* begin and the ack.                                                      *)
LEMMA Shapes ==
    ASSUME OwnFiles, NEW p \in Protocols
    PROVE  \E A \in 1..Len(p) :
             /\ 1 \in 1..Len(p) /\ p[1] = "begin" /\ p[A] = "ack" /\ 1 < A
             /\ \A k \in 1..Len(p) : p[k] \in MARKS => k \in {1, A}
             /\ \A k \in 1..Len(p) : p[k] \in MUTATES => 1 < k /\ k < A
             /\ p = syncedInPlace =>
                  \E W, S \in 1..Len(p) : /\ p[W] = "put" /\ p[S] = "sync" /\ W < S /\ S < A
                                          /\ \A k \in 1..Len(p) : p[k] \in MUTATES => k = W
             /\ p # syncedInPlace =>
                  \E W, R \in 1..Len(p) : /\ p[W] = "write" /\ p[R] = "rename" /\ W < R
                                          /\ \A k \in 1..Len(p) : p[k] \in MUTATES => k \in {W, R}
<1> USE DEF MARKS, MUTATES
<1>1. CASE p = unsafeKv
  <2>1. p # syncedInPlace
    BY <1>1 DEF unsafeKv, syncedInPlace
  <2>2. /\ Len(p) = 6 /\ p[1] = "begin" /\ p[2] = "open" /\ p[3] = "write" /\ p[4] = "close"
        /\ p[5] = "rename" /\ p[6] = "ack"
    BY <1>1 DEF unsafeKv
  <2>3. 1..Len(p) = {1, 2, 3, 4, 5, 6}
    BY <2>2
  <2> USE <2>2, <2>3
  <2>4. \E W, R \in 1..Len(p) : /\ p[W] = "write" /\ p[R] = "rename" /\ W < R
                                /\ \A k \in 1..Len(p) : p[k] \in MUTATES => k \in {W, R}
    <3> WITNESS 3 \in 1..Len(p), 5 \in 1..Len(p)
    <3> QED
      BY <2>2, <2>3
  <2> WITNESS 6 \in 1..Len(p)
  <2> QED
    BY <2>1, <2>2, <2>3, <2>4
<1>2. CASE p = syncedInPlace
  <2>2. /\ Len(p) = 5 /\ p[1] = "begin" /\ p[2] = "put" /\ p[3] = "sync" /\ p[4] = "ack"
        /\ p[5] = "close"
    BY <1>2 DEF syncedInPlace
  <2>3. 1..Len(p) = {1, 2, 3, 4, 5}
    BY <2>2
  <2> USE <2>2, <2>3
  <2>4. \E W, S \in 1..Len(p) : /\ p[W] = "put" /\ p[S] = "sync" /\ W < S /\ S < 4
                                /\ \A k \in 1..Len(p) : p[k] \in MUTATES => k = W
    <3> WITNESS 2 \in 1..Len(p), 3 \in 1..Len(p)
    <3> QED
      BY <2>2, <2>3
  <2> WITNESS 4 \in 1..Len(p)
  <2> QED
    BY <1>2, <2>2, <2>3, <2>4
<1>3. CASE p = syncedRename
  <2>1. p # syncedInPlace
    BY <1>3 DEF syncedRename, syncedInPlace
  <2>2. /\ Len(p) = 7 /\ p[1] = "begin" /\ p[2] = "write" /\ p[3] = "syncTmp" /\ p[4] = "rename"
        /\ p[5] = "syncDir" /\ p[6] = "ack" /\ p[7] = "close"
    BY <1>3 DEF syncedRename
  <2>3. 1..Len(p) = {1, 2, 3, 4, 5, 6, 7}
    BY <2>2
  <2> USE <2>2, <2>3
  <2>4. \E W, R \in 1..Len(p) : /\ p[W] = "write" /\ p[R] = "rename" /\ W < R
                                /\ \A k \in 1..Len(p) : p[k] \in MUTATES => k \in {W, R}
    <3> WITNESS 2 \in 1..Len(p), 4 \in 1..Len(p)
    <3> QED
      BY <2>2, <2>3
  <2> WITNESS 6 \in 1..Len(p)
  <2> QED
    BY <2>1, <2>2, <2>3, <2>4
<1> QED
  BY <1>1, <1>2, <1>3 DEF OwnFiles

(* A mutation of o in the trace.                                           *)
Own(o, i) == owner[i] = o /\ Mutation(events[i])

(* The markers of o are b and a, and its mutations are between them.       *)
Promises(o, b, a) ==
    /\ b < a
    /\ Marks(markers[b], o, "begin") /\ Marks(markers[a], o, "ack")
    /\ \A m \in DOMAIN markers : markers[m].op = o => m \in {b, a}
    /\ \A i \in DOMAIN events : Own(o, i) => /\ markers[b].index < events[i].stamp
                                             /\ events[i].stamp < markers[a].index

(* A synced write in place is one call, followed by its fdatasync ...      *)
PutsAt(o, a, i, s) ==
    /\ i < s /\ owner[i] = o /\ Says(events[i], o, "put")
    /\ owner[s] = o /\ Says(events[s], o, "sync") /\ events[s].stamp < markers[a].index
    /\ \A j \in DOMAIN events : Own(o, j) => j = i

(* ... and a replacement is two.                                           *)
ReplacesAt(o, i, j) ==
    /\ i < j /\ owner[i] = o /\ Says(events[i], o, "write")
    /\ owner[j] = o /\ Says(events[j], o, "rename")
    /\ \A k \in DOMAIN events : Own(o, k) => k \in {i, j}

LEMMA Earlier ==
    ASSUME Stamped, NEW i \in DOMAIN events, NEW j \in DOMAIN events, i \in Int, j \in Int,
           events[i].stamp < events[j].stamp
    PROVE  i < j
<1>1. events[i].stamp \in Int /\ events[j].stamp \in Int
  BY DEF Stamped
<1>2. j < i => events[j].stamp < events[i].stamp
  BY DEF Stamped
<1> QED
  BY <1>1, <1>2

LEMMA FinishedOperation ==
    ASSUME OwnFiles, CampaignInv, DriverInv, NEW o \in Operations, Finished(o)
    PROVE  \E b, a \in DOMAIN markers :
             /\ Promises(o, b, a)
             /\ IF protocol[o] = syncedInPlace
                THEN \E i, s \in DOMAIN events : PutsAt(o, a, i, s)
                ELSE \E i, j \in DOMAIN events : ReplacesAt(o, i, j)
<1> DEFINE p == protocol[o]
<1>1. PICK w : Took(o, w)
  BY DEF DriverInv, Driven
<1>2. p \in Protocols /\ Len(p) \in Nat /\ pc[o] \in 1..(Len(p) + 1) /\ pc[o] > Len(p)
  <2>1. p \in Protocols /\ pc[o] \in 1..(Len(p) + 1) /\ pc[o] > Len(p)
    BY DEF DriverInv, Driven, Finished
  <2> QED
    BY <2>1, Steps
<1>3. DOMAIN w = 1..Len(p)
  BY <1>1, <1>2 DEF Took
<1>4. PICK A \in 1..Len(p) :
         /\ 1 \in 1..Len(p) /\ p[1] = "begin" /\ p[A] = "ack" /\ 1 < A
         /\ \A k \in 1..Len(p) : p[k] \in MARKS => k \in {1, A}
         /\ \A k \in 1..Len(p) : p[k] \in MUTATES => 1 < k /\ k < A
         /\ p = syncedInPlace =>
              \E W, S \in 1..Len(p) : /\ p[W] = "put" /\ p[S] = "sync" /\ W < S /\ S < A
                                      /\ \A k \in 1..Len(p) : p[k] \in MUTATES => k = W
         /\ p # syncedInPlace =>
              \E W, R \in 1..Len(p) : /\ p[W] = "write" /\ p[R] = "rename" /\ W < R
                                      /\ \A k \in 1..Len(p) : p[k] \in MUTATES => k \in {W, R}
  BY <1>2, Shapes
<1> HIDE DEF p
<1>5. p = protocol[o]
  BY DEF p
<1>6. /\ \A k \in 1..Len(p) : w[k] \in Int
      /\ \A k, l \in 1..Len(p) : w[k] = w[l] => k = l
      /\ \A k, l \in 1..Len(p) : k < l => w[k] < w[l]
  BY <1>1, <1>3, Apart DEF Took
<1>7. Stamped /\ \A m \in DOMAIN markers : m \in Int
  <2>1. DOMAIN markers = 1..Len(markers)
    BY LenProperties DEF CampaignInv, TraceTyped, MarkersTyped, IsSequence
  <2> QED
    BY <2>1 DEF DriverInv
<1>8. \A i \in DOMAIN events : i \in Int
  <2>1. DOMAIN events = 1..Len(events)
    BY LenProperties DEF CampaignInv, TraceTyped, IsSequence
  <2> QED
    BY <2>1
<1>9. PICK b \in DOMAIN markers : markers[b].op = o /\ markers[b].index = w[1] /\ Marks(markers[b], o, "begin")
  <2>1. p[1] \in MARKS
    BY <1>4 DEF MARKS
  <2> QED
    BY <1>1, <1>3, <1>4, <1>5, <2>1, MarkOfStep
<1>10. PICK a \in DOMAIN markers : markers[a].op = o /\ markers[a].index = w[A] /\ Marks(markers[a], o, "ack")
  <2>1. p[A] \in MARKS
    BY <1>4 DEF MARKS
  <2> QED
    BY <1>1, <1>3, <1>4, <1>5, <2>1, MarkOfStep
<1>11. b < a
  <2>1. markers[b].index < markers[a].index
    BY <1>4, <1>6, <1>9, <1>10
  <2>2. a < b => markers[a].index < markers[b].index
    BY <1>7 DEF Stamped
  <2>3. markers[a].index \in Int /\ markers[b].index \in Int
    BY <1>7 DEF Stamped
  <2> QED
    BY <1>7, <2>1, <2>2, <2>3
<1>12. \A m \in DOMAIN markers : markers[m].op = o => m \in {b, a}
  <2> SUFFICES ASSUME NEW m \in DOMAIN markers, markers[m].op = o PROVE m \in {b, a}
    OBVIOUS
  <2>1. PICK k \in DOMAIN w : p[k] \in MARKS /\ markers[m].index = w[k]
    BY <1>1, <1>5 DEF Took
  <2>2. markers[m].index = markers[b].index \/ markers[m].index = markers[a].index
    BY <1>3, <1>4, <1>9, <1>10, <2>1
  <2>3. \A x, y \in DOMAIN markers : markers[x].index = markers[y].index => x = y
    <3> SUFFICES ASSUME NEW x \in DOMAIN markers, NEW y \in DOMAIN markers,
                        markers[x].index = markers[y].index
                 PROVE  x = y
      OBVIOUS
    <3>1. markers[x].index \in Int /\ x \in Int /\ y \in Int
      BY <1>7 DEF Stamped
    <3> QED
      BY <1>7, <3>1 DEF Stamped
  <2> QED
    BY <2>2, <2>3
<1>13. \A i \in DOMAIN events : Own(o, i) =>
          \E k \in 1..Len(p) : p[k] \in MUTATES /\ events[i].stamp = w[k]
  <2> SUFFICES ASSUME NEW i \in DOMAIN events, Own(o, i)
               PROVE  \E k \in 1..Len(p) : p[k] \in MUTATES /\ events[i].stamp = w[k]
    OBVIOUS
  <2>1. PICK k \in DOMAIN w : p[k] \in CALLS /\ events[i].stamp = w[k] /\ Says(events[i], o, p[k])
    BY <1>1, <1>5 DEF Own, Took
  <2>2. p[k] \in MUTATES
    BY <2>1, MutatingSteps DEF Own
  <2> QED
    BY <1>3, <2>1, <2>2
<1>14. \A i \in DOMAIN events : Own(o, i) => /\ markers[b].index < events[i].stamp
                                              /\ events[i].stamp < markers[a].index
  BY <1>4, <1>6, <1>9, <1>10, <1>13
<1>15. Promises(o, b, a)
  BY <1>9, <1>10, <1>11, <1>12, <1>14 DEF Promises
<1>16. \A i, j \in DOMAIN events : events[i].stamp = events[j].stamp => i = j
  <2> SUFFICES ASSUME NEW x \in DOMAIN events, NEW y \in DOMAIN events,
                      events[x].stamp = events[y].stamp
               PROVE  x = y
    OBVIOUS
  <2>1. events[x].stamp \in Int /\ x \in Int /\ y \in Int
    BY <1>7, <1>8 DEF Stamped
  <2> QED
    BY <1>7, <2>1 DEF Stamped
<1>17. ASSUME p = syncedInPlace PROVE \E i, s \in DOMAIN events : PutsAt(o, a, i, s)
  <2>1. PICK W, S \in 1..Len(p) : /\ p[W] = "put" /\ p[S] = "sync" /\ W < S /\ S < A
                                  /\ \A k \in 1..Len(p) : p[k] \in MUTATES => k = W
    BY <1>4, <1>17
  <2>2. p[W] \in CALLS /\ p[S] \in CALLS
    BY <2>1 DEF CALLS
  <2>3. PICK i \in DOMAIN events : owner[i] = o /\ events[i].stamp = w[W] /\ Says(events[i], o, "put")
    BY <1>1, <1>3, <1>5, <2>1, <2>2, CallOfStep
  <2>4. PICK s \in DOMAIN events : owner[s] = o /\ events[s].stamp = w[S] /\ Says(events[s], o, "sync")
    BY <1>1, <1>3, <1>5, <2>1, <2>2, CallOfStep
  <2>5. i < s /\ events[s].stamp < markers[a].index
    BY <1>6, <1>7, <1>8, <1>10, <2>1, <2>3, <2>4, Earlier
  <2>6. \A j \in DOMAIN events : Own(o, j) => j = i
    BY <1>13, <1>16, <2>1, <2>3
  <2> QED
    BY <2>3, <2>4, <2>5, <2>6 DEF PutsAt
<1>18. ASSUME p # syncedInPlace PROVE \E i, j \in DOMAIN events : ReplacesAt(o, i, j)
  <2>1. PICK W, R \in 1..Len(p) : /\ p[W] = "write" /\ p[R] = "rename" /\ W < R
                                  /\ \A k \in 1..Len(p) : p[k] \in MUTATES => k \in {W, R}
    BY <1>4, <1>18
  <2>2. p[W] \in CALLS /\ p[R] \in CALLS
    BY <2>1 DEF CALLS
  <2>3. PICK i \in DOMAIN events : owner[i] = o /\ events[i].stamp = w[W] /\ Says(events[i], o, "write")
    BY <1>1, <1>3, <1>5, <2>1, <2>2, CallOfStep
  <2>4. PICK j \in DOMAIN events : owner[j] = o /\ events[j].stamp = w[R] /\ Says(events[j], o, "rename")
    BY <1>1, <1>3, <1>5, <2>1, <2>2, CallOfStep
  <2>5. i < j
    BY <1>6, <1>7, <1>8, <2>1, <2>3, <2>4, Earlier
  <2>6. \A k \in DOMAIN events : Own(o, k) => k \in {i, j}
    BY <1>13, <1>16, <2>1, <2>3, <2>4
  <2> QED
    BY <2>3, <2>4, <2>5, <2>6 DEF ReplacesAt
<1> QED
  BY <1>5, <1>15, <1>17, <1>18

-----------------------------------------------------------------------------
(* What the oracle makes of the log of a finished trace.                   *)

AllFinished == \A o \in Operations : Finished(o)

LEMMA IntDomains ==
    ASSUME CampaignInv
    PROVE  /\ DOMAIN markers \subseteq Nat
           /\ DOMAIN events = 1..Len(events) /\ Len(events) \in Nat
           /\ \A m \in DOMAIN markers : markers[m].index \in Nat
BY LenProperties DEF CampaignInv, TraceTyped, MarkersTyped, IsSequence

LEMMA RecordOf ==
    ASSUME CampaignInv, NEW o \in Operations,
           NEW b \in DOMAIN markers, NEW a \in DOMAIN markers, Promises(o, b, a)
    PROVE  LET r == AckRecord(markers, o)
           IN  /\ r.op = o /\ r.key = KeyOf[o] /\ r.digest = Value(o)
               /\ r.beganAt = markers[b].index /\ r.acknowledgedAt = markers[a].index
               /\ r.acknowledgedAt # NEVER
               /\ r.durable <=> durable[o]
<1>0. \A m \in DOMAIN markers : m \in Int /\ markers[m].index \in Nat
  BY IntDomains
<1>1. /\ markers[b].op = o /\ markers[b].phase = "begin" /\ markers[b].key = KeyOf[o]
      /\ markers[a].op = o /\ markers[a].phase = "ack" /\ markers[a].digest = Value(o)
      /\ markers[a].durable <=> durable[o]
  BY DEF Promises, Marks
<1>2. \A m \in DOMAIN markers : markers[m].op = o => m \in {b, a}
  BY DEF Promises
<1>3. Begins(markers, o) = {b}
  BY <1>1, <1>2 DEF Begins
<1>4. Acks(markers, o) = {a}
  BY <1>1, <1>2, <1>3 DEF Acks, Promises
<1>5. Max({b}) = b /\ Max({a}) = a
  BY <1>0 DEF Max
<1> DEFINE r == AckRecord(markers, o)
<1>6. r = [op |-> o, key |-> markers[b].key, beganAt |-> markers[b].index,
           digest |-> markers[a].digest, acknowledgedAt |-> markers[a].index,
           durable |-> {a} # {} /\ markers[a].durable]
  BY <1>3, <1>4, <1>5 DEF AckRecord
<1> HIDE DEF r
<1>7. r.durable <=> markers[a].durable
  <2>1. r.durable = ({a} # {} /\ markers[a].durable)
    BY <1>6
  <2> QED
    BY <2>1, Zenon
<1>8. markers[a].index # NEVER
  BY <1>0 DEF NEVER
<1> QED
  BY <1>1, <1>6, <1>7, <1>8 DEF r

(* Every operation is in the log, and nothing else.                        *)
LEMMA LogIsAll ==
    ASSUME OwnFiles, CampaignInv, DriverInv, AllFinished
    PROVE  ParseAckLog(markers) = {AckRecord(markers, o) : o \in Operations}
<1>1. {markers[i].op : i \in DOMAIN markers} = Operations
  <2>1. \A o \in Operations : \E m \in DOMAIN markers : markers[m].op = o
    BY FinishedOperation DEF AllFinished, Promises, Marks
  <2>2. \A m \in DOMAIN markers : markers[m].op \in Operations
    BY DEF DriverInv, Stamped
  <2> QED
    BY <2>1, <2>2
<1> QED
  BY <1>1 DEF ParseAckLog

LEMMA OracleLost ==
    ASSUME NEW st, NEW fs
    PROVE  Violations(st, RecoverFileKv(fs)) =
             Lost(CrashStamp(st), PromisedBefore(ParseAckLog(markers), CrashStamp(st)), RecoverFileKv(fs))
<1> DEFINE rec == RecoverFileKv(fs)
           promised == PromisedBefore(ParseAckLog(markers), CrashStamp(st))
<1>1. rec.status = "opened" /\ rec.integrityOk
  BY DEF RecoverFileKv
<1> HIDE DEF rec
<1>2. promised = {} => Lost(CrashStamp(st), promised, rec) = {}
  BY DEF Lost
<1>3. CheckOracle(CrashStamp(st), ParseAckLog(markers), rec) =
        IF promised = {} THEN {} ELSE Lost(CrashStamp(st), promised, rec) \cup {}
  BY <1>1 DEF CheckOracle
<1> QED
  BY <1>2, <1>3 DEF Violations, rec

(* What is lost of an operation, and when.                                 *)
Broken(o, a, st, fs) ==
    /\ durable[o] /\ markers[a].index < CrashStamp(st)
    /\ ReadBack(RecoverFileKv(fs), KeyOf[o]) # Value(o)

LEMMA Reported ==
    ASSUME OwnFiles, CampaignInv, DriverInv, AllFinished, NEW st, NEW fs,
           NEW o \in Operations, NEW b \in DOMAIN markers, NEW a \in DOMAIN markers, Promises(o, b, a)
    PROVE  (\E v \in Violations(st, RecoverFileKv(fs)) : v.op = o) <=> Broken(o, a, st, fs)
<1> DEFINE rec == RecoverFileKv(fs)
           r == AckRecord(markers, o)
           log == ParseAckLog(markers)
           V == Violations(st, rec)
<1>1. /\ r.op = o /\ r.key = KeyOf[o] /\ r.digest = Value(o)
      /\ r.acknowledgedAt = markers[a].index /\ r.acknowledgedAt # NEVER
      /\ r.durable <=> durable[o]
  BY RecordOf
<1>2. V = Lost(CrashStamp(st), PromisedBefore(log, CrashStamp(st)), rec)
  BY OracleLost
<1>3. log = {AckRecord(markers, q) : q \in Operations}
  BY LogIsAll
<1>4. \A q \in Operations : AckRecord(markers, q).op = q
  BY DEF AckRecord
<1> HIDE DEF rec, r, log, V
<1>5. \A x \in log : x.op = o => x = r
  BY <1>3, <1>4 DEF r
<1>6. r \in log
  BY <1>3 DEF r
<1>7. (\E v \in V : v.op = o) <=>
        \E x \in log : /\ x.op = o /\ x.durable /\ x.acknowledgedAt # NEVER
                       /\ x.acknowledgedAt < CrashStamp(st) /\ ReadBack(rec, x.key) # x.digest
  <2> DEFINE promised == PromisedBefore(log, CrashStamp(st))
             D == {x \in promised : ReadBack(rec, x.key) # x.digest}
             violation(x) == Violation("LOST_ACKED", CrashStamp(st), x.op, x.key, x.digest,
                                       ReadBack(rec, x.key))
  <2>1. V = {violation(x) : x \in D}
    BY <1>2 DEF Lost
  <2>2. \A x : violation(x).op = x.op
    BY DEF Violation
  <2>3. \A x : x \in D <=> /\ x \in log /\ x.durable /\ x.acknowledgedAt # NEVER
                           /\ x.acknowledgedAt < CrashStamp(st) /\ ReadBack(rec, x.key) # x.digest
    BY DEF PromisedBefore
  <2> HIDE DEF D, violation
  <2>4. (\E v \in V : v.op = o) <=> \E x \in D : x.op = o
    BY <2>1, <2>2
  <2> QED
    BY <2>3, <2>4
<1>8. (\E v \in V : v.op = o) <=>
        /\ r.durable /\ r.acknowledgedAt # NEVER
        /\ r.acknowledgedAt < CrashStamp(st) /\ ReadBack(rec, r.key) # r.digest
  BY <1>1, <1>5, <1>6, <1>7
<1> QED
  BY <1>1, <1>8 DEF Broken, rec, V

(* Only operations are reported, each with its own record.                 *)
LEMMA ReportedIsLogged ==
    ASSUME OwnFiles, CampaignInv, DriverInv, AllFinished, NEW st, NEW fs,
           NEW v \in Violations(st, RecoverFileKv(fs))
    PROVE  v.op \in Operations /\ OperationOf(v) = AckRecord(markers, v.op)
<1> DEFINE log == ParseAckLog(markers)
<1>1. log = {AckRecord(markers, q) : q \in Operations}
  BY LogIsAll
<1>2. \A q \in Operations : AckRecord(markers, q).op = q
  BY DEF AckRecord
<1> HIDE DEF log
<1>3. \E x \in log : v.op = x.op
  BY OracleLost DEF Lost, Violation, PromisedBefore, log
<1>4. v.op \in Operations /\ AckRecord(markers, v.op) \in log
      /\ \A x \in log : x.op = v.op => x = AckRecord(markers, v.op)
  BY <1>1, <1>2, <1>3
<1>5. OperationOf(v) = CHOOSE x \in log : x.op = v.op
  BY <1>3 DEF OperationOf, log
<1> QED
  BY <1>2, <1>4, <1>5

-----------------------------------------------------------------------------
(* Replay.  The loop of replaySelection, step by step.                     *)

InSelection(st, i) == i \in st.persisted \/ \E w \in st.partial : w.op = i

SelectionStep(es, st, fs, i) ==
    IF InSelection(st, i) /\ fs.ok THEN ApplySelected(fs, i, es[i], HeldBytes(es, st, i)) ELSE fs

Selects(g, es, st, n) ==
    g = [i \in 0..n |-> IF i = 0 THEN EmptyFs(Len(es)) ELSE SelectionStep(es, st, g[i - 1], i)]

LEMMA SelectionExists ==
    ASSUME NEW es, NEW st, NEW n \in Nat
    PROVE  \E g : Selects(g, es, st, n)
<1> DEFINE T == {m \in Nat : ~ \E g : Selects(g, es, st, m)}
<1> SUFFICES T = {}
  OBVIOUS
<1> SUFFICES ASSUME T # {} PROVE FALSE
  OBVIOUS
<1>1. PICK m \in T : \A k \in T : m <= k
  BY Smallest
<1>2. Selects([i \in 0..0 |-> EmptyFs(Len(es))], es, st, 0)
  BY DEF Selects
<1>3. m # 0 /\ m - 1 \in Nat /\ m - 1 \notin T
  BY <1>1, <1>2
<1>4. PICK g : Selects(g, es, st, m - 1)
  BY <1>3
<1> DEFINE h == [i \in 0..m |-> IF i = m THEN SelectionStep(es, st, g[m - 1], m) ELSE g[i]]
<1>5. \A i \in 0..(m - 1) : h[i] = g[i]
  BY <1>3
<1>6. g = [i \in 0..(m - 1) |-> IF i = 0 THEN EmptyFs(Len(es)) ELSE SelectionStep(es, st, g[i - 1], i)]
  BY <1>4 DEF Selects
<1>7. \A i \in 0..m : h[i] = IF i = 0 THEN EmptyFs(Len(es)) ELSE SelectionStep(es, st, h[i - 1], i)
  <2> SUFFICES ASSUME NEW i \in 0..m
               PROVE  h[i] = IF i = 0 THEN EmptyFs(Len(es)) ELSE SelectionStep(es, st, h[i - 1], i)
    OBVIOUS
  <2>1. CASE i = m
    <3>1. h[i] = SelectionStep(es, st, g[m - 1], m) /\ h[m - 1] = g[m - 1]
      BY <1>3, <1>5, <2>1
    <3> QED
      BY <1>3, <2>1, <3>1
  <2>2. CASE i # m
    <3>1. i \in 0..(m - 1) /\ h[i] = g[i]
      BY <1>1, <1>5, <2>2
    <3>2. g[i] = IF i = 0 THEN EmptyFs(Len(es)) ELSE SelectionStep(es, st, g[i - 1], i)
      BY <1>6, <3>1
    <3>3. i # 0 => h[i - 1] = g[i - 1]
      BY <1>5, <3>1
    <3> QED
      BY <3>1, <3>2, <3>3
  <2> QED
    BY <2>1, <2>2
<1>8. Selects(h, es, st, m)
  <2>1. h = [i \in 0..m |-> h[i]]
    OBVIOUS
  <2> HIDE DEF h
  <2> QED
    BY <1>7, <2>1 DEF Selects
<1> QED
  BY <1>1, <1>8

LEMMA SelectionRuns ==
    ASSUME NEW es, Len(es) \in Nat, NEW st
    PROVE  \E g : /\ ReplaySelection(es, st) = g[Len(es)] /\ g[0] = EmptyFs(Len(es))
                  /\ \A i \in 1..Len(es) : g[i] = SelectionStep(es, st, g[i - 1], i)
<1>1. PICK g0 : Selects(g0, es, st, Len(es))
  BY SelectionExists
<1> DEFINE g == CHOOSE x : x = [i \in 0..Len(es) |-> IF i = 0 THEN EmptyFs(Len(es))
                                                     ELSE SelectionStep(es, st, x[i - 1], i)]
<1>2. Selects(g, es, st, Len(es))
  BY <1>1 DEF Selects
<1>3. ReplaySelection(es, st) = g[Len(es)]
  BY DEF ReplaySelection, SelectionStep, InSelection
<1> HIDE DEF g
<1>4. g = [i \in 0..Len(es) |-> IF i = 0 THEN EmptyFs(Len(es)) ELSE SelectionStep(es, st, g[i - 1], i)]
  BY <1>2 DEF Selects
<1>5. g[0] = EmptyFs(Len(es)) /\ \A i \in 1..Len(es) : g[i] = SelectionStep(es, st, g[i - 1], i)
  BY <1>4
<1> QED
  BY <1>3, <1>5

(* What the file of a name holds.                                          *)
Held(fs, p) == IF fs.names[p] = 0 THEN <<>> ELSE fs.data[fs.names[p]]

(* A replay after i events of n: every name has a file of its own.         *)
Sound(fs, i, n) ==
    /\ DOMAIN fs = {"names", "data", "ok"} /\ fs.ok
    /\ DOMAIN fs.names = Paths /\ DOMAIN fs.data = 1..n
    /\ \A p \in Paths : fs.names[p] \in 0..i
    /\ \A p, q \in Paths : (fs.names[p] # 0 /\ fs.names[p] = fs.names[q]) => p = q
    /\ \A j \in 1..n : j > i => fs.data[j] = <<>>

LEMMA SoundEmpty ==
    ASSUME NEW n \in Nat
    PROVE  Sound(EmptyFs(n), 0, n) /\ \A p \in Paths : Held(EmptyFs(n), p) = <<>>
<1> DEFINE fs == EmptyFs(n)
<1>1. /\ DOMAIN fs = {"names", "data", "ok"} /\ fs.ok
      /\ fs.names = [p \in Paths |-> 0] /\ fs.data = [i \in 1..n |-> <<>>]
  BY DEF EmptyFs
<1> HIDE DEF fs
<1> QED
  BY <1>1 DEF Sound, Held, fs

LEMMA SoundLater ==
    ASSUME NEW fs, NEW n \in Nat, NEW i \in 1..n, Sound(fs, i - 1, n)
    PROVE  Sound(fs, i, n)
BY DEF Sound

LEMMA SoundEnsured ==
    ASSUME NEW fs, NEW n \in Nat, NEW i \in 1..n, Sound(fs, i - 1, n), NEW p \in Paths
    PROVE  LET made == EnsureFile(fs, p, i)
           IN  /\ Sound(made, i, n) /\ made.names[p] # 0
               /\ \A q \in Paths : Held(made, q) = Held(fs, q)
<1> DEFINE made == EnsureFile(fs, p, i)
<1>1. CASE fs.names[p] # 0
  BY <1>1, SoundLater DEF EnsureFile
<1>2. CASE fs.names[p] = 0
  <2>1. made = [fs EXCEPT !.names[p] = i]
    BY <1>2 DEF EnsureFile
  <2>2. /\ DOMAIN made = {"names", "data", "ok"} /\ made.ok /\ made.data = fs.data
        /\ DOMAIN made.names = Paths /\ made.names[p] = i
        /\ \A q \in Paths \ {p} : made.names[q] = fs.names[q]
    BY <2>1 DEF Sound
  <2> HIDE DEF made
  <2>3. /\ \A q \in Paths : made.names[q] \in 0..i
        /\ \A q, r \in Paths : (made.names[q] # 0 /\ made.names[q] = made.names[r]) => q = r
    BY <2>2 DEF Sound
  <2>4. \A q \in Paths : Held(made, q) = Held(fs, q)
    <3>1. Held(made, p) = Held(fs, p)
      BY <1>2, <2>2 DEF Sound, Held
    <3>2. \A q \in Paths \ {p} : Held(made, q) = Held(fs, q)
      BY <2>2 DEF Sound, Held
    <3> QED
      BY <3>1, <3>2
  <2>5. Sound(made, i, n) /\ made.names[p] # 0
    BY <2>2, <2>3 DEF Sound
  <2> QED
    BY <2>4, <2>5 DEF made
<1> QED
  BY <1>1, <1>2

(* The content of one file is replaced ...                                 *)
Filled(fs, p, x, new) == new = [fs EXCEPT !.data[fs.names[p]] = x]

LEMMA SoundFilled ==
    ASSUME NEW fs, NEW n \in Nat, NEW i \in 1..n, Sound(fs, i, n),
           NEW p \in Paths, fs.names[p] # 0, NEW x,
           NEW new, Filled(fs, p, x, new)
    PROVE  /\ Sound(new, i, n) /\ Held(new, p) = x
           /\ \A q \in Paths \ {p} : Held(new, q) = Held(fs, q)
<1>1. fs.names[p] \in 1..i
  BY DEF Sound
<1>2. /\ DOMAIN new = {"names", "data", "ok"} /\ new.ok /\ new.names = fs.names
      /\ DOMAIN new.data = 1..n /\ new.data[fs.names[p]] = x
      /\ \A j \in 1..n : j # fs.names[p] => new.data[j] = fs.data[j]
  BY <1>1 DEF Sound, Filled
<1>3. Held(new, p) = x
  BY <1>1, <1>2 DEF Held
<1>4. ASSUME NEW q \in Paths \ {p} PROVE Held(new, q) = Held(fs, q)
  <2>1. fs.names[q] # 0 => fs.names[q] \in 1..n /\ fs.names[q] # fs.names[p]
    BY DEF Sound
  <2> QED
    BY <1>2, <2>1 DEF Held
<1>5. Sound(new, i, n)
  BY <1>1, <1>2 DEF Sound
<1> QED
  BY <1>3, <1>4, <1>5

(* ... or its name moved.                                                  *)
Moved(fs, p, q, new) == new = [fs EXCEPT !.names[q] = fs.names[p], !.names[p] = 0]

LEMMA SoundMoved ==
    ASSUME NEW fs, NEW n \in Nat, NEW i \in 1..n, Sound(fs, i, n),
           NEW p \in Paths, NEW q \in Paths, p # q, fs.names[p] # 0,
           NEW new, Moved(fs, p, q, new)
    PROVE  /\ Sound(new, i, n) /\ Held(new, p) = <<>> /\ Held(new, q) = Held(fs, p)
           /\ \A r \in Paths \ {p, q} : Held(new, r) = Held(fs, r)
<1>1. /\ DOMAIN new = {"names", "data", "ok"} /\ new.ok /\ new.data = fs.data
      /\ DOMAIN new.names = Paths /\ new.names[p] = 0 /\ new.names[q] = fs.names[p]
      /\ \A r \in Paths \ {p, q} : new.names[r] = fs.names[r]
  BY DEF Sound, Moved
<1>2. /\ \A r \in Paths : new.names[r] \in 0..i
      /\ \A r, s \in Paths : (new.names[r] # 0 /\ new.names[r] = new.names[s]) => r = s
  BY <1>1 DEF Sound
<1>3. Held(new, p) = <<>> /\ Held(new, q) = Held(fs, p)
  BY <1>1 DEF Held
<1>4. \A r \in Paths \ {p, q} : Held(new, r) = Held(fs, r)
  BY <1>1 DEF Held
<1>5. Sound(new, i, n)
  BY <1>1, <1>2 DEF Sound
<1> QED
  BY <1>3, <1>4, <1>5

(* A driver's call, applied with the given bytes, changes the files it     *)
(* names and no other.                                                     *)
Writes(e) == e.call \in {"write", "pwrite"} /\ e.path \in Paths /\ e.off = 0
Renames(e) == e.call = "rename" /\ e.path \in Paths /\ e.path2 \in Paths /\ e.path # e.path2
Watches(e) == e.call \in {"open", "close", "fsync", "fdatasync"}

Does(fs, i, n, e, bytes, new) ==
    /\ Writes(e) =>
         /\ Sound(new, i, n)
         /\ Held(new, e.path) = Overlay(Held(fs, e.path), e.value, 0, Sectors(bytes))
         /\ \A q \in Paths \ {e.path} : Held(new, q) = Held(fs, q)
    /\ Renames(e) =>
         /\ Sound(new, i, n)
         /\ Held(new, e.path2) = Held(fs, e.path)
         /\ \A q \in Paths \ {e.path, e.path2} : Held(new, q) = Held(fs, q)
    /\ Watches(e) => new = fs

LEMMA Applied ==
    ASSUME NEW fs, NEW n \in Nat, NEW i \in 1..n, Sound(fs, i - 1, n), NEW e, NEW bytes,
           NEW new, new = ApplySelected(fs, i, e, bytes)
    PROVE  Does(fs, i, n, e, bytes, new)
<1> DEFINE made == EnsureFile(fs, e.path, i)
<1>1. ASSUME e.path \in Paths
      PROVE  /\ Sound(made, i, n) /\ made.names[e.path] # 0
             /\ \A q \in Paths : Held(made, q) = Held(fs, q)
             /\ made.data[made.names[e.path]] = Held(fs, e.path)
  <2>1. /\ Sound(made, i, n) /\ made.names[e.path] # 0
        /\ \A q \in Paths : Held(made, q) = Held(fs, q)
    BY <1>1, SoundEnsured
  <2> HIDE DEF made
  <2>2. made.data[made.names[e.path]] = Held(made, e.path)
    BY <2>1 DEF Held
  <2> QED
    BY <1>1, <2>1, <2>2
<1>2. ASSUME Writes(e)
      PROVE  /\ Sound(new, i, n)
             /\ Held(new, e.path) = Overlay(Held(fs, e.path), e.value, 0, Sectors(bytes))
             /\ \A q \in Paths \ {e.path} : Held(new, q) = Held(fs, q)
  <2> DEFINE x == Overlay(Held(fs, e.path), e.value, 0, Sectors(bytes))
  <2>1. e.path \in Paths /\ e.off = 0
    BY <1>2 DEF Writes
  <2>2. new = ApplyWrite(fs, i, e, bytes)
    BY <1>2 DEF Writes, ApplySelected
  <2>3. new = [made EXCEPT !.data[made.names[e.path]] = Overlay(@, e.value, e.off, Sectors(bytes))]
    BY <2>2 DEF ApplyWrite
  <2>4. new = [made EXCEPT !.data[made.names[e.path]] = x]
    <3> HIDE DEF made
    <3> QED
      BY <1>1, <2>1, <2>3
  <2> HIDE DEF made, x
  <2>5. /\ Sound(new, i, n) /\ Held(new, e.path) = x
        /\ \A q \in Paths \ {e.path} : Held(new, q) = Held(made, q)
    <3>1. PICK m, p, y : m = made /\ p = e.path /\ y = x
      OBVIOUS
    <3>2. /\ Sound(m, i, n) /\ p \in Paths /\ m.names[p] # 0
          /\ Filled(m, p, y, new)
      BY <1>1, <2>1, <2>4, <3>1 DEF Filled
    <3>3. /\ Sound(new, i, n) /\ Held(new, p) = y
          /\ \A q \in Paths \ {p} : Held(new, q) = Held(m, q)
      BY <3>2, SoundFilled
    <3> QED
      BY <3>1, <3>3
  <2> QED
    BY <1>1, <2>1, <2>5 DEF x
<1>3. ASSUME Renames(e)
      PROVE  /\ Sound(new, i, n)
             /\ Held(new, e.path2) = Held(fs, e.path)
             /\ \A q \in Paths \ {e.path, e.path2} : Held(new, q) = Held(fs, q)
  <2>1. e.path \in Paths /\ e.path2 \in Paths /\ e.path # e.path2
    BY <1>3 DEF Renames
  <2>2. new = ApplyRename(fs, i, e)
    BY <1>3 DEF Renames, ApplySelected
  <2>3. made.names[e.path] # made.names[e.path2]
    <3> HIDE DEF made
    <3> QED
      BY <1>1, <2>1 DEF Sound
  <2>4. new = [made EXCEPT !.names[e.path2] = made.names[e.path], !.names[e.path] = 0]
    BY <2>2, <2>3 DEF ApplyRename
  <2> HIDE DEF made
  <2>5. /\ Sound(new, i, n) /\ Held(new, e.path2) = Held(made, e.path)
        /\ \A r \in Paths \ {e.path, e.path2} : Held(new, r) = Held(made, r)
    <3>1. PICK m, p, q : m = made /\ p = e.path /\ q = e.path2
      OBVIOUS
    <3>2. /\ Sound(m, i, n) /\ m.names[p] # 0 /\ p \in Paths /\ q \in Paths /\ p # q
          /\ Moved(m, p, q, new)
      BY <1>1, <2>1, <2>4, <3>1 DEF Moved
    <3>3. /\ Sound(new, i, n) /\ Held(new, q) = Held(m, p)
          /\ \A r \in Paths \ {p, q} : Held(new, r) = Held(m, r)
      BY <3>2, SoundMoved
    <3> QED
      BY <3>1, <3>3
  <2> QED
    BY <1>1, <2>1, <2>5
<1>4. Watches(e) => new = fs
  BY DEF Watches, ApplySelected
<1> QED
  BY <1>2, <1>3, <1>4 DEF Does

-----------------------------------------------------------------------------
(* What the replay of a state leaves under the key of an operation.        *)

LEMMA Kinds ==
    ASSUME OwnFiles, DriverInv, NEW i \in DOMAIN events
    PROVE  LET e == events[i]
               o == owner[i]
           IN  /\ o \in Operations
               /\ \/ Watches(e) /\ ~Mutation(e)
                  \/ Writes(e) /\ Mutation(e) /\ e.path \in {Tmp[o], KeyOf[o]}
                  \/ Renames(e) /\ Mutation(e) /\ e.path = Tmp[o] /\ e.path2 = KeyOf[o]
<1> DEFINE e == events[i]
           o == owner[i]
<1>1. o \in Operations
  BY DEF DriverInv, Stamped
<1>2. PICK w : Took(o, w)
  BY <1>1 DEF DriverInv, Driven
<1>3. PICK k \in DOMAIN w : protocol[o][k] \in CALLS /\ Says(e, o, protocol[o][k])
  BY <1>2 DEF Took
<1>4. KeyOf[o] \in Paths /\ Tmp[o] \in Paths /\ KeyOf[o] # Tmp[o]
  BY <1>1 DEF OwnFiles
<1> DEFINE step == protocol[o][k]
<1> HIDE DEF e, o, step
<1>5. step \in CALLS /\ Says(e, o, step)
  BY <1>3 DEF step
<1>6. CASE step \in {"open", "close", "sync", "syncTmp", "syncDir"}
  <2>1. e.call \in {"open", "close", "fsync", "fdatasync"}
    BY <1>5, <1>6 DEF Says
  <2> QED
    BY <1>1, <2>1 DEF Watches, Mutation, MUTATING, e, o
<1>7. CASE step \in {"write", "put"}
  <2>1. e.call \in {"write", "pwrite"} /\ e.path \in {Tmp[o], KeyOf[o]} /\ e.off = 0
    BY <1>5, <1>7 DEF Says
  <2> QED
    BY <1>1, <1>4, <2>1 DEF Writes, Mutation, MUTATING, e, o
<1>8. CASE step = "rename"
  <2>1. e.call = "rename" /\ e.path = Tmp[o] /\ e.path2 = KeyOf[o]
    BY <1>5, <1>8 DEF Says
  <2> QED
    BY <1>1, <1>4, <2>1 DEF Renames, Mutation, MUTATING, e, o
<1> QED
  BY <1>5, <1>6, <1>7, <1>8 DEF CALLS

(* One step of the replay: no name changes hands, and the files of an      *)
(* operation stay what they are unless a mutation of its own is applied.   *)
LEMMA SelectionStepped ==
    ASSUME OwnFiles, CampaignInv, DriverInv, NEW st, NEW i \in DOMAIN events,
           NEW fs, Sound(fs, i - 1, Len(events)), NEW o \in Operations,
           NEW e, e = events[i], NEW new, new = SelectionStep(events, st, fs, i)
    PROVE  /\ Sound(new, i, Len(events))
           /\ ~(Own(o, i) /\ InSelection(st, i)) =>
                Held(new, KeyOf[o]) = Held(fs, KeyOf[o]) /\ Held(new, Tmp[o]) = Held(fs, Tmp[o])
           /\ (InSelection(st, i) /\ Writes(e)) =>
                Held(new, e.path) =
                  Overlay(Held(fs, e.path), e.value, 0, Sectors(HeldBytes(events, st, i)))
           /\ (InSelection(st, i) /\ Writes(e) /\ e.path = Tmp[o]) =>
                Held(new, KeyOf[o]) = Held(fs, KeyOf[o])
           /\ (InSelection(st, i) /\ Renames(e)) => Held(new, e.path2) = Held(fs, e.path)
<1> DEFINE n == Len(events)
           bytes == HeldBytes(events, st, i)
<1>1. i \in 1..n /\ n \in Nat
  BY IntDomains
<1>2. fs.ok
  BY DEF Sound
<1>3. KeyOf[o] \in Paths /\ Tmp[o] \in Paths /\ KeyOf[o] # Tmp[o]
  BY DEF OwnFiles
<1>4. CASE ~InSelection(st, i)
  <2>1. new = fs
    BY <1>4 DEF SelectionStep
  <2> QED
    BY <1>1, <1>4, <2>1, SoundLater
<1>5. CASE InSelection(st, i)
  <2>1. new = ApplySelected(fs, i, e, bytes)
    BY <1>2, <1>5 DEF SelectionStep
  <2>2. PICK q \in Operations : /\ owner[i] = q
                                /\ \/ Watches(e) /\ ~Mutation(e)
                                   \/ Writes(e) /\ Mutation(e) /\ e.path \in {Tmp[q], KeyOf[q]}
                                   \/ Renames(e) /\ Mutation(e) /\ e.path = Tmp[q] /\ e.path2 = KeyOf[q]
    BY Kinds
  <2>3. q # o => {Tmp[q], KeyOf[q]} \cap {Tmp[o], KeyOf[o]} = {}
    BY DEF OwnFiles
  <2>4. /\ Writes(e) =>
             /\ Sound(new, i, n)
             /\ Held(new, e.path) = Overlay(Held(fs, e.path), e.value, 0, Sectors(bytes))
             /\ \A r \in Paths \ {e.path} : Held(new, r) = Held(fs, r)
        /\ Renames(e) =>
             /\ Sound(new, i, n)
             /\ Held(new, e.path2) = Held(fs, e.path)
             /\ \A r \in Paths \ {e.path, e.path2} : Held(new, r) = Held(fs, r)
        /\ Watches(e) => new = fs
    <3>1. PICK k, bs : k = n /\ bs = bytes
      OBVIOUS
    <3>2. k \in Nat /\ i \in 1..k /\ Sound(fs, i - 1, k) /\ new = ApplySelected(fs, i, e, bs)
      BY <1>1, <2>1, <3>1
    <3> HIDE DEF n, bytes
    <3>3. Does(fs, i, k, e, bs, new)
      BY <3>2, Applied
    <3> QED
      BY <3>1, <3>3 DEF Does
  <2>6. Sound(fs, i, n)
    BY <1>1, SoundLater
  <2>7. ~(Writes(e) /\ Renames(e)) /\ ~(Writes(e) /\ Watches(e)) /\ ~(Watches(e) /\ Renames(e))
    BY DEF Writes, Renames, Watches
  <2>8. Own(o, i) <=> q = o /\ Mutation(e)
    BY <2>2 DEF Own
  <2> HIDE DEF n, bytes
  <2>9. CASE Watches(e) /\ ~Mutation(e)
    BY <2>4, <2>6, <2>7, <2>9 DEF n, bytes
  <2>10. CASE Writes(e) /\ Mutation(e) /\ e.path \in {Tmp[q], KeyOf[q]}
    <3>1. Sound(new, i, n)
      BY <2>4, <2>10
    <3>2. ~(Own(o, i) /\ InSelection(st, i)) =>
             Held(new, KeyOf[o]) = Held(fs, KeyOf[o]) /\ Held(new, Tmp[o]) = Held(fs, Tmp[o])
      BY <1>3, <1>5, <2>3, <2>4, <2>8, <2>10
    <3>3. Held(new, e.path) = Overlay(Held(fs, e.path), e.value, 0, Sectors(bytes))
      BY <2>4, <2>10
    <3>4. e.path = Tmp[o] => Held(new, KeyOf[o]) = Held(fs, KeyOf[o])
      BY <1>3, <2>4, <2>10
    <3> QED
      BY <2>7, <2>10, <3>1, <3>2, <3>3, <3>4 DEF n, bytes
  <2>11. CASE Renames(e) /\ Mutation(e) /\ e.path = Tmp[q] /\ e.path2 = KeyOf[q]
    <3>1. Sound(new, i, n) /\ Held(new, e.path2) = Held(fs, e.path)
      BY <2>4, <2>11
    <3>2. ~(Own(o, i) /\ InSelection(st, i)) =>
             Held(new, KeyOf[o]) = Held(fs, KeyOf[o]) /\ Held(new, Tmp[o]) = Held(fs, Tmp[o])
      BY <1>3, <1>5, <2>3, <2>4, <2>8, <2>11
    <3> QED
      BY <2>7, <2>11, <3>1, <3>2 DEF n, bytes
  <2> QED
    BY <2>2, <2>9, <2>10, <2>11
<1> QED
  BY <1>4, <1>5

(* What a write leaves of its value.                                       *)
Part(o, st, j) ==
    IF InSelection(st, j)
    THEN Overlay(<<>>, Value(o), 0, Sectors(HeldBytes(events, st, j))) ELSE <<>>

LEMMA KeyOfPut ==
    ASSUME OwnFiles, CampaignInv, DriverInv, NEW st, NEW o \in Operations,
           NEW j \in DOMAIN events, owner[j] = o, Says(events[j], o, "put"),
           \A i \in DOMAIN events : Own(o, i) => i = j
    PROVE  /\ Sound(ReplaySelection(events, st), Len(events), Len(events))
           /\ Held(ReplaySelection(events, st), KeyOf[o]) = Part(o, st, j)
<1> DEFINE N == Len(events)
           key == KeyOf[o]
<1>1. N \in Nat /\ DOMAIN events = 1..N /\ key \in Paths
  BY IntDomains DEF OwnFiles
<1>2. PICK g : /\ ReplaySelection(events, st) = g[N] /\ g[0] = EmptyFs(N)
               /\ \A i \in 1..N : g[i] = SelectionStep(events, st, g[i - 1], i)
  BY <1>1, SelectionRuns
<1>3. Writes(events[j]) /\ events[j].path = key /\ events[j].value = Value(o)
  BY <1>1 DEF Says, Writes
<1> DEFINE Right(i) == /\ Sound(g[i], i, N)
                       /\ Held(g[i], key) = IF i < j THEN <<>> ELSE Part(o, st, j)
           T == {i \in 0..N : ~Right(i)}
<1>4. T = {}
  <2> SUFFICES ASSUME T # {} PROVE FALSE
    OBVIOUS
  <2>1. PICK i \in T : \A k \in T : i <= k
    <3>1. T \subseteq Nat
      BY <1>1
    <3> HIDE DEF T
    <3> QED
      BY <3>1, Smallest
  <2>2. Right(0)
    BY <1>1, <1>2, SoundEmpty
  <2>3. i \in 1..N /\ i - 1 \in 0..N /\ Right(i - 1)
    BY <1>1, <2>1, <2>2
  <2>4. /\ Sound(g[i], i, N)
        /\ ~(Own(o, i) /\ InSelection(st, i)) => Held(g[i], key) = Held(g[i - 1], key)
        /\ (InSelection(st, i) /\ Writes(events[i])) =>
              Held(g[i], events[i].path) = Overlay(Held(g[i - 1], events[i].path), events[i].value, 0,
                                                   Sectors(HeldBytes(events, st, i)))
    <3>1. PICK old, new, e, m : old = g[i - 1] /\ new = g[i] /\ e = events[i] /\ m = i
      OBVIOUS
    <3>2. /\ m \in DOMAIN events /\ Sound(old, m - 1, Len(events)) /\ e = events[m]
          /\ new = SelectionStep(events, st, old, m)
      BY <1>1, <1>2, <2>3, <3>1
    <3>3. /\ Sound(new, m, Len(events))
          /\ ~(Own(o, m) /\ InSelection(st, m)) =>
                Held(new, KeyOf[o]) = Held(old, KeyOf[o]) /\ Held(new, Tmp[o]) = Held(old, Tmp[o])
          /\ (InSelection(st, m) /\ Writes(e)) =>
                Held(new, e.path) =
                  Overlay(Held(old, e.path), e.value, 0, Sectors(HeldBytes(events, st, m)))
          /\ (InSelection(st, m) /\ Writes(e) /\ e.path = Tmp[o]) =>
                Held(new, KeyOf[o]) = Held(old, KeyOf[o])
          /\ (InSelection(st, m) /\ Renames(e)) => Held(new, e.path2) = Held(old, e.path)
      BY <3>2, SelectionStepped
    <3> QED
      BY <3>1, <3>3
  <2>5. Right(i)
    <3>1. CASE i # j
      <4>1. ~Own(o, i)
        BY <1>1, <2>3, <3>1
      <4>2. i < j <=> i - 1 < j
        BY <1>1, <2>3, <3>1
      <4> QED
        BY <2>3, <2>4, <4>1, <4>2
    <3>2. CASE i = j /\ InSelection(st, j)
      <4>1. Held(g[i - 1], key) = <<>>
        BY <1>1, <2>3, <3>2
      <4>2. Held(g[i], key) = Overlay(<<>>, Value(o), 0, Sectors(HeldBytes(events, st, j)))
        BY <1>3, <2>4, <3>2, <4>1
      <4> QED
        BY <1>1, <2>4, <3>2, <4>2 DEF Part
    <3>3. CASE i = j /\ ~InSelection(st, j)
      <4>1. Held(g[i - 1], key) = <<>>
        BY <1>1, <2>3, <3>3
      <4> QED
        BY <1>1, <2>4, <3>3, <4>1 DEF Part
    <3> QED
      BY <3>1, <3>2, <3>3
  <2> QED
    BY <2>1, <2>5
<1>5. Right(N)
  BY <1>1, <1>4
<1> QED
  BY <1>1, <1>2, <1>5

LEMMA KeyOfRename ==
    ASSUME OwnFiles, CampaignInv, DriverInv, NEW st, NEW o \in Operations,
           NEW j \in DOMAIN events, NEW r \in DOMAIN events, ReplacesAt(o, j, r)
    PROVE  /\ Sound(ReplaySelection(events, st), Len(events), Len(events))
           /\ Held(ReplaySelection(events, st), KeyOf[o]) =
                IF InSelection(st, r) THEN Part(o, st, j) ELSE <<>>
<1> DEFINE N == Len(events)
           key == KeyOf[o]
           tmp == Tmp[o]
<1>1. N \in Nat /\ DOMAIN events = 1..N /\ key \in Paths /\ tmp \in Paths /\ key # tmp
  BY IntDomains DEF OwnFiles
<1>2. PICK g : /\ ReplaySelection(events, st) = g[N] /\ g[0] = EmptyFs(N)
               /\ \A i \in 1..N : g[i] = SelectionStep(events, st, g[i - 1], i)
  BY <1>1, SelectionRuns
<1>3. /\ Writes(events[j]) /\ events[j].path = tmp /\ events[j].value = Value(o)
      /\ Renames(events[r]) /\ events[r].path = tmp /\ events[r].path2 = key
      /\ j < r /\ \A k \in DOMAIN events : Own(o, k) => k \in {j, r}
  BY <1>1 DEF ReplacesAt, Says, Writes, Renames
<1> DEFINE after == IF InSelection(st, r) THEN Part(o, st, j) ELSE <<>>
           Right(i) == /\ Sound(g[i], i, N)
                       /\ i < r => Held(g[i], tmp) = IF i < j THEN <<>> ELSE Part(o, st, j)
                       /\ Held(g[i], key) = IF i < r THEN <<>> ELSE after
           T == {i \in 0..N : ~Right(i)}
<1>4. T = {}
  <2> SUFFICES ASSUME T # {} PROVE FALSE
    OBVIOUS
  <2>1. PICK i \in T : \A k \in T : i <= k
    <3>1. T \subseteq Nat
      BY <1>1
    <3> HIDE DEF T
    <3> QED
      BY <3>1, Smallest
  <2>2. Right(0)
    BY <1>1, <1>2, SoundEmpty
  <2>3. i \in 1..N /\ i - 1 \in 0..N /\ Right(i - 1)
    BY <1>1, <2>1, <2>2
  <2>4. /\ Sound(g[i], i, N)
        /\ ~(Own(o, i) /\ InSelection(st, i)) =>
              Held(g[i], key) = Held(g[i - 1], key) /\ Held(g[i], tmp) = Held(g[i - 1], tmp)
        /\ (InSelection(st, i) /\ Writes(events[i])) =>
              Held(g[i], events[i].path) = Overlay(Held(g[i - 1], events[i].path), events[i].value, 0,
                                                   Sectors(HeldBytes(events, st, i)))
        /\ (InSelection(st, i) /\ Writes(events[i]) /\ events[i].path = tmp) =>
              Held(g[i], key) = Held(g[i - 1], key)
        /\ (InSelection(st, i) /\ Renames(events[i])) =>
              Held(g[i], events[i].path2) = Held(g[i - 1], events[i].path)
    <3>1. PICK old, new, e, m : old = g[i - 1] /\ new = g[i] /\ e = events[i] /\ m = i
      OBVIOUS
    <3>2. /\ m \in DOMAIN events /\ Sound(old, m - 1, Len(events)) /\ e = events[m]
          /\ new = SelectionStep(events, st, old, m)
      BY <1>1, <1>2, <2>3, <3>1
    <3>3. /\ Sound(new, m, Len(events))
          /\ ~(Own(o, m) /\ InSelection(st, m)) =>
                Held(new, KeyOf[o]) = Held(old, KeyOf[o]) /\ Held(new, Tmp[o]) = Held(old, Tmp[o])
          /\ (InSelection(st, m) /\ Writes(e)) =>
                Held(new, e.path) =
                  Overlay(Held(old, e.path), e.value, 0, Sectors(HeldBytes(events, st, m)))
          /\ (InSelection(st, m) /\ Writes(e) /\ e.path = Tmp[o]) =>
                Held(new, KeyOf[o]) = Held(old, KeyOf[o])
          /\ (InSelection(st, m) /\ Renames(e)) => Held(new, e.path2) = Held(old, e.path)
      BY <3>2, SelectionStepped
    <3> QED
      BY <3>1, <3>3
  <2> HIDE DEF T
  <2>5. Right(i)
    <3>1. CASE i # j /\ i # r
      <4>1. ~Own(o, i)
        BY <1>1, <1>3, <2>3, <3>1
      <4>2. (i < j <=> i - 1 < j) /\ (i < r <=> i - 1 < r)
        BY <1>1, <2>3, <3>1
      <4> HIDE DEF after
      <4> QED
        BY <2>3, <2>4, <4>1, <4>2
    <3>2. CASE i = j
      <4>1. i < r /\ i - 1 < j /\ i - 1 < r /\ ~(i < j)
        BY <1>1, <1>3, <3>2
      <4>2. Held(g[i - 1], tmp) = <<>> /\ Held(g[i - 1], key) = <<>>
        BY <2>3, <4>1
      <4>3. Held(g[i], key) = <<>>
        BY <1>3, <2>4, <3>2, <4>2
      <4>4. Held(g[i], tmp) = Part(o, st, j)
        <5>1. CASE InSelection(st, j)
          BY <1>3, <2>4, <3>2, <4>2, <5>1 DEF Part
        <5>2. CASE ~InSelection(st, j)
          BY <2>4, <3>2, <4>2, <5>2 DEF Part
        <5> QED
          BY <5>1, <5>2
      <4> QED
        BY <2>4, <4>1, <4>3, <4>4
    <3>3. CASE i = r
      <4>1. ~(i < r) /\ i - 1 < r /\ ~(i - 1 < j)
        BY <1>1, <1>3, <3>3
      <4>2. Held(g[i - 1], tmp) = Part(o, st, j) /\ Held(g[i - 1], key) = <<>>
        BY <2>3, <4>1
      <4>3. Held(g[i], key) = after
        BY <1>3, <2>4, <3>3, <4>2
      <4> QED
        BY <2>4, <4>1, <4>3
    <3> QED
      BY <3>1, <3>2, <3>3
  <2> QED
    BY <2>1, <2>5 DEF T
<1>5. Right(N)
  BY <1>1, <1>4
<1>6. ~(N < r)
  BY <1>1
<1> QED
  BY <1>1, <1>2, <1>5, <1>6


-----------------------------------------------------------------------------
(* What a state holds of an operation, and what is read back of it.        *)

Whole(o) == [k \in 1..2 |-> Value(o)]

LEMMA StateOf ==
    ASSUME CampaignInv, NEW st \in AllStates
    PROVE  /\ st.crashPoint \in DOMAIN events
           /\ PinnedBy(events, st.crashPoint) \subseteq st.persisted
           /\ \A w \in st.partial : /\ w.op \in DOMAIN events /\ w.op \notin st.persisted
                                    /\ w.bytes \in StrictSectorPrefixes(events[w.op])
<1>1. PICK cp \in DOMAIN events : st \in StatesAt(events, cp, model)
  BY DEF AllStates
<1>2. DOMAIN events = 1..Len(events) /\ Len(events) \in Nat
  BY IntDomains
<1>3. Window(events, cp) \subseteq DOMAIN events
  BY <1>2 DEF Window, Free, Performed
<1>4. CASE model.totalOrder
  <2>1. PICK S : st = CrashState(cp, S, {}) /\ AlwaysPresent(events, cp) \subseteq S
    BY <1>1, <1>4 DEF StatesAt, PrefixStates
  <2>2. st.crashPoint = cp /\ st.persisted = S /\ st.partial = {}
    BY <2>1 DEF CrashState
  <2> QED
    BY <2>1, <2>2 DEF AlwaysPresent
<1>5. CASE ~model.totalOrder
  <2>1. PICK S \in LegalSets(events, cp) :
           \E T \in SUBSET TornOf(events, cp, S) : st = CrashState(cp, S, T)
    BY <1>1, <1>5 DEF StatesAt, SubsetStates
  <2>5. PICK T \in SUBSET TornOf(events, cp, S) : st = CrashState(cp, S, T)
    BY <2>1
  <2>2. st.crashPoint = cp /\ st.persisted = S /\ st.partial = T
    BY <2>5 DEF CrashState
  <2>3. AlwaysPresent(events, cp) \subseteq S
    BY <2>1 DEF LegalSets
  <2>4. ASSUME NEW w \in T
        PROVE  w.op \in Window(events, cp) \ S /\ w.bytes \in StrictSectorPrefixes(events[w.op])
    BY <2>4 DEF TornOf
  <2> QED
    BY <1>3, <2>2, <2>3, <2>4 DEF AlwaysPresent
<1> QED
  BY <1>4, <1>5

(* A write of a value is there whole, up to a sector, or not at all.       *)
LEMMA PartIs ==
    ASSUME CampaignInv, NEW st \in AllStates, NEW o, NEW j \in DOMAIN events,
           events[j].len = ValueBytes
    PROVE  /\ j \in st.persisted => Part(o, st, j) = Whole(o)
           /\ j \notin st.persisted => Part(o, st, j) \in {<<>>, <<Value(o)>>}
<1>0. \A w \in st.partial : /\ w.op \notin st.persisted
                            /\ w.bytes \in StrictSectorPrefixes(events[w.op])
  BY StateOf
<1>1. CASE j \in st.persisted
  <2>1. ~ \E w \in st.partial : w.op = j
    BY <1>0, <1>1
  <2>2. HeldBytes(events, st, j) = ValueBytes /\ InSelection(st, j)
    BY <1>1, <2>1 DEF HeldBytes, InSelection
  <2>3. Sectors(ValueBytes) = 2
    BY DEF Sectors, SectorSize, ValueBytes
  <2>4. Overlay(<<>>, Value(o), 0, 2) = Whole(o)
    BY DEF Overlay, Whole
  <2> QED
    BY <1>1, <2>2, <2>3, <2>4 DEF Part
<1>2. CASE j \notin st.persisted /\ \E w \in st.partial : w.op = j
  <2> DEFINE w == CHOOSE t \in st.partial : t.op = j
  <2>1. w \in st.partial /\ w.op = j
    BY <1>2
  <2>2. HeldBytes(events, st, j) = w.bytes /\ InSelection(st, j)
    BY <1>2 DEF HeldBytes, InSelection
  <2> HIDE DEF w
  <2>3. w.bytes = 512
    <3>1. w.bytes \in StrictSectorPrefixes(events[j])
      BY <1>0, <2>1
    <3>2. ((ValueBytes + 511) \div SECTOR_BYTES) - 1 = 1
      BY DEF ValueBytes, SECTOR_BYTES
    <3>3. PICK s \in 1..1 : w.bytes = s * SECTOR_BYTES
      BY <3>1, <3>2 DEF StrictSectorPrefixes
    <3> QED
      BY <3>3 DEF SECTOR_BYTES
  <2>4. Sectors(512) = 1
    BY DEF Sectors, SectorSize
  <2>5. Overlay(<<>>, Value(o), 0, 1) = <<Value(o)>>
    BY DEF Overlay
  <2> QED
    BY <1>2, <2>2, <2>3, <2>4, <2>5 DEF Part
<1>3. CASE j \notin st.persisted /\ ~ \E w \in st.partial : w.op = j
  BY <1>3 DEF Part, InSelection
<1> QED
  BY <1>1, <1>2, <1>3

(* Recovery reads the value of an operation only out of a whole file.      *)
LEMMA ReadOf ==
    ASSUME OwnFiles, NEW fs, NEW n, Sound(fs, n, n), NEW o \in Operations,
           Held(fs, KeyOf[o]) \in {<<>>, <<Value(o)>>, Whole(o)}
    PROVE  ReadBack(RecoverFileKv(fs), KeyOf[o]) = Value(o) <=> Held(fs, KeyOf[o]) = Whole(o)
<1> DEFINE key == KeyOf[o]
           vs == RecoverFileKv(fs).values
           c == Content(fs, key)
<1>1. key \in Paths
  BY DEF OwnFiles
<1>2. Value(o) # NOVALUE /\ Value(o) # "other"
  BY DEF Value, NOVALUE
<1>3. <<>> # Whole(o) /\ <<Value(o)>> # Whole(o)
  <2>1. 2 \in DOMAIN Whole(o) /\ 2 \notin DOMAIN <<>> /\ 2 \notin DOMAIN <<Value(o)>>
    BY DEF Whole
  <2> QED
    BY <2>1
<1>4. vs = [k \in {p \in {KeyOf[q] : q \in Operations} : fs.names[p] # 0} |-> DigestOf(Content(fs, k))]
  BY DEF RecoverFileKv
<1>5. CASE fs.names[key] = 0
  <2>1. key \notin DOMAIN vs
    BY <1>4, <1>5
  <2>2. ReadBack(RecoverFileKv(fs), key) = NOVALUE
    BY <2>1 DEF ReadBack
  <2>3. Held(fs, key) = <<>>
    BY <1>5 DEF Held
  <2> QED
    BY <1>2, <1>3, <2>2, <2>3
<1>6. CASE fs.names[key] # 0
  <2>1. key \in DOMAIN vs /\ vs[key] = DigestOf(c)
    BY <1>4, <1>6
  <2>2. ReadBack(RecoverFileKv(fs), key) = DigestOf(c)
    BY <2>1 DEF ReadBack
  <2>3. c = Held(fs, key)
    BY <1>6 DEF Held, Content
  <2>4. Sectors(ValueBytes) = 2
    BY DEF Sectors, SectorSize, ValueBytes
  <2>5. DigestOf(Whole(o)) = Value(o)
    <3>1. Whole(o)[1] = Value(o)
      BY DEF Whole
    <3> QED
      BY <2>4, <3>1 DEF DigestOf, Whole
  <2>6. \A x \in {<<>>, <<Value(o)>>} : DigestOf(x) = "other"
    <3>1. \A q \in Operations : /\ 2 \in DOMAIN [k \in 1..2 |-> Value(q)]
                                /\ 2 \notin DOMAIN <<>> /\ 2 \notin DOMAIN <<Value(o)>>
      OBVIOUS
    <3>2. \A q \in Operations, x \in {<<>>, <<Value(o)>>} : x # [k \in 1..2 |-> Value(q)]
      BY <3>1
    <3> QED
      BY <2>4, <3>2 DEF DigestOf
  <2> HIDE DEF key, vs, c
  <2> QED
    BY <1>2, <1>3, <2>2, <2>3, <2>5, <2>6 DEF key
<1> QED
  BY <1>5, <1>6

(* Replay and recovery neither hide nor invent: the value of a finished    *)
(* operation is read back of a state that holds its mutations whole, and   *)
(* of no other.                                                            *)
LEMMA ReadsBack ==
    ASSUME OwnFiles, CampaignInv, DriverInv, AllFinished, NEW st \in AllStates, NEW o \in Operations
    PROVE  ReadBack(RecoverFileKv(ReplaySelection(events, st)), KeyOf[o]) = Value(o)
             <=> \A i \in DOMAIN events : Own(o, i) => i \in st.persisted
<1> DEFINE fs == ReplaySelection(events, st)
           n == Len(events)
<1>1. PICK b, a \in DOMAIN markers :
         IF protocol[o] = syncedInPlace
         THEN \E i, s \in DOMAIN events : PutsAt(o, a, i, s)
         ELSE \E i, j \in DOMAIN events : ReplacesAt(o, i, j)
  BY FinishedOperation DEF AllFinished
<1>2. \A x \in {<<>>, <<Value(o)>>} : x # Whole(o)
  <2>1. 2 \in DOMAIN Whole(o) /\ 2 \notin DOMAIN <<>> /\ 2 \notin DOMAIN <<Value(o)>>
    BY DEF Whole
  <2> QED
    BY <2>1
<1>3. CASE protocol[o] = syncedInPlace
  <2>1. PICK j, s \in DOMAIN events : PutsAt(o, a, j, s)
    BY <1>1, <1>3
  <2>2. /\ owner[j] = o /\ Says(events[j], o, "put") /\ events[j].len = ValueBytes
        /\ \A i \in DOMAIN events : Own(o, i) => i = j
    BY <2>1 DEF PutsAt, Says
  <2>3. Own(o, j)
    BY <2>2, MutatingSteps DEF Own, CALLS, MUTATES
  <2>4. Sound(fs, n, n) /\ Held(fs, KeyOf[o]) = Part(o, st, j)
    BY <2>2, KeyOfPut
  <2>5. /\ j \in st.persisted => Part(o, st, j) = Whole(o)
        /\ j \notin st.persisted => Part(o, st, j) \in {<<>>, <<Value(o)>>}
    BY <2>2, PartIs
  <2> HIDE DEF fs, n
  <2>6. ReadBack(RecoverFileKv(fs), KeyOf[o]) = Value(o) <=> Held(fs, KeyOf[o]) = Whole(o)
    BY <2>4, <2>5, ReadOf
  <2> QED
    BY <1>2, <2>2, <2>3, <2>4, <2>5, <2>6 DEF fs
<1>4. CASE protocol[o] # syncedInPlace
  <2>1. PICK j, r \in DOMAIN events : ReplacesAt(o, j, r)
    BY <1>1, <1>4
  <2>2. /\ owner[j] = o /\ Says(events[j], o, "write") /\ events[j].len = ValueBytes
        /\ owner[r] = o /\ Says(events[r], o, "rename") /\ events[r].call = "rename"
        /\ \A i \in DOMAIN events : Own(o, i) => i \in {j, r}
    BY <2>1 DEF ReplacesAt, Says
  <2>3. Own(o, j) /\ Own(o, r)
    BY <2>2, MutatingSteps DEF Own, CALLS, MUTATES
  <2>4. Sound(fs, n, n) /\ Held(fs, KeyOf[o]) = IF InSelection(st, r) THEN Part(o, st, j) ELSE <<>>
    BY <2>1, KeyOfRename
  <2>5. /\ j \in st.persisted => Part(o, st, j) = Whole(o)
        /\ j \notin st.persisted => Part(o, st, j) \in {<<>>, <<Value(o)>>}
    BY <2>2, PartIs
  <2>6. InSelection(st, r) <=> r \in st.persisted
    <3>1. StrictSectorPrefixes(events[r]) = {}
      BY <2>2 DEF StrictSectorPrefixes, PAYLOAD
    <3>2. ~ \E w \in st.partial : w.op = r
      BY <3>1, StateOf
    <3> QED
      BY <3>2 DEF InSelection
  <2> HIDE DEF fs, n
  <2>7. ReadBack(RecoverFileKv(fs), KeyOf[o]) = Value(o) <=> Held(fs, KeyOf[o]) = Whole(o)
    BY <2>4, <2>5, ReadOf
  <2> QED
    BY <1>2, <2>2, <2>3, <2>4, <2>5, <2>6, <2>7 DEF fs
<1> QED
  BY <1>3, <1>4

(* So the oracle reports the operations whose durability was announced     *)
(* before the crash and that the state lacks something of.                 *)
LEMMA LostWhenLacking ==
    ASSUME OwnFiles, CampaignInv, DriverInv, AllFinished, NEW st \in AllStates, NEW o \in Operations,
           NEW b \in DOMAIN markers, NEW a \in DOMAIN markers, Promises(o, b, a)
    PROVE  (\E v \in Violations(st, RecoverFileKv(ReplaySelection(events, st))) : v.op = o) <=>
             /\ durable[o] /\ markers[a].index < CrashStamp(st)
             /\ \E i \in DOMAIN events : Own(o, i) /\ i \notin st.persisted
<1> DEFINE fs == ReplaySelection(events, st)
<1>1. (\E v \in Violations(st, RecoverFileKv(fs)) : v.op = o) <=> Broken(o, a, st, fs)
  <2> HIDE DEF fs
  <2> QED
    BY Reported
<1>2. ReadBack(RecoverFileKv(fs), KeyOf[o]) = Value(o)
        <=> \A i \in DOMAIN events : Own(o, i) => i \in st.persisted
  BY ReadsBack
<1> HIDE DEF fs
<1> QED
  BY <1>1, <1>2 DEF Broken, fs

(* Every call of a driver succeeds, and is a step of its protocol.         *)
LEMMA CallIsStep ==
    ASSUME OwnFiles, DriverInv, NEW i \in DOMAIN events
    PROVE  /\ owner[i] \in Operations /\ events[i].ret = 0
           /\ \E k \in 1..Len(protocol[owner[i]]) :
                 /\ protocol[owner[i]][k] \in CALLS
                 /\ Says(events[i], owner[i], protocol[owner[i]][k])
<1>1. PICK o \in Operations : o = owner[i]
  BY DEF DriverInv, Stamped
<1>2. protocol[o] \in Protocols /\ pc[o] \in 1..(Len(protocol[o]) + 1)
  BY DEF DriverInv, Driven
<1>3. PICK w : Took(o, w)
  BY DEF DriverInv, Driven
<1>4. PICK k \in DOMAIN w : protocol[o][k] \in CALLS /\ Says(events[i], o, protocol[o][k])
  BY <1>1, <1>3 DEF Took
<1>5. k \in 1..Len(protocol[o])
  BY <1>2, <1>3, Steps DEF Took
<1> QED
  BY <1>1, <1>4, <1>5 DEF Says

-----------------------------------------------------------------------------
(* What is reported, what is owed and who is blamed.                       *)

(* A finding comes from a violation of its own state, by then the drivers  *)
(* are done, and the operation has its two markers.                        *)
LEMMA FindingOf ==
    ASSUME OwnFiles, CampaignInv, DriverInv, OfTheTrace, NEW s \in DOMAIN findings
    PROVE  LET f == findings[s]
               o == f.violation.op
           IN  /\ AllFinished /\ f.state \in AllStates /\ o \in Operations
               /\ f.violation \in WithSignature(f.state,
                                     RecoverFileKv(ReplaySelection(events, f.state)), s)
               /\ OperationOf(f.violation) = AckRecord(markers, o)
               /\ \E b, a \in DOMAIN markers :
                    /\ Promises(o, b, a)
                    /\ durable[o] /\ markers[a].index < CrashStamp(f.state)
                    /\ \E i \in DOMAIN events : Own(o, i) /\ i \notin f.state.persisted
<1> DEFINE f == findings[s]
           v == f.violation
           st == f.state
           o == v.op
           fs == ReplaySelection(events, st)
<1>1. AllFinished
  BY DEF CampaignInv, NothingYet, OfTheTrace, AllFinished
<1>2. st \in AllStates /\ v \in WithSignature(st, RecoverFileKv(fs), s)
  BY DEF CampaignInv, FindingsReproduce, OfTheTrace
<1>3. v \in Violations(st, RecoverFileKv(fs))
  BY <1>2 DEF WithSignature
<1>4. o \in Operations /\ OperationOf(v) = AckRecord(markers, o)
  <2> HIDE DEF v, st, fs
  <2> QED
    BY <1>1, <1>3, ReportedIsLogged
<1>5. PICK b, a \in DOMAIN markers : Promises(o, b, a)
  BY <1>1, <1>4, FinishedOperation DEF AllFinished
<1>6. /\ durable[o] /\ markers[a].index < CrashStamp(st)
      /\ \E i \in DOMAIN events : Own(o, i) /\ i \notin st.persisted
  <2>1. \E u \in Violations(st, RecoverFileKv(fs)) : u.op = o
    BY <1>3
  <2>2. PICK p, t : p = o /\ t = st
    OBVIOUS
  <2>3. (\E u \in Violations(t, RecoverFileKv(ReplaySelection(events, t))) : u.op = p) <=>
             /\ durable[p] /\ markers[a].index < CrashStamp(t)
             /\ \E i \in DOMAIN events : Own(p, i) /\ i \notin t.persisted
    BY <1>1, <1>2, <1>4, <1>5, <2>2, LostWhenLacking
  <2> QED
    BY <2>1, <2>2, <2>3
<1> QED
  BY <1>1, <1>2, <1>4, <1>5, <1>6

LEMMA LossIsExactAtEnd ==
    ASSUME OwnFiles, CampaignInv, DriverInv
    PROVE  LossIsExact
<1> SUFFICES ASSUME Traced, NEW st \in AllStates
             PROVE  {v.op : v \in Violations(st, RecoverFileKv(ReplaySelection(events, st)))} =
                    {o \in {p \in Operations :
                              \E m \in DOMAIN markers : /\ markers[m].op = p /\ markers[m].durable
                                                        /\ markers[m].index < CrashStamp(st)} :
                       \E i \in DOMAIN events :
                          owner[i] = o /\ Mutation(events[i]) /\ i \notin st.persisted}
  BY DEF LossIsExact
<1> DEFINE V == Violations(st, RecoverFileKv(ReplaySelection(events, st)))
           Promised(o) == \E m \in DOMAIN markers : /\ markers[m].op = o /\ markers[m].durable
                                                    /\ markers[m].index < CrashStamp(st)
           Lacking(o) == \E i \in DOMAIN events :
                            owner[i] = o /\ Mutation(events[i]) /\ i \notin st.persisted
<1>1. AllFinished
  BY DEF Traced, AllFinished
<1>2. \A v \in V : v.op \in Operations
  BY <1>1, ReportedIsLogged
<1>3. ASSUME NEW o \in Operations
      PROVE  (\E v \in V : v.op = o) <=> Promised(o) /\ Lacking(o)
  <2>1. PICK b, a \in DOMAIN markers : Promises(o, b, a)
    BY <1>1, FinishedOperation DEF AllFinished
  <2>2. (\E v \in V : v.op = o) <=>
             /\ durable[o] /\ markers[a].index < CrashStamp(st)
             /\ \E i \in DOMAIN events : Own(o, i) /\ i \notin st.persisted
    BY <1>1, <2>1, LostWhenLacking
  <2>3. /\ markers[a].op = o /\ (markers[a].durable <=> durable[o]) /\ ~markers[b].durable
        /\ \A m \in DOMAIN markers : markers[m].op = o => m \in {b, a}
    BY <2>1 DEF Promises, Marks
  <2>4. Promised(o) <=> durable[o] /\ markers[a].index < CrashStamp(st)
    BY <2>3
  <2>5. Lacking(o) <=> \E i \in DOMAIN events : Own(o, i) /\ i \notin st.persisted
    BY DEF Own
  <2> QED
    BY <2>2, <2>4, <2>5
<1> HIDE DEF V
<1>4. {v.op : v \in V} = {o \in Operations : Promised(o) /\ Lacking(o)}
  <2> HIDE DEF Promised, Lacking
  <2> QED
    BY <1>2, <1>3
<1> QED
  BY <1>4 DEF V

(* What was synced under its own path before the crash is in every state.  *)
LEMMA SyncedIsPinned ==
    ASSUME OwnFiles, CampaignInv, DriverInv, NEW st \in AllStates, NEW o \in Operations,
           NEW a \in DOMAIN markers, markers[a].index < CrashStamp(st),
           NEW i \in DOMAIN events, NEW s \in DOMAIN events, PutsAt(o, a, i, s)
    PROVE  i \in st.persisted
<1> DEFINE cp == st.crashPoint
<1>1. cp \in DOMAIN events /\ PinnedBy(events, cp) \subseteq st.persisted
  BY StateOf
<1>2. DOMAIN events = 1..Len(events) /\ Len(events) \in Nat /\ markers[a].index \in Nat
  BY IntDomains
<1>3. /\ i < s /\ events[i].call = "pwrite" /\ events[i].path = KeyOf[o]
      /\ events[s].call = "fdatasync" /\ events[s].path = KeyOf[o] /\ events[s].ret = 0
      /\ events[s].stamp < markers[a].index
  BY DEF PutsAt, Says
<1>4. s < cp
  <2>1. events[s].stamp \in Int /\ events[cp].stamp \in Int /\ Stamped
    BY <1>1 DEF DriverInv, Stamped
  <2>2. events[s].stamp < events[cp].stamp
    BY <1>2, <1>3, <2>1 DEF CrashStamp
  <2> HIDE DEF cp
  <2> QED
    BY <1>1, <1>2, <2>1, <2>2, Earlier
<1>5. Mutation(events[i]) /\ Persists(events[s]) /\ Succeeded(events[s])
  BY <1>3 DEF Mutation, MUTATING, Persists, PERSISTENCE, Succeeded
<1>6. i \in 1..cp /\ s \in (i + 1)..cp
  BY <1>1, <1>2, <1>3, <1>4
<1>7. i \in PinnedBy(events, cp)
  BY <1>3, <1>5, <1>6 DEF PinnedBy
<1> QED
  BY <1>1, <1>7

LEMMA OnlyBrokenPromisesNow ==
    ASSUME OwnFiles, CampaignInv, DriverInv, OfTheTrace
    PROVE  OnlyBrokenPromises
<1> SUFFICES ASSUME NEW s \in DOMAIN findings
             PROVE  durable[findings[s].violation.op]
                    /\ protocol[findings[s].violation.op] # syncedInPlace
  BY DEF OnlyBrokenPromises
<1>1. PICK o, st : o = findings[s].violation.op /\ st = findings[s].state
  OBVIOUS
<1>2. /\ AllFinished /\ st \in AllStates /\ o \in Operations
      /\ \E b, a \in DOMAIN markers :
           /\ Promises(o, b, a)
           /\ durable[o] /\ markers[a].index < CrashStamp(st)
           /\ \E i \in DOMAIN events : Own(o, i) /\ i \notin st.persisted
  BY <1>1, FindingOf
<1>3. ASSUME protocol[o] = syncedInPlace PROVE FALSE
  <2>1. PICK b, a \in DOMAIN markers :
           /\ Promises(o, b, a) /\ \E i, t \in DOMAIN events : PutsAt(o, a, i, t)
    BY <1>2, <1>3, FinishedOperation DEF AllFinished
  <2>2. PICK i, t \in DOMAIN events : PutsAt(o, a, i, t)
    BY <2>1
  <2>3. PICK c, d \in DOMAIN markers :
           /\ Promises(o, c, d) /\ markers[d].index < CrashStamp(st)
           /\ \E j \in DOMAIN events : Own(o, j) /\ j \notin st.persisted
    BY <1>2
  <2>4. d = a
    BY <2>1, <2>3 DEF Promises, Marks
  <2>5. i \in st.persisted
    BY <1>2, <2>2, <2>3, <2>4, SyncedIsPinned
  <2>6. \A j \in DOMAIN events : Own(o, j) => j = i
    BY <2>2 DEF PutsAt
  <2> QED
    BY <2>3, <2>5, <2>6
<1> QED
  BY <1>1, <1>2, <1>3

(* The stamps of a record are those of its markers.                        *)
LEMMA MarkerStampOf ==
    ASSUME NEW o, NEW b \in DOMAIN markers, NEW a \in DOMAIN markers, Promises(o, b, a)
    PROVE  MarkerStamp(o, "begin") = markers[b].index /\ MarkerStamp(o, "ack") = markers[a].index
<1> DEFINE M == {markers[k] : k \in DOMAIN markers}
<1>1. /\ markers[b].op = o /\ markers[b].phase = "begin"
      /\ markers[a].op = o /\ markers[a].phase = "ack"
      /\ \A m \in DOMAIN markers : markers[m].op = o => m \in {b, a}
  BY DEF Promises, Marks
<1>2. \A m \in M : m.op = o /\ m.phase = "begin" => m = markers[b]
  BY <1>1
<1>3. \A m \in M : m.op = o /\ m.phase = "ack" => m = markers[a]
  BY <1>1
<1>4. markers[b] \in M /\ markers[a] \in M
  OBVIOUS
<1> HIDE DEF M
<1>5. (CHOOSE m \in M : m.op = o /\ m.phase = "begin") = markers[b]
  BY <1>1, <1>2, <1>4
<1>6. (CHOOSE m \in M : m.op = o /\ m.phase = "ack") = markers[a]
  BY <1>1, <1>3, <1>4
<1> QED
  BY <1>5, <1>6 DEF MarkerStamp, M

LEMMA BlamesItsOwnNow ==
    ASSUME OwnFiles, CampaignInv, DriverInv, OfTheTrace
    PROVE  BlamesItsOwn
<1> SUFFICES ASSUME NEW s \in DOMAIN findings, Intruders(findings[s].violation.op) = {}
             PROVE  \E i \in DOMAIN events :
                      /\ owner[i] = findings[s].violation.op
                      /\ i \notin findings[s].state.persisted
                         \/ \E w \in findings[s].state.partial : w.op = i
                      /\ s[2].call = events[i].call /\ s[2].path = events[i].path
  BY DEF BlamesItsOwn
<1>1. PICK v, o, st : v = findings[s].violation /\ o = v.op /\ st = findings[s].state
  OBVIOUS
<1>2. /\ AllFinished /\ st \in AllStates /\ o \in Operations
      /\ v \in WithSignature(st, RecoverFileKv(ReplaySelection(events, st)), s)
      /\ OperationOf(v) = AckRecord(markers, o)
      /\ \E b, a \in DOMAIN markers :
           /\ Promises(o, b, a)
           /\ \E i \in DOMAIN events : Own(o, i) /\ i \notin st.persisted
  BY <1>1, FindingOf
<1>3. PICK b, a \in DOMAIN markers :
         /\ Promises(o, b, a)
         /\ \E i \in DOMAIN events : Own(o, i) /\ i \notin st.persisted
  BY <1>2
<1>4. PICK r : r = AckRecord(markers, o)
  OBVIOUS
<1>5. /\ r.beganAt = markers[b].index /\ r.acknowledgedAt = markers[a].index
      /\ r.acknowledgedAt # NEVER
  BY <1>2, <1>3, <1>4, RecordOf
<1> DEFINE N == NotWhole(st, events, r)
<1>6. \A i : i \in N <=>
             /\ i \in DOMAIN events /\ Mutation(events[i]) /\ events[i].ret >= 0
             /\ events[i].stamp >= markers[b].index /\ events[i].stamp <= markers[a].index
             /\ i \notin st.persisted \/ \E w \in st.partial : w.op = i
  BY <1>5 DEF NotWhole, Mutation, MUTATING, DedupMutating
<1>7. N # {}
  <2>1. PICK i \in DOMAIN events : Own(o, i) /\ i \notin st.persisted
    BY <1>3
  <2>2. Mutation(events[i]) /\ markers[b].index < events[i].stamp /\ events[i].stamp < markers[a].index
    BY <1>3, <2>1 DEF Promises, Own
  <2>3. events[i].ret = 0
    BY CallIsStep
  <2>4. /\ markers[b].index \in Nat /\ markers[a].index \in Nat /\ events[i].stamp \in Int
    BY IntDomains DEF DriverInv, Stamped
  <2> QED
    BY <1>6, <2>1, <2>2, <2>3, <2>4
<1>8. PICK m : m = Min(N)
  OBVIOUS
<1>9. m \in N
  <2>1. N \in SUBSET Nat
    BY <1>6, IntDomains
  <2> HIDE DEF N
  <2> QED
    BY <1>7, <1>8, <2>1, MinOf
<1>10. s[2].call = events[m].call /\ s[2].path = events[m].path
  <2>1. s = SignatureOf(v, st, events, r)
    BY <1>2, <1>4 DEF WithSignature, Sig
  <2>2. s[2] = EarliestMissing(st, events, r)
    BY <2>1 DEF SignatureOf
  <2>3. EarliestMissing(st, events, r) =
           Missing(IF \E w \in st.partial : w.op = m THEN "torn" ELSE "missing",
                   events[m].call, events[m].path)
    BY <1>7, <1>8 DEF EarliestMissing
  <2> QED
    BY <2>2, <2>3 DEF Missing
<1> HIDE DEF N
<1>11. owner[m] = o
  <2> SUFFICES ASSUME owner[m] # o PROVE FALSE
    OBVIOUS
  <2>1. /\ m \in DOMAIN events /\ Mutation(events[m])
        /\ events[m].stamp >= markers[b].index /\ events[m].stamp <= markers[a].index
    BY <1>6, <1>9
  <2>2. /\ events[m].stamp # markers[b].index /\ events[m].stamp # markers[a].index
        /\ events[m].stamp \in Int /\ markers[b].index \in Nat /\ markers[a].index \in Nat
    BY <2>1, IntDomains DEF DriverInv, Stamped
  <2>3. markers[b].index < events[m].stamp /\ events[m].stamp < markers[a].index
    BY <2>1, <2>2
  <2>4. m \in Intruders(o)
    BY <1>3, <2>1, <2>3, MarkerStampOf DEF Intruders
  <2> QED
    BY <1>1, <2>4
<1> QED
  BY <1>1, <1>6, <1>9, <1>10, <1>11

-----------------------------------------------------------------------------
(* The positive control.  A window narrower than this may hold the rename  *)
(* of an operation back below the floor: with drivers in turn one younger  *)
(* mutation may be there at the first call after the ack, with drivers in  *)
(* threads two of every other operation.                                   *)
WideWindow ==
    IF Concurrent THEN MaxUnpersistedWindow >= 2 * NumOperations - 1
    ELSE MaxUnpersistedWindow >= 2

(* The younger free mutations of a crash point.                            *)
Newer(cp, j) == {k \in Free(events, cp) : k > j}

LEMMA NewerInTurn ==
    ASSUME OwnFiles, CampaignInv, DriverInv, ~Concurrent,
           NEW o \in Operations, NEW a \in DOMAIN markers, markers[a].op = o,
           NEW i \in DOMAIN events, NEW j \in DOMAIN events, ReplacesAt(o, i, j),
           NEW cp \in DOMAIN events,
           \A k \in DOMAIN events : events[k].stamp > markers[a].index => cp <= k
    PROVE  IsFiniteSet(Newer(cp, j)) /\ Cardinality(Newer(cp, j)) <= 1
<1>1. DOMAIN events = 1..Len(events) /\ Len(events) \in Nat /\ markers[a].index \in Nat
  BY IntDomains
<1>2. ASSUME NEW k \in Newer(cp, j) PROVE k = cp
  <2>1. k \in DOMAIN events /\ k <= cp /\ k > j /\ Mutation(events[k])
    BY <1>1 DEF Newer, Free, Performed
  <2>2. owner[j] = o /\ i < j /\ \A l \in DOMAIN events : Own(o, l) => l \in {i, j}
    BY DEF ReplacesAt
  <2>3. owner[j] <= owner[k]
    BY <2>1 DEF DriverInv, InTurn
  <2>4. owner[k] # o
    BY <1>1, <2>1, <2>2 DEF Own
  <2>5. o < owner[k]
    <3>1. owner[k] \in Int /\ o \in Int
      BY <2>1 DEF DriverInv, Stamped, Operations
    <3> QED
      BY <2>2, <2>3, <2>4, <3>1
  <2>6. markers[a].index < events[k].stamp
    BY <2>1, <2>5 DEF DriverInv, InTurn
  <2>7. events[k].stamp \in Int
    BY <2>1 DEF DriverInv, Stamped
  <2>8. cp <= k
    BY <1>1, <2>1, <2>6, <2>7
  <2> QED
    BY <1>1, <2>1, <2>8
<1>3. Newer(cp, j) \in SUBSET {cp}
  BY <1>2
<1>4. IsFiniteSet({cp}) /\ Cardinality({cp}) = 1
  BY FS_Singleton
<1> QED
  BY <1>3, <1>4, FS_Subset

(* A number for every mutation of the others: two to an operation.         *)
Seat(k) == 2 * owner[k] + IF events[k].call = "rename" THEN 1 ELSE 0

LEMMA SeatsDiffer ==
    ASSUME OwnFiles, CampaignInv, DriverInv, AllFinished,
           NEW k \in DOMAIN events, NEW l \in DOMAIN events,
           Mutation(events[k]), Mutation(events[l]), Seat(k) = Seat(l)
    PROVE  k = l
<1>1. owner[k] \in Int /\ owner[l] \in Int /\ owner[k] \in Operations
  BY DEF DriverInv, Stamped, Operations
<1>2. owner[k] = owner[l] /\ (events[k].call = "rename" <=> events[l].call = "rename")
  BY <1>1 DEF Seat
<1>3. PICK q \in Operations : q = owner[k]
  BY <1>1
<1>4. Own(q, k) /\ Own(q, l)
  BY <1>2, <1>3 DEF Own
<1>5. PICK b, a \in DOMAIN markers :
         IF protocol[q] = syncedInPlace
         THEN \E i, s \in DOMAIN events : PutsAt(q, a, i, s)
         ELSE \E i, j \in DOMAIN events : ReplacesAt(q, i, j)
  BY <1>3, FinishedOperation DEF AllFinished
<1>6. CASE protocol[q] = syncedInPlace
  BY <1>4, <1>5, <1>6 DEF PutsAt
<1>7. CASE protocol[q] # syncedInPlace
  <2>1. PICK i, j \in DOMAIN events : ReplacesAt(q, i, j)
    BY <1>5, <1>7
  <2>2. events[i].call = "write" /\ events[j].call = "rename"
    BY <2>1 DEF ReplacesAt, Says
  <2>3. k \in {i, j} /\ l \in {i, j}
    BY <1>4, <2>1 DEF ReplacesAt
  <2> QED
    BY <1>2, <2>2, <2>3
<1> QED
  BY <1>6, <1>7

LEMMA NewerAtOnce ==
    ASSUME OwnFiles, CampaignInv, DriverInv, AllFinished, NEW o \in Operations,
           NEW i \in DOMAIN events, NEW j \in DOMAIN events, ReplacesAt(o, i, j),
           NEW cp \in DOMAIN events
    PROVE  IsFiniteSet(Newer(cp, j)) /\ Cardinality(Newer(cp, j)) <= 2 * NumOperations - 2
<1> DEFINE S == Newer(cp, j)
           A == 2..(2 * NumOperations + 1)
           T == (A \ {2 * o}) \ {2 * o + 1}
           f == [k \in S |-> Seat(k)]
<1>1. DOMAIN events = 1..Len(events) /\ Len(events) \in Nat
  BY IntDomains
<1>2. NumOperations \in Nat /\ o \in 1..NumOperations
  BY CampaignAssumption DEF Operations
<1>3. ASSUME NEW k \in S
      PROVE  /\ k \in DOMAIN events /\ Mutation(events[k])
             /\ owner[k] \in 1..NumOperations /\ owner[k] # o
  <2>1. k \in DOMAIN events /\ k <= cp /\ k > j /\ Mutation(events[k])
    BY <1>1 DEF Newer, Free, Performed
  <2>2. i < j /\ \A l \in DOMAIN events : Own(o, l) => l \in {i, j}
    BY DEF ReplacesAt
  <2>3. owner[k] # o
    BY <1>1, <2>1, <2>2 DEF Own
  <2> QED
    BY <2>1, <2>3 DEF DriverInv, Stamped, Operations
<1>4. ASSUME NEW k \in S PROVE Seat(k) \in T
  <2>1. owner[k] \in 1..NumOperations /\ owner[k] # o
    BY <1>3
  <2> QED
    BY <1>2, <2>1 DEF Seat
<1>5. \A k, l \in S : Seat(k) = Seat(l) => k = l
  BY <1>3, SeatsDiffer
<1>6. IsFiniteSet(A) /\ Cardinality(A) = 2 * NumOperations
  BY <1>2, FS_Interval
<1>7. 2 * o \in A /\ 2 * o + 1 \in A \ {2 * o}
  BY <1>2
<1>8. IsFiniteSet(T) /\ Cardinality(T) = 2 * NumOperations - 2
  <2> HIDE DEF A
  <2>1. IsFiniteSet(A \ {2 * o}) /\ Cardinality(A \ {2 * o}) = 2 * NumOperations - 1
    BY <1>2, <1>6, <1>7, FS_RemoveElement
  <2>2. IsFiniteSet(T) /\ Cardinality(T) = (2 * NumOperations - 1) - 1
    <3>1. PICK B, x : B = A \ {2 * o} /\ x = 2 * o + 1
      OBVIOUS
    <3>2. IsFiniteSet(B \ {x}) /\ Cardinality(B \ {x}) = Cardinality(B) - 1
      BY <1>7, <2>1, <3>1, FS_RemoveElement
    <3> QED
      BY <2>1, <3>1, <3>2
  <2> QED
    BY <1>2, <2>2
<1> HIDE DEF T, S
<1>9. f \in Injection(S, T)
  BY <1>4, <1>5 DEF Injection, IsInjective
<1> HIDE DEF f
<1>10. IsFiniteSet(S) /\ Cardinality(S) <= Cardinality(T)
  BY <1>8, <1>9, FS_Injection
<1> QED
  BY <1>8, <1>10 DEF S

(* Nothing pins the rename of an operation that syncs nothing: nobody else *)
(* syncs under the path it is recorded by.                                 *)
LEMMA RenameIsFree ==
    ASSUME OwnFiles, CampaignInv, DriverInv, NEW o \in Operations, protocol[o] = unsafeKv,
           NEW i \in DOMAIN events, NEW j \in DOMAIN events, ReplacesAt(o, i, j),
           NEW cp \in DOMAIN events
    PROVE  j \notin PinnedBy(events, cp)
<1>1. DOMAIN events = 1..Len(events) /\ Len(events) \in Nat
  BY IntDomains
<1>2. events[j].path = Tmp[o]
  BY DEF ReplacesAt, Says
<1>3. ASSUME NEW s \in DOMAIN events, Persists(events[s]), events[s].path = Tmp[o] PROVE FALSE
  <2>1. PICK q \in Operations : q = owner[s]
    BY CallIsStep
  <2>2. PICK k \in 1..Len(protocol[q]) :
           protocol[q][k] \in CALLS /\ Says(events[s], q, protocol[q][k])
    BY <2>1, CallIsStep
  <2> DEFINE step == protocol[q][k]
  <2> HIDE DEF step
  <2>3. step \in CALLS /\ Says(events[s], q, step)
    BY <2>2 DEF step
  <2>4. step \in {"sync", "syncTmp", "syncDir"}
    BY <1>3, <2>3 DEF CALLS, Says, Persists, PERSISTENCE
  <2>5. events[s].path \in {KeyOf[q], Tmp[q], Dir}
    BY <2>3, <2>4 DEF Says
  <2>6. q = o
    BY <1>3, <2>5 DEF OwnFiles
  <2>7. step \in {unsafeKv[l] : l \in 1..6}
    BY <2>2, <2>6 DEF step, unsafeKv
  <2> QED
    BY <2>4, <2>7 DEF unsafeKv
<1>4. \A s \in (j + 1)..cp : s \in DOMAIN events
  BY <1>1
<1> QED
  BY <1>2, <1>3, <1>4 DEF PinnedBy

LEMMA ExposedAtEnd ==
    ASSUME OwnFiles, WideWindow, CampaignInv, DriverInv
    PROVE  UnsafeIsExposed
<1> DEFINE Later(r) == {k \in DOMAIN events : events[k].stamp > r.acknowledgedAt}
<1> SUFFICES ASSUME Traced, ~model.totalOrder, NEW r \in ParseAckLog(markers),
                    r.durable, protocol[r.op] = unsafeKv, Later(r) # {}
             PROVE  \E st \in StatesAt(events, CHOOSE k \in Later(r) : \A l \in Later(r) : k <= l, model) :
                      \E v \in Violations(st, RecoverFileKv(ReplaySelection(events, st))) : v.op = r.op
  BY DEF UnsafeIsExposed
<1>1. AllFinished
  BY DEF Traced, AllFinished
<1>2. DOMAIN events = 1..Len(events) /\ Len(events) \in Nat
  BY IntDomains
<1>3. PICK o \in Operations : r = AckRecord(markers, o)
  BY <1>1, LogIsAll
<1>4. PICK b, a \in DOMAIN markers :
         /\ Promises(o, b, a)
         /\ IF protocol[o] = syncedInPlace
            THEN \E i, s \in DOMAIN events : PutsAt(o, a, i, s)
            ELSE \E i, j \in DOMAIN events : ReplacesAt(o, i, j)
  BY <1>1, FinishedOperation DEF AllFinished
<1>5. r.op = o /\ r.acknowledgedAt = markers[a].index /\ durable[o] /\ markers[a].op = o
  BY <1>3, <1>4, RecordOf DEF Promises, Marks
<1>6. PICK i, j \in DOMAIN events : ReplacesAt(o, i, j)
  <2>1. Len(unsafeKv) = 6 /\ Len(syncedInPlace) = 5
    BY DEF unsafeKv, syncedInPlace
  <2>2. unsafeKv # syncedInPlace
    BY <2>1
  <2> QED
    BY <1>4, <1>5, <2>2
<1>7. PICK cp : cp = CHOOSE k \in Later(r) : \A l \in Later(r) : k <= l
  OBVIOUS
<1>8. cp \in Later(r) /\ \A l \in Later(r) : cp <= l
  <2>1. Later(r) \in SUBSET Nat
    BY <1>2
  <2> HIDE DEF Later
  <2> QED
    BY <1>7, <2>1, Smallest
<1>9. cp \in DOMAIN events /\ markers[a].index < events[cp].stamp
  <2>1. events[cp].stamp \in Int /\ markers[a].index \in Nat
    BY <1>8, IntDomains DEF DriverInv, Stamped
  <2> QED
    BY <1>5, <1>8, <2>1
<1>10. \A k \in DOMAIN events : events[k].stamp > markers[a].index => cp <= k
  BY <1>5, <1>8
<1> DEFINE floor == AlwaysPresent(events, cp)
           st == CrashState(cp, floor, {})
<1>11. st.crashPoint = cp /\ st.persisted = floor
  BY DEF CrashState
<1>12. st \in StatesAt(events, cp, model)
  <2>1. floor \in {AlwaysPresent(events, cp) \cup M : M \in SUBSET Window(events, cp)}
    <3>1. floor = AlwaysPresent(events, cp) \cup {} /\ {} \in SUBSET Window(events, cp)
      OBVIOUS
    <3> HIDE DEF floor
    <3> QED
      BY <3>1
  <2>2. ExistsOnDisk(events, floor)
    <3>1. \A k \in floor : k \in DOMAIN events
      BY <1>2, <1>9 DEF AlwaysPresent, PinnedBy, Older, Free, Performed
    <3>2. \A k \in DOMAIN events : events[k].call \notin NEEDS_EXISTING_FILE
      BY Kinds DEF Watches, Writes, Renames, NEEDS_EXISTING_FILE
    <3> HIDE DEF floor
    <3> QED
      BY <3>1, <3>2 DEF ExistsOnDisk
  <2>3. floor \in LegalSets(events, cp)
    BY <2>1, <2>2 DEF LegalSets
  <2> QED
    BY <2>3 DEF StatesAt, SubsetStates
<1>13. j \notin floor
  <2>1. j \notin PinnedBy(events, cp)
    BY <1>5, <1>6, <1>9, RenameIsFree
  <2>2. IsFiniteSet(Newer(cp, j)) /\ Cardinality(Newer(cp, j)) < MaxUnpersistedWindow
    <3>1. MaxUnpersistedWindow \in Nat /\ NumOperations \in Nat
      BY WindowAssumption, CampaignAssumption
    <3>2. CASE Concurrent
      <4>1. IsFiniteSet(Newer(cp, j)) /\ Cardinality(Newer(cp, j)) <= 2 * NumOperations - 2
        BY <1>1, <1>6, <1>9, NewerAtOnce
      <4>2. Cardinality(Newer(cp, j)) \in Nat
        BY <4>1, FS_CardinalityType
      <4> QED
        BY <3>1, <3>2, <4>1, <4>2 DEF WideWindow
    <3>3. CASE ~Concurrent
      <4>1. IsFiniteSet(Newer(cp, j)) /\ Cardinality(Newer(cp, j)) <= 1
        BY <1>5, <1>6, <1>9, <1>10, <3>3, NewerInTurn
      <4>2. Cardinality(Newer(cp, j)) \in Nat
        BY <4>1, FS_CardinalityType
      <4> QED
        BY <3>1, <3>3, <4>1, <4>2 DEF WideWindow
    <3> QED
      BY <3>2, <3>3
  <2>3. j \notin Older(events, cp)
    <3>1. Younger(events, cp, j) = Cardinality(Newer(cp, j))
      BY DEF Younger, Newer
    <3>2. Cardinality(Newer(cp, j)) \in Nat /\ MaxUnpersistedWindow \in Nat
      BY <2>2, FS_CardinalityType, WindowAssumption
    <3> QED
      BY <2>2, <3>1, <3>2 DEF Older
  <2> QED
    BY <2>1, <2>3 DEF AlwaysPresent
<1>14. Own(o, j)
  <2>1. owner[j] = o /\ Says(events[j], o, "rename")
    BY <1>6 DEF ReplacesAt
  <2> QED
    BY <2>1, MutatingSteps DEF Own, CALLS, MUTATES
<1> HIDE DEF st, floor, Later
<1>15. st \in AllStates
  BY <1>9, <1>12 DEF AllStates
<1>16. \E v \in Violations(st, RecoverFileKv(ReplaySelection(events, st))) : v.op = o
  <2>1. PICK t : t = st
    OBVIOUS
  <2>2. /\ durable[o] /\ markers[a].index < CrashStamp(t)
        /\ Own(o, j) /\ j \notin t.persisted
    BY <1>5, <1>9, <1>11, <1>13, <1>14, <2>1 DEF CrashStamp
  <2>3. \E v \in Violations(t, RecoverFileKv(ReplaySelection(events, t))) : v.op = o
    BY <1>1, <1>4, <1>15, <2>1, <2>2, LostWhenLacking
  <2> QED
    BY <2>1, <2>3
<1> QED
  BY <1>5, <1>7, <1>12, <1>16

(* With a key and a scratch file to every operation, and any protocols of  *)
(* the three mixed: the drivers alternating as they please and the host    *)
(* failing when it does.                                                   *)
LEMMA EndOfTrace ==
    ASSUME OwnFiles
    PROVE  Spec => [](CampaignInv /\ DriverInv /\ OfTheTrace)
BY CampaignInvHolds, DriverInvHolds, PTL

(* replay.ts, acklog.ts, oracle.ts and the file-kv recovery: for any       *)
(* number of operations, any window and torn writes or none, of the        *)
(* operations announced durable by the crash point those reported lost are *)
(* those with a mutation the state does not hold whole.                    *)
THEOREM LossesAreExact == ASSUME OwnFiles PROVE Spec => []LossIsExact
<1>1. CampaignInv /\ DriverInv /\ OfTheTrace => LossIsExact
  BY LossIsExactAtEnd
<1> QED
  BY <1>1, EndOfTrace, PTL

(* states.ts, pinnedBy, and oracle.ts: nobody is reported whose durability *)
(* was not announced, or who synced the bytes under their own path before  *)
(* the announcement.                                                       *)
THEOREM PromisesAreBroken == ASSUME OwnFiles PROVE Spec => []OnlyBrokenPromises
<1>1. CampaignInv /\ DriverInv /\ OfTheTrace => OnlyBrokenPromises
  BY OnlyBrokenPromisesNow
<1> QED
  BY <1>1, EndOfTrace, PTL

(* dedup.ts, earliestMissing: the call a signature names is one of the     *)
(* operation's own that the state lacks, unless a mutation of somebody     *)
(* else fell between the two markers.                                      *)
THEOREM BlameIsRight == ASSUME OwnFiles PROVE Spec => []BlamesItsOwn
<1>1. CampaignInv /\ DriverInv /\ OfTheTrace => BlamesItsOwn
  BY BlamesItsOwnNow
<1> QED
  BY <1>1, EndOfTrace, PTL

(* targets/unsafe-kv/main.c is found out: with a window that reaches back  *)
(* to its rename, a state of the first crash point after the ack has it    *)
(* reported lost.                                                          *)
THEOREM UnsafeKvIsExposed == ASSUME OwnFiles, WideWindow PROVE Spec => []UnsafeIsExposed
<1>1. CampaignInv /\ DriverInv /\ OfTheTrace => UnsafeIsExposed
  BY ExposedAtEnd
<1> QED
  BY <1>1, EndOfTrace, PTL
=============================================================================
