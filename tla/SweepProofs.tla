---------------------------- MODULE SweepProofs ----------------------------
(***************************************************************************)
(* Theorems about Sweep, for any configurations, shapes and signatures.    *)
(***************************************************************************)
EXTENDS Sweep, TLAPS

-----------------------------------------------------------------------------
(* The plan.                                                               *)

Runs == [config : Names(SWEEP), shape : Names(SHAPES)]

LEMMA Lengths == Len(SWEEP) \in Nat \ {0} /\ Len(SHAPES) \in Nat \ {0}
BY SweepAssumption

LEMMA Division ==
    ASSUME NEW a \in Nat, NEW b \in Nat \ {0}
    PROVE  /\ a \div b \in Nat /\ a % b \in 0..(b - 1)
           /\ a = b * (a \div b) + (a % b)
OBVIOUS

LEMMA Undivided ==
    ASSUME NEW a \in Nat, NEW c \in Nat, NEW b \in Nat \ {0},
           a \div b = c \div b, a % b = c % b
    PROVE  a = c
<1>1. a = b * (a \div b) + (a % b) /\ c = b * (c \div b) + (c % b)
  BY Division
<1> QED
  BY <1>1

(* The place of a run in the plan stays within both lists.                 *)
LEMMA Indices ==
    ASSUME NEW k \in 1..(Len(SWEEP) * Len(SHAPES))
    PROVE  /\ ((k - 1) \div Len(SHAPES)) + 1 \in DOMAIN SWEEP
           /\ ((k - 1) % Len(SHAPES)) + 1 \in DOMAIN SHAPES
<1> DEFINE b == Len(SHAPES)
           q == (k - 1) \div b
           r == (k - 1) % b
<1>1. k - 1 \in Nat /\ b \in Nat \ {0} /\ Len(SWEEP) \in Nat /\ k - 1 < Len(SWEEP) * b
  BY Lengths
<1>2. q \in Nat /\ r \in 0..(b - 1) /\ k - 1 = b * q + r
  BY <1>1, Division
<1>3. q < Len(SWEEP)
  <2> SUFFICES ASSUME q >= Len(SWEEP) PROVE FALSE
    BY <1>1, <1>2
  <2>1. b * q >= b * Len(SWEEP)
    BY <1>1, <1>2
  <2> QED
    BY <1>1, <1>2, <2>1
<1>4. DOMAIN SWEEP = 1..Len(SWEEP) /\ DOMAIN SHAPES = 1..b
  BY SweepAssumption
<1> QED
  BY <1>1, <1>2, <1>3, <1>4

LEMMA PlanIsSeq ==
    /\ Len(Plan) = Len(SWEEP) * Len(SHAPES) /\ Len(Plan) \in Nat \ {0}
    /\ Plan \in Seq(Runs) /\ DOMAIN Plan = 1..Len(Plan)
<1>1. Len(SWEEP) * Len(SHAPES) \in Nat \ {0}
  BY Lengths
<1>2. \A k \in 1..(Len(SWEEP) * Len(SHAPES)) : Plan[k] \in Runs
  BY Indices DEF Plan, Runs, Names
<1>3. DOMAIN Plan = 1..(Len(SWEEP) * Len(SHAPES)) /\ Plan \in [1..(Len(SWEEP) * Len(SHAPES)) -> Runs]
  BY <1>2 DEF Plan
<1>4. Plan \in Seq(Runs)
  BY <1>1, <1>3
<1> QED
  BY <1>1, <1>3, <1>4

(* No combination comes up twice.                                          *)
LEMMA PlanApart ==
    ASSUME NEW m \in DOMAIN Plan, NEW n \in DOMAIN Plan,
           Plan[m].config.name = Plan[n].config.name, Plan[m].shape = Plan[n].shape
    PROVE  m = n
<1> DEFINE b == Len(SHAPES)
           qm == (m - 1) \div b
           qn == (n - 1) \div b
           rm == (m - 1) % b
           rn == (n - 1) % b
<1>1. b \in Nat \ {0} /\ m - 1 \in Nat /\ n - 1 \in Nat
  BY Lengths, PlanIsSeq
<1>2. {qm + 1, qn + 1} \subseteq DOMAIN SWEEP /\ {rm + 1, rn + 1} \subseteq DOMAIN SHAPES
  BY Indices, PlanIsSeq
<1>3. SWEEP[qm + 1].name = SWEEP[qn + 1].name /\ SHAPES[rm + 1] = SHAPES[rn + 1]
  BY PlanIsSeq DEF Plan
<1>4. qm + 1 = qn + 1 /\ rm + 1 = rn + 1
  BY <1>2, <1>3, SweepAssumption
<1>5. qm \in Int /\ qn \in Int /\ rm \in Int /\ rn \in Int
  BY <1>1
<1>6. qm = qn /\ rm = rn
  BY <1>4, <1>5
<1>7. m - 1 = n - 1
  BY <1>1, <1>6, Undivided
<1> QED
  BY <1>7, PlanIsSeq

(* Hence no two findings share a directory.                                *)
LEMMA OutDirApart ==
    ASSUME NEW m \in DOMAIN Plan, NEW n \in DOMAIN Plan, NEW f, NEW g,
           OutDir(Plan[m], f) = OutDir(Plan[n], g)
    PROVE  m = n /\ f = g
BY PlanApart DEF OutDir

-----------------------------------------------------------------------------
(* Types, and where a sweep is in the plan.                                *)

Rows == [config : Names(SWEEP), shape : Names(SHAPES), findings : Outcomes, trace : 1..Len(Plan)]

Typed ==
    /\ TypeOK
    /\ rows \in Seq(Rows)
    /\ step = "start" => at = 1
    /\ step \in {"start", "capture", "campaign", "package"} => at <= Len(Plan)
    /\ step \in {"csv", "results", "published"} => at = Len(Plan) + 1
    /\ step \in {"campaign", "package"} => traces[Plan[at].shape] # NOTRACE
    /\ step = "package" => result \in Outcomes

LEMMA PlanShape == \A n \in DOMAIN Plan : Plan[n].config \in Names(SWEEP) /\ Plan[n].shape \in Names(SHAPES)
<1> TAKE n \in DOMAIN Plan
<1>1. Plan[n] \in Runs
  BY PlanIsSeq
<1> QED
  BY <1>1 DEF Runs

LEMMA ReportIsReport ==
    ASSUME Typed, NEW whole \in BOOLEAN
    PROVE  Report(whole) \in Reports
<1>1. sweep \in 0..MaxSweeps /\ rows \in Seq(Rows)
  BY SweepAssumption DEF Typed, TypeOK
<1> QED
  BY <1>1 DEF Report, Reports, Rows

LEMMA RowIsRow ==
    ASSUME Typed, step = "package"
    PROVE  Row \in Rows
<1>1. at \in DOMAIN Plan
  BY PlanIsSeq DEF Typed, TypeOK
<1>2. traces[Plan[at].shape] \in 1..Len(Plan)
  BY <1>1, PlanShape, PlanIsSeq DEF Typed, TypeOK, NOTRACE
<1> QED
  BY <1>1, <1>2, PlanShape DEF Row, Rows, Typed

LEMMA TypedInit == Init => Typed
<1> SUFFICES ASSUME Init PROVE Typed
  OBVIOUS
<1>1. {csv, results} \subseteq Reports
  <2>1. <<>> \in Seq(Rows) /\ 0 \in 0..MaxSweeps
    BY SweepAssumption
  <2> QED
    BY <2>1 DEF Init, Reports, Rows
<1>2. traces \in [Names(SHAPES) -> 0..Len(Plan)]
  BY PlanIsSeq DEF Init, Untraced, NOTRACE
<1>3. /\ sweep = 1 /\ step = "start" /\ at = 1 /\ rows = <<>> /\ result = {} /\ unpacked = {}
  BY DEF Init
<1>4. TypeOK
  BY <1>1, <1>2, <1>3, PlanIsSeq, SweepAssumption DEF TypeOK
<1> QED
  BY <1>3, <1>4, PlanIsSeq DEF Typed

LEMMA TypedNext ==
    ASSUME Typed, [Next]_vars
    PROVE  Typed'
<1> USE PlanIsSeq, SweepAssumption DEF Typed, TypeOK, disk
<1>1. CASE Start
  BY <1>1 DEF Start
<1>2. CASE CaptureTrace
  <2>1. at \in DOMAIN Plan /\ Plan[at].shape \in Names(SHAPES)
    BY <1>2, PlanShape DEF CaptureTrace
  <2>2. /\ traces' \in [Names(SHAPES) -> 0..Len(Plan)]
        /\ traces'[Plan[at].shape] # NOTRACE
    BY <1>2, <2>1 DEF CaptureTrace, NOTRACE
  <2> QED
    BY <1>2, <2>2 DEF CaptureTrace
<1>3. CASE RunCampaign
  BY <1>3 DEF RunCampaign
<1>4. CASE WriteReproducer
  BY <1>4 DEF WriteReproducer
<1>5. CASE PushRow
  <2>1. /\ rows' = Append(rows, Row) /\ Row \in Rows
        /\ at' = at + 1 /\ at <= Len(Plan)
        /\ step' = IF at = Len(Plan) THEN "csv" ELSE "capture"
        /\ UNCHANGED <<sweep, traces, result, unpacked, csv, results>>
    BY <1>5, RowIsRow DEF PushRow
  <2>2. rows' \in Seq(Rows) /\ Len(rows') = Len(rows) + 1
    BY <2>1
  <2>3. TypeOK'
    BY <2>1, <2>2
  <2> QED
    BY <2>1, <2>2, <2>3
<1>6. CASE WriteCsv
  BY <1>6, ReportIsReport DEF WriteCsv
<1>7. CASE WriteResults
  BY <1>7, ReportIsReport DEF WriteResults
<1>8. CASE Dies
  <2>1. {csv', results'} \subseteq Reports
    BY <1>8, ReportIsReport DEF Dies
  <2>2. step' = "aborted" /\ UNCHANGED <<sweep, at, traces, result, unpacked, rows>>
    BY <1>8 DEF Dies
  <2> QED
    BY <2>1, <2>2
<1>9. CASE RunAgain
  <2>1. Untraced \in [Names(SHAPES) -> 0..Len(Plan)]
    BY DEF Untraced, NOTRACE
  <2>2. /\ sweep' = sweep + 1 /\ sweep < MaxSweeps /\ step' = "start" /\ at' = 1
        /\ traces' = Untraced /\ result' = {} /\ unpacked' = {} /\ rows' = <<>>
        /\ UNCHANGED <<csv, results>>
    BY <1>9 DEF RunAgain
  <2>3. TypeOK'
    BY <2>1, <2>2
  <2> QED
    BY <2>2, <2>3
<1>10. CASE UNCHANGED vars
  BY <1>10 DEF vars
<1> QED
  BY <1>1, <1>2, <1>3, <1>4, <1>5, <1>6, <1>7, <1>8, <1>9, <1>10 DEF Next, Progress, Ended

(* The invariant the types rest on.                                        *)
THEOREM TypedHolds == Spec => []Typed
BY TypedInit, TypedNext, PTL DEF Spec

(* Types, for any plan.                                                    *)
THEOREM SweepTypeCorrect == Spec => []TypeOK
<1>1. Typed => TypeOK
  BY DEF Typed
<1> QED
  BY <1>1, TypedHolds, PTL

-----------------------------------------------------------------------------
(* The table.                                                              *)

(* The rows follow the plan, and each names the trace kept for its shape,  *)
(* which was captured for a run of that shape.                             *)
Traced ==
    /\ \A s \in Names(SHAPES) : traces[s] # NOTRACE => Plan[traces[s]].shape = s
    /\ \A n \in DOMAIN rows : /\ rows[n].config = Plan[n].config
                             /\ rows[n].shape = Plan[n].shape
                             /\ rows[n].trace = traces[rows[n].shape]

(* What a row has, given the types.                                        *)
LEMMA RowFields ==
    ASSUME Typed, NEW n \in DOMAIN rows
    PROVE  /\ n \in DOMAIN Plan /\ n < at
           /\ rows[n].shape \in Names(SHAPES) /\ rows[n].trace # NOTRACE
<1>1. rows[n] \in Rows /\ n \in 1..Len(rows)
  BY DEF Typed
<1>2. rows[n].trace \in 1..Len(Plan) /\ rows[n].shape \in Names(SHAPES)
  BY <1>1 DEF Rows
<1> QED
  BY <1>1, <1>2, PlanIsSeq DEF Typed, TypeOK, NOTRACE

LEMMA TracedNext ==
    ASSUME Typed, Traced, [Next]_vars
    PROVE  Traced'
<1>1. CASE CaptureTrace
  <2> DEFINE shape == Plan[at].shape
  <2>1. at \in DOMAIN Plan /\ shape \in Names(SHAPES)
    BY <1>1, PlanShape, PlanIsSeq DEF CaptureTrace, Typed, TypeOK
  <2>2. /\ traces' = [traces EXCEPT ![shape] = IF @ = NOTRACE THEN at ELSE @]
        /\ DOMAIN traces = Names(SHAPES) /\ rows' = rows
    BY <1>1 DEF CaptureTrace, Typed, TypeOK
  <2>3. \A s \in Names(SHAPES) : traces[s] # NOTRACE => traces'[s] = traces[s]
    BY <2>2
  <2>4. \A s \in Names(SHAPES) : traces'[s] # NOTRACE => Plan[traces'[s]].shape = s
    BY <2>1, <2>2 DEF Traced
  <2>5. \A n \in DOMAIN rows : rows[n].trace = traces'[rows[n].shape]
    BY <2>3, RowFields DEF Traced
  <2> QED
    BY <2>2, <2>4, <2>5 DEF Traced
<1>2. CASE PushRow
  <2>1. /\ rows' = Append(rows, Row) /\ traces' = traces /\ Len(rows) = at - 1
        /\ rows \in Seq(Rows) /\ Row \in Rows /\ at \in Nat
    BY <1>2, RowIsRow, PlanIsSeq DEF PushRow, Typed, TypeOK
  <2>2. DOMAIN rows' = DOMAIN rows \cup {at} /\ rows'[at] = Row
        /\ \A n \in DOMAIN rows : rows'[n] = rows[n]
    BY <2>1
  <2> QED
    BY <2>1, <2>2 DEF Traced, Row
<1>3. CASE RunAgain
  <2>1. rows' = <<>> /\ traces' = Untraced
    BY <1>3 DEF RunAgain
  <2> QED
    BY <2>1 DEF Traced, Untraced
<1>4. CASE UNCHANGED <<traces, rows>>
  BY <1>4 DEF Traced
<1> QED
  BY <1>1, <1>2, <1>3, <1>4 DEF Next, Progress, Start, RunCampaign, WriteReproducer, WriteCsv,
     WriteResults, Dies, Ended, vars

LEMMA TracedInit == Init => Traced
BY DEF Init, Traced, Untraced

LEMMA TracedOnce == Typed /\ Traced => OneTracePerShape
<1> SUFFICES ASSUME Typed, Traced, NEW m \in DOMAIN rows, NEW n \in DOMAIN rows
             PROVE  rows[m].trace = rows[n].trace <=> rows[m].shape = rows[n].shape
  BY DEF OneTracePerShape
<1>1. \A k \in {m, n} : Plan[rows[k].trace].shape = rows[k].shape
  BY RowFields DEF Traced
<1> QED
  BY <1>1 DEF Traced

(* The invariant the traces rest on.                                       *)
THEOREM TracedHolds == Spec => []Traced
BY TracedInit, TypedHolds, TracedNext, PTL DEF Spec

(* The rows of a shape share one trace, and no two shapes share any:       *)
(* captureTrace is called once per shape, wherever the sweep is.           *)
THEOREM TraceIsCapturedOnce == Spec => []OneTracePerShape
BY TypedHolds, TracedHolds, TracedOnce, PTL

-----------------------------------------------------------------------------
(* The findings directory.                                                 *)

Has(dir, artifact) == dir \in DOMAIN artifacts /\ artifacts[dir] = artifact

(* The findings of the run in hand that are not on the list any more have  *)
(* their artifact, too.                                                    *)
Packaged ==
    /\ ReportedIsPackaged
    /\ step = "package" =>
           \A f \in result \ unpacked :
               Has(OutDir(Plan[at], f), Artifact(at, f, traces[Plan[at].shape], PARTS))

LEMMA Here == Typed /\ step = "package" => at \in DOMAIN Plan
BY PlanIsSeq DEF Typed, TypeOK

(* Writing one artifact leaves those of the rows alone.                    *)
LEMMA RowsUntouched ==
    ASSUME Typed, Traced, ReportedIsPackaged, step = "package", NEW f, NEW artifact,
           artifacts' = Written(OutDir(Plan[at], f), artifact),
           UNCHANGED <<sweep, rows>>
    PROVE  ReportedIsPackaged'
<1> SUFFICES ASSUME NEW n \in DOMAIN rows, NEW g \in rows[n].findings
             PROVE  /\ OutDir(Plan[n], g) \in DOMAIN artifacts'
                    /\ artifacts'[OutDir(Plan[n], g)] = Artifact(n, g, rows[n].trace, PARTS)'
  BY DEF ReportedIsPackaged
<1>1. n \in DOMAIN Plan /\ n # at /\ at \in DOMAIN Plan
  BY RowFields, Here, PlanIsSeq
<1>2. OutDir(Plan[n], g) # OutDir(Plan[at], f)
  BY <1>1, OutDirApart
<1>3. /\ OutDir(Plan[n], g) \in DOMAIN artifacts
      /\ artifacts[OutDir(Plan[n], g)] = Artifact(n, g, rows[n].trace, PARTS)
  BY DEF ReportedIsPackaged
<1>4. Artifact(n, g, rows[n].trace, PARTS)' = Artifact(n, g, rows[n].trace, PARTS)
  BY DEF Artifact
<1>5. /\ OutDir(Plan[n], g) \in DOMAIN artifacts'
      /\ artifacts'[OutDir(Plan[n], g)] = artifacts[OutDir(Plan[n], g)]
  BY <1>2, <1>3 DEF Written
<1> QED
  BY <1>3, <1>4, <1>5

LEMMA PackagedNext ==
    ASSUME Typed, Traced, Packaged, [Next]_vars
    PROVE  Packaged'
<1>0. ASSUME UNCHANGED sweep, NEW n, NEW f, NEW trace
      PROVE  Artifact(n, f, trace, PARTS)' = Artifact(n, f, trace, PARTS)
  BY <1>0 DEF Artifact
<1>1. CASE WriteReproducer
  <2>1. PICK f \in unpacked :
          /\ artifacts' = Written(OutDir(Plan[at], f), Artifact(at, f, traces[Plan[at].shape], PARTS))
          /\ unpacked' = unpacked \ {f}
    BY <1>1 DEF WriteReproducer
  <2>2. step = "package" /\ UNCHANGED <<sweep, step, at, traces, result, rows>>
    BY <1>1 DEF WriteReproducer
  <2>3. ReportedIsPackaged'
    BY <2>1, <2>2, RowsUntouched DEF Packaged
  <2>4. ASSUME NEW g \in result \ unpacked'
        PROVE  Has(OutDir(Plan[at], g), Artifact(at, g, traces[Plan[at].shape], PARTS))'
    <3>1. Artifact(at, g, traces[Plan[at].shape], PARTS)' = Artifact(at, g, traces[Plan[at].shape], PARTS)
      BY <2>2 DEF Artifact
    <3>2. CASE g = f
      BY <2>1, <2>2, <3>1, <3>2 DEF Has, Written
    <3>3. CASE g # f
      <4>1. OutDir(Plan[at], g) # OutDir(Plan[at], f)
        BY <2>2, <3>3, Here, OutDirApart
      <4>2. Has(OutDir(Plan[at], g), Artifact(at, g, traces[Plan[at].shape], PARTS))
        BY <2>1, <2>2, <3>3 DEF Packaged
      <4> QED
        BY <2>1, <2>2, <3>1, <4>1, <4>2 DEF Has, Written
    <3> QED
      BY <3>2, <3>3
  <2> QED
    BY <2>2, <2>3, <2>4 DEF Packaged
<1>2. CASE PushRow
  <2>1. /\ rows' = Append(rows, Row) /\ Len(rows) = at - 1 /\ rows \in Seq(Rows) /\ Row \in Rows
        /\ at \in Nat /\ step = "package" /\ unpacked = {} /\ step' # "package"
        /\ UNCHANGED <<sweep, artifacts>>
    BY <1>2, RowIsRow, PlanIsSeq DEF PushRow, Typed, TypeOK, disk
  <2>2. /\ DOMAIN rows' = DOMAIN rows \cup {at} /\ rows'[at] = Row
        /\ \A n \in DOMAIN rows : rows'[n] = rows[n]
    BY <2>1
  <2>3. ASSUME NEW f \in Row.findings
        PROVE  Has(OutDir(Plan[at], f), Artifact(at, f, Row.trace, PARTS))
    BY <2>1 DEF Packaged, Row
  <2>4. ASSUME NEW n \in DOMAIN rows', NEW f \in rows'[n].findings
        PROVE  Has(OutDir(Plan[n], f), Artifact(n, f, rows'[n].trace, PARTS))
    BY <2>2, <2>3 DEF Packaged, ReportedIsPackaged, Has
  <2>5. ReportedIsPackaged'
    BY <2>1, <2>4 DEF ReportedIsPackaged, Has, Artifact
  <2> QED
    BY <2>1, <2>5 DEF Packaged
<1>3. CASE Start
  <2>1. rows = <<>> /\ rows' = rows /\ step' # "package"
    BY <1>3 DEF Start, Typed, TypeOK
  <2> QED
    BY <2>1 DEF Packaged, ReportedIsPackaged
<1>4. CASE RunAgain
  BY <1>4 DEF RunAgain, Packaged, ReportedIsPackaged
<1>5. CASE RunCampaign
  BY <1>5 DEF RunCampaign, Packaged, ReportedIsPackaged, Artifact, disk
<1>6. CASE UNCHANGED <<sweep, rows, artifacts>> /\ step' # "package"
  BY <1>6 DEF Packaged, ReportedIsPackaged, Artifact
<1>7. CASE Dies
  <2>1. step' = "aborted" /\ UNCHANGED <<sweep, rows>>
    BY <1>7 DEF Dies
  <2>2. CASE artifacts' = artifacts
    BY <1>6, <2>1, <2>2
  <2>3. CASE step = "start"
    <3>1. rows = <<>>
      BY <2>3 DEF Typed, TypeOK
    <3> QED
      BY <2>1, <3>1 DEF Packaged, ReportedIsPackaged
  <2>4. CASE step = "package" /\ artifacts' # artifacts
    <3>1. PICK f \in unpacked, parts \in 0..(PARTS - 1) :
            artifacts' = Written(OutDir(Plan[at], f), Artifact(at, f, traces[Plan[at].shape], parts))
      BY <1>7, <2>4 DEF Dies, disk
    <3>2. ReportedIsPackaged'
      BY <2>1, <2>4, <3>1, RowsUntouched DEF Packaged
    <3> QED
      BY <2>1, <3>2 DEF Packaged
  <2> QED
    BY <1>7, <2>2, <2>3, <2>4 DEF Dies, disk
<1>8. CASE UNCHANGED vars
  BY <1>8 DEF vars, Packaged, ReportedIsPackaged, Artifact, Has
<1> QED
  BY <1>1, <1>2, <1>3, <1>4, <1>5, <1>6, <1>7, <1>8 DEF Next, Progress, CaptureTrace, WriteCsv,
     WriteResults, Ended, disk

LEMMA PackagedInit == Init => Packaged
BY DEF Init, Packaged, ReportedIsPackaged

(* "one reproducer per distinct finding": whatever the sweep has put in    *)
(* its table has an artifact that no other run of the plan writes to.      *)
THEOREM FindingsArePackaged == Spec => []ReportedIsPackaged
<1>1. Packaged => ReportedIsPackaged
  BY DEF Packaged
<1> QED
  BY <1>1, PackagedInit, TypedHolds, TracedHolds, PackagedNext, PTL DEF Spec

-----------------------------------------------------------------------------
(* The reports.                                                            *)

(* The directories the rows and the run in hand account for.               *)
Accounted ==
    Claimed([rows |-> rows]) \cup
    (IF step = "package" THEN {OutDir(Plan[at], f) : f \in result \ unpacked} ELSE {})

(* The findings directory has these and no others; the reports are written *)
(* in an order, each from the whole table.                                 *)
Accurate ==
    /\ step \notin {"start", "aborted"} => DOMAIN artifacts = Accounted
    /\ step \in {"results", "published"} => csv = Report(TRUE)
    /\ step = "published" => results = Report(TRUE)

LEMMA ClaimedIs ==
    ASSUME NEW report
    PROVE  \A d : d \in Claimed(report) <=>
               \E n \in DOMAIN report.rows : \E f \in report.rows[n].findings :
                   d = OutDir(report.rows[n], f)
BY DEF Claimed

LEMMA AccurateInit == Init => Accurate
BY DEF Init, Accurate

LEMMA AccountedNext ==
    ASSUME Typed, Traced, Accurate, [Next]_vars, step' \notin {"start", "aborted"}
    PROVE  DOMAIN artifacts' = Accounted'
<1> USE DEF Accounted
<1>1. CASE Start
  <2>1. rows' = <<>> /\ DOMAIN artifacts' = {} /\ step' = "capture"
    BY <1>1 DEF Start, Typed, TypeOK
  <2> QED
    BY <2>1, ClaimedIs
<1>2. CASE RunCampaign
  <2>1. /\ unpacked' = result' /\ rows' = rows /\ artifacts' = artifacts /\ step' = "package"
        /\ step = "campaign"
    BY <1>2 DEF RunCampaign, disk
  <2> QED
    BY <2>1 DEF Accurate, Claimed
<1>3. CASE WriteReproducer
  <2>1. PICK f \in unpacked :
          /\ artifacts' = Written(OutDir(Plan[at], f), Artifact(at, f, traces[Plan[at].shape], PARTS))
          /\ unpacked' = unpacked \ {f}
    BY <1>3 DEF WriteReproducer
  <2>2. step = "package" /\ unpacked \subseteq result /\ UNCHANGED <<step, at, result, rows>>
    BY <1>3 DEF WriteReproducer, Typed, TypeOK
  <2>3. DOMAIN artifacts' = DOMAIN artifacts \cup {OutDir(Plan[at], f)}
    BY <2>1 DEF Written
  <2>4. result \ unpacked' = (result \ unpacked) \cup {f}
    BY <2>1, <2>2
  <2> QED
    BY <2>2, <2>3, <2>4 DEF Accurate, Claimed
<1>4. CASE PushRow
  <2>1. /\ rows' = Append(rows, Row) /\ Len(rows) = at - 1 /\ rows \in Seq(Rows) /\ Row \in Rows
        /\ at \in Nat /\ step = "package" /\ unpacked = {} /\ step' # "package"
        /\ UNCHANGED <<artifacts>>
    BY <1>4, RowIsRow, PlanIsSeq DEF PushRow, Typed, TypeOK, disk
  <2>2. /\ DOMAIN rows' = DOMAIN rows \cup {at} /\ rows'[at] = Row
        /\ \A n \in DOMAIN rows : rows'[n] = rows[n]
    BY <2>1
  <2>3. Row.findings = result /\ \A f : OutDir(Row, f) = OutDir(Plan[at], f)
    BY DEF Row, OutDir
  <2>4. \A d : d \in Claimed([rows |-> rows']) <=>
             d \in Claimed([rows |-> rows]) \/ \E f \in result : d = OutDir(Plan[at], f)
    BY <2>2, <2>3, ClaimedIs
  <2>5. DOMAIN artifacts = Claimed([rows |-> rows]) \cup {OutDir(Plan[at], f) : f \in result}
    BY <2>1 DEF Accurate
  <2>6. Accounted' = Claimed([rows |-> rows'])
    BY <2>1 DEF Claimed
  <2>7. \A d : d \in DOMAIN artifacts <=> d \in Claimed([rows |-> rows'])
    BY <2>4, <2>5
  <2> QED
    BY <2>1, <2>6, <2>7
<1>5. CASE UNCHANGED <<rows, artifacts>> /\ step \notin {"start", "aborted", "package"} /\ step' # "package"
  <2>1. DOMAIN artifacts = Claimed([rows |-> rows])
    BY <1>5 DEF Accurate
  <2>2. Accounted' = Claimed([rows |-> rows])
    BY <1>5 DEF Claimed
  <2> QED
    BY <1>5, <2>1, <2>2
<1>6. CASE UNCHANGED vars
  BY <1>6 DEF vars, Accurate, Claimed
<1> QED
  BY <1>1, <1>2, <1>3, <1>4, <1>5, <1>6 DEF Next, Progress, CaptureTrace, WriteCsv, WriteResults, Dies,
     RunAgain, Ended, disk

LEMMA AccurateNext ==
    ASSUME Typed, Traced, Accurate, [Next]_vars
    PROVE  Accurate'
<1>1. step' \in {"results", "published"} => csv' = Report(TRUE)'
  BY DEF Next, Progress, Start, CaptureTrace, RunCampaign, WriteReproducer, PushRow, WriteCsv,
     WriteResults, Dies, RunAgain, Ended, vars, disk, Report, Accurate
<1>2. step' = "published" => results' = Report(TRUE)'
  BY DEF Next, Progress, Start, CaptureTrace, RunCampaign, WriteReproducer, PushRow, WriteCsv,
     WriteResults, Dies, RunAgain, Ended, vars, disk, Report, Accurate
<1> QED
  BY <1>1, <1>2, AccountedNext DEF Accurate

(* The invariant the reports rest on.                                      *)
THEOREM AccurateHolds == Spec => []Accurate
BY AccurateInit, TypedHolds, TracedHolds, AccurateNext, PTL DEF Spec

LEMMA PublishedIs == Typed /\ Traced /\ Accurate => PublishedAgree
<1> SUFFICES ASSUME Typed, Traced, Accurate, step = "published"
             PROVE  /\ csv = results
                    /\ results.sweep = sweep /\ results.whole
                    /\ [n \in DOMAIN results.rows |-> OutDir(results.rows[n], "")] =
                       [n \in DOMAIN Plan |-> OutDir(Plan[n], "")]
                    /\ Claimed(results) = DOMAIN artifacts
  BY DEF PublishedAgree
<1>1. csv = Report(TRUE) /\ results = Report(TRUE)
  BY DEF Accurate
<1>2. results.sweep = sweep /\ results.whole /\ results.rows = rows
  BY <1>1 DEF Report
<1>3. DOMAIN rows = DOMAIN Plan
  BY PlanIsSeq DEF Typed, TypeOK
<1>4. \A n \in DOMAIN rows : OutDir(rows[n], "") = OutDir(Plan[n], "")
  BY DEF Traced, OutDir
<1>5. Claimed(results) = DOMAIN artifacts
  BY <1>2 DEF Claimed, Accurate, Accounted
<1> QED
  BY <1>1, <1>2, <1>3, <1>4, <1>5

(* A sweep that publishes has run the whole plan, and its two reports and  *)
(* its findings directory say the same, whatever died before it.           *)
THEOREM ReportsAgree == Spec => []PublishedAgree
BY TypedHolds, TracedHolds, AccurateHolds, PublishedIs, PTL

=============================================================================
