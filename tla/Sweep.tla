-------------------------------- MODULE Sweep --------------------------------
(***************************************************************************)
(* core/tools/campaign-run.ts: every filesystem against every shape of the *)
(* workload, an artifact per finding, and at the end two report files.  A  *)
(* sweep takes hours, anything in it may throw, it may be killed, and it   *)
(* is run again on the machine the last one left behind: the findings      *)
(* directory and the reports outlive it.  One campaign is one step here    *)
(* and finds any set of signatures; Campaign models what is in it.         *)
(***************************************************************************)
EXTENDS Integers, Sequences, FiniteSets

CONSTANTS
    SWEEP,       \* the configurations, in order: a name and a filesystem
    SHAPES,      \* the shapes of the workload, in order
    Outcomes,    \* the sets of signatures a campaign may find
    MaxSweeps    \* bound on how often the sweep is run

Names(seq) == {seq[i] : i \in DOMAIN seq}

ASSUME SweepAssumption ==
    /\ SWEEP \in Seq([name : STRING, filesystem : STRING]) /\ SHAPES \in Seq(STRING)
    /\ SWEEP # <<>> /\ SHAPES # <<>>
    /\ \A i, j \in DOMAIN SWEEP : SWEEP[i].name = SWEEP[j].name => i = j
    /\ \A i, j \in DOMAIN SHAPES : SHAPES[i] = SHAPES[j] => i = j
    /\ MaxSweeps \in Nat \ {0}

VARIABLES
    sweep,      \* how many times the sweep has been started
    step,       \* where this one is
    at,         \* the run of the plan it is at
    traces,     \* the trace captured for each shape, named by the run it was captured for
    result,     \* the signatures the campaign of this run found
    unpacked,   \* those of them without an artifact yet
    rows,       \* the rows of the table so far
    artifacts,  \* the findings directory
    csv,        \* plots/data/campaign.csv
    results     \* docs/results.md

vars == <<sweep, step, at, traces, result, unpacked, rows, artifacts, csv, results>>
disk == <<artifacts, csv, results>>

-----------------------------------------------------------------------------

(* sweepPlan: every configuration with every shape, shapes innermost.      *)
Plan ==
    [k \in 1..(Len(SWEEP) * Len(SHAPES)) |->
        [config |-> SWEEP[((k - 1) \div Len(SHAPES)) + 1],
         shape |-> SHAPES[((k - 1) % Len(SHAPES)) + 1]]]

NOTRACE == 0
Untraced == [s \in Names(SHAPES) |-> NOTRACE]

(* Mutant: artifacts are kept apart by shape only.                         *)
OutDirByShape(run, f) == <<"", run.shape, f>>

(* The directory an artifact is written to.  Its parts are joined by       *)
(* dashes and the punctuation of the signature becomes dashes; that tells  *)
(* the configurations of SWEEP and the signatures of one database file     *)
(* apart, and is taken to do so for all that are compared here.            *)
OutDir(run, f) == <<run.config.name, run.shape, f>>

(* What writeReproducer leaves of finding f after some of its files: image,*)
(* trace prefix, finding, script and README, in this order.                *)
PARTS == 5

Artifact(n, f, trace, parts) ==
    [sweep |-> sweep, run |-> n, signature |-> f, filesystem |-> Plan[n].config.filesystem,
     trace |-> trace, parts |-> parts]

Written(dir, artifact) ==
    [d \in DOMAIN artifacts \cup {dir} |-> IF d = dir THEN artifact ELSE artifacts[d]]

Report(whole) == [sweep |-> sweep, rows |-> rows, whole |-> whole]

-----------------------------------------------------------------------------

Init ==
    /\ sweep = 1 /\ step = "start" /\ at = 1
    /\ traces = Untraced
    /\ result = {} /\ unpacked = {} /\ rows = <<>>
    /\ artifacts = [d \in {} |-> {}]
    /\ csv = [sweep |-> 0, rows |-> <<>>, whole |-> TRUE]
    /\ results = [sweep |-> 0, rows |-> <<>>, whole |-> TRUE]

(* Mutant: the findings of earlier sweeps stay.                            *)
StartOver ==
    /\ step = "start"
    /\ step' = "capture"
    /\ UNCHANGED <<sweep, at, traces, result, unpacked, rows, disk>>

(* main: the shim and the workload are built, and the findings of earlier  *)
(* sweeps deleted.                                                         *)
Start ==
    /\ step = "start"
    /\ artifacts' = [d \in {} |-> {}]
    /\ step' = "capture"
    /\ UNCHANGED <<sweep, at, traces, result, unpacked, rows, csv, results>>

(* Mutant: every run captures a trace of its own.                          *)
Recapture ==
    /\ step = "capture"
    /\ traces' = [traces EXCEPT ![Plan[at].shape] = at]
    /\ step' = "campaign"
    /\ UNCHANGED <<sweep, at, result, unpacked, rows, disk>>

(* A trace is captured for a shape the first time it comes up.             *)
CaptureTrace ==
    /\ step = "capture"
    /\ traces' = [traces EXCEPT ![Plan[at].shape] = IF @ = NOTRACE THEN at ELSE @]
    /\ step' = "campaign"
    /\ UNCHANGED <<sweep, at, result, unpacked, rows, disk>>

(* runCampaign on the trace of the shape.                                  *)
RunCampaign ==
    /\ step = "campaign"
    /\ result' \in Outcomes
    /\ unpacked' = result'
    /\ step' = "package"
    /\ UNCHANGED <<sweep, at, traces, rows, disk>>

(* One finding of the run is packaged.                                     *)
WriteReproducer ==
    /\ step = "package"
    /\ \E f \in unpacked :
         /\ artifacts' = Written(OutDir(Plan[at], f), Artifact(at, f, traces[Plan[at].shape], PARTS))
         /\ unpacked' = unpacked \ {f}
    /\ UNCHANGED <<sweep, step, at, traces, result, rows, csv, results>>

(* The row as it is pushed; trace is kept to compare rows with.            *)
Row == [config |-> Plan[at].config, shape |-> Plan[at].shape, findings |-> result,
        trace |-> traces[Plan[at].shape]]

(* Mutant: a campaign that found nothing has no row.                       *)
PushRowIfAny ==
    /\ step = "package" /\ unpacked = {}
    /\ rows' = IF result = {} THEN rows ELSE Append(rows, Row)
    /\ at' = at + 1
    /\ step' = IF at = Len(Plan) THEN "csv" ELSE "capture"
    /\ UNCHANGED <<sweep, traces, result, unpacked, disk>>

(* The row of a run whose findings are packaged; then the next run, or the *)
(* reports.                                                                *)
PushRow ==
    /\ step = "package" /\ unpacked = {}
    /\ rows' = Append(rows, Row)
    /\ at' = at + 1
    /\ step' = IF at = Len(Plan) THEN "csv" ELSE "capture"
    /\ UNCHANGED <<sweep, traces, result, unpacked, disk>>

WriteCsv ==
    /\ step = "csv"
    /\ csv' = Report(TRUE)
    /\ step' = "results"
    /\ UNCHANGED <<sweep, at, traces, result, unpacked, rows, artifacts, results>>

WriteResults ==
    /\ step = "results"
    /\ results' = Report(TRUE)
    /\ step' = "published"
    /\ UNCHANGED <<sweep, at, traces, result, unpacked, rows, artifacts, csv>>

AtRest == step \in {"published", "aborted"}

(* An exception from anything that is called, or a kill: nothing in main   *)
(* catches either.  What was being deleted or written is left in part.     *)
Dies ==
    /\ ~AtRest
    /\ step' = "aborted"
    /\ \/ UNCHANGED disk
       \/ /\ step = "start"
          /\ \E D \in SUBSET DOMAIN artifacts : artifacts' = [d \in D |-> artifacts[d]]
          /\ UNCHANGED <<csv, results>>
       \/ /\ step = "package"
          /\ \E f \in unpacked, parts \in 0..(PARTS - 1) :
               artifacts' = Written(OutDir(Plan[at], f),
                                    Artifact(at, f, traces[Plan[at].shape], parts))
          /\ UNCHANGED <<csv, results>>
       \/ step = "csv" /\ csv' = Report(FALSE) /\ UNCHANGED <<artifacts, results>>
       \/ step = "results" /\ results' = Report(FALSE) /\ UNCHANGED <<artifacts, csv>>
    /\ UNCHANGED <<sweep, at, traces, result, unpacked, rows>>

(* The sweep is run again, in a process of its own.                        *)
RunAgain ==
    /\ AtRest /\ sweep < MaxSweeps
    /\ sweep' = sweep + 1 /\ step' = "start" /\ at' = 1
    /\ traces' = Untraced
    /\ result' = {} /\ unpacked' = {} /\ rows' = <<>>
    /\ UNCHANGED disk

Ended == AtRest /\ sweep = MaxSweeps /\ UNCHANGED vars

(* What one sweep does unless it dies.                                     *)
Progress ==
    \/ Start
    \/ CaptureTrace
    \/ RunCampaign
    \/ WriteReproducer
    \/ PushRow
    \/ WriteCsv
    \/ WriteResults

Next == Progress \/ Dies \/ RunAgain \/ Ended

Spec == Init /\ [][Next]_vars

-----------------------------------------------------------------------------

Reports == [sweep : 0..MaxSweeps, rows : Seq([config : Names(SWEEP), shape : Names(SHAPES),
                                              findings : Outcomes, trace : 1..Len(Plan)]),
            whole : BOOLEAN]

(* Types, and the rows are those of the runs that are over.                *)
TypeOK ==
    /\ sweep \in 1..MaxSweeps
    /\ step \in {"start", "capture", "campaign", "package", "csv", "results", "published", "aborted"}
    /\ at \in 1..(Len(Plan) + 1)
    /\ Len(rows) = at - 1
    /\ traces \in [Names(SHAPES) -> 0..Len(Plan)]
    /\ unpacked \subseteq result
    /\ {csv, results} \subseteq Reports

(* campaign-run.ts: "one reproducer per distinct finding".  Once a row is  *)
(* in the table, every finding it counts has a complete artifact of its    *)
(* own: of this sweep, of its filesystem, with the prefix of its trace.    *)
ReportedIsPackaged ==
    \A n \in DOMAIN rows : \A f \in rows[n].findings :
        /\ OutDir(Plan[n], f) \in DOMAIN artifacts
        /\ artifacts[OutDir(Plan[n], f)] = Artifact(n, f, rows[n].trace, PARTS)

(* campaign-run.ts: the trace is reused because recapturing "would make    *)
(* the rows differ by more than the one variable".  Two rows come from the *)
(* same trace exactly when they are of the same shape.                     *)
OneTracePerShape ==
    \A m, n \in DOMAIN rows : rows[m].trace = rows[n].trace <=> rows[m].shape = rows[n].shape

Claimed(report) ==
    UNION {{OutDir(report.rows[n], f) : f \in report.rows[n].findings} : n \in DOMAIN report.rows}

(* A sweep that got to its end leaves two reports and a findings directory *)
(* that say the same: a row for every run of the plan in both, an artifact *)
(* for every finding in them, and nothing of an earlier sweep, finished or *)
(* dead.  One that dies at its reports leaves them of two sweeps, or half  *)
(* written, until the next one ends.                                       *)
PublishedAgree ==
    step = "published" =>
        /\ csv = results
        /\ results.sweep = sweep /\ results.whole
        /\ [n \in DOMAIN results.rows |-> OutDir(results.rows[n], "")] =
           [n \in DOMAIN Plan |-> OutDir(Plan[n], "")]
        /\ Claimed(results) = DOMAIN artifacts

=============================================================================
