-------------------------- MODULE WritebackProofs --------------------------
(***************************************************************************)
(* Theorems about WritebackExperiment, for any timers, any wait and any    *)
(* phase of the flusher.                                                   *)
(***************************************************************************)
EXTENDS WritebackExperiment, TLAPS

(* After the overwrite and before the copy has been judged.                *)
Overwritten == step \in {"wait", "copy"}

(* The flusher is never late, and its last wakeup before the page expires  *)
(* is at most a period away from the one that writes the page back.        *)
Timing ==
    /\ TypeOK
    /\ Mounted => clock <= Latest /\ (wakeup > 0 => clock <= nextWake /\ nextWake <= clock + wakeup)
    /\ Overwritten => overwrote <= Slack
    /\ step = "overwrite" => grew <= clock
    /\ Mounted /\ dirty => Overwritten
    /\ Overwritten /\ dirty /\ wakeup > 0 => nextWake <= overwrote + expire + wakeup
    /\ step \notin {"check", "failed"} =>
           writebackWaitIsSufficient(expire, wakeup, WRITEBACK_WAIT_MS)

(* What a mount can show, as a set.                                        *)
Showings == [grown : BOOLEAN, header : HEADERS]

LEMMA ShowsIsShowing ==
    ASSUME NEW grown \in BOOLEAN, NEW header \in HEADERS
    PROVE  Shows(grown, header) \in Showings
BY DEF Shows, Showings

LEMMA BaseIsShowing == Base \in Showings
BY ShowsIsShowing DEF Base, HEADERS

(* What the kernel writes back is the header, and never less of the size.  *)
LEMMA WriteBackShows ==
    ASSUME TypeOK, WriteBack
    PROVE  device' \in Showings /\ dirty' = FALSE
<1>1. (device.grown \/ ~reorders) \in BOOLEAN
  OBVIOUS
<1>2. Shows(device.grown \/ ~reorders, "new") \in Showings
  BY <1>1, ShowsIsShowing DEF HEADERS
<1>3. device \in Showings
  BY DEF TypeOK, Showings
<1> QED
  BY <1>2, <1>3 DEF WriteBack

LEMMA CommitShows ==
    ASSUME TypeOK, Commit
    PROVE  device' \in Showings
<1>1. Shows(TRUE, "new") \in Showings
  BY ShowsIsShowing DEF HEADERS
<1>2. [device EXCEPT !.grown = TRUE] \in Showings
  BY DEF TypeOK, Showings
<1> QED
  BY <1>1, <1>2 DEF Commit

LEMMA TimingInit == Init => Timing
<1> SUFFICES ASSUME Init PROVE Timing
  OBVIOUS
<1>1. interpretObservation(Shows(TRUE, "old")) \in
          [reorderingObserved : BOOLEAN, noReorderingConfirmed : BOOLEAN]
  BY DEF interpretObservation, Shows
<1>2. verdicts \in [ARMS -> [reorderingObserved : BOOLEAN, noReorderingConfirmed : BOOLEAN]]
  BY <1>1 DEF Init
<1>3. {device, copy} \subseteq [grown : BOOLEAN, header : HEADERS]
  BY BaseIsShowing DEF Init, Showings
<1>4. TypeOK
  <2>1. expire \in Expires /\ wakeup \in Wakeups /\ arm \in ARMS
    BY DEF Init, ARMS
  <2>2. quiet \in BOOLEAN /\ reorders \in BOOLEAN /\ dirty \in BOOLEAN
    BY DEF Init
  <2>3. {clock, nextWake, grew, overwrote} \subseteq Nat /\ unread \subseteq PARTS
    BY DEF Init
  <2>4. step = "check"
    BY DEF Init
  <2> QED
    BY <1>2, <1>3, <2>1, <2>2, <2>3, <2>4 DEF TypeOK
<1> QED
  BY <1>4, WritebackAssumption DEF Init, Timing, Mounted, Overwritten

(* The environment and the kernel keep it.                                 *)
LEMMA TimingKernel ==
    ASSUME Timing, Tick \/ Wake \/ WriteBackEarly \/ Commit
    PROVE  Timing'
<1> USE WritebackAssumption DEF Timing, TypeOK, Mounted, Overwritten, Latest, host, timers, disk, seen
<1>1. CASE Tick
  BY <1>1 DEF Tick
<1>2. CASE Wake
  <2>1. device' \in [grown : BOOLEAN, header : HEADERS] /\ dirty' \in BOOLEAN /\ (dirty' => dirty)
    BY <1>2, WriteBackShows DEF Wake, Showings
  <2>2. nextWake' = clock + wakeup /\ clock = nextWake /\ (dirty' => clock < overwrote + expire)
    BY <1>2 DEF Wake, WriteBack
  <2>3. UNCHANGED <<step, arm, expire, wakeup, quiet, reorders, clock, grew, overwrote, unread,
                    copy, verdicts>>
    BY <1>2 DEF Wake
  <2>4. TypeOK'
    BY <2>1, <2>2, <2>3
  <2> QED
    BY <2>1, <2>2, <2>3, <2>4 DEF writebackWaitIsSufficient
<1>3. CASE WriteBackEarly
  <2>1. device' \in [grown : BOOLEAN, header : HEADERS] /\ dirty' = FALSE
    BY <1>3, WriteBackShows DEF WriteBackEarly, Showings
  <2>2. UNCHANGED <<step, arm, expire, wakeup, quiet, reorders, clock, nextWake, grew, overwrote,
                    unread, copy, verdicts>>
    BY <1>3 DEF WriteBackEarly
  <2>3. TypeOK'
    BY <2>1, <2>2
  <2>4. Latest' = Latest /\ Mounted' = Mounted /\ Overwritten' = Overwritten
    BY <2>2
  <2>5. (Mounted => clock <= Latest /\ (wakeup > 0 => clock <= nextWake /\ nextWake <= clock + wakeup))'
    BY <2>2
  <2>6. (Mounted /\ dirty => Overwritten)' /\ (Overwritten /\ dirty /\ wakeup > 0 => nextWake <= overwrote + expire + wakeup)'
    BY <2>1
  <2> QED
    BY <2>2, <2>3, <2>5, <2>6 DEF writebackWaitIsSufficient
<1>4. CASE Commit
  <2>1. device' \in [grown : BOOLEAN, header : HEADERS]
    BY CommitShows, <1>4 DEF Showings
  <2>2. UNCHANGED <<step, arm, expire, wakeup, quiet, reorders, clock, nextWake, grew, overwrote,
                    dirty, unread, copy, verdicts>>
    BY <1>4 DEF Commit
  <2>3. TypeOK'
    BY <2>1, <2>2
  <2> QED
    BY <2>2, <2>3 DEF writebackWaitIsSufficient
<1> QED
  BY <1>1, <1>2, <1>3, <1>4

(* ... and so does the tool.                                               *)
LEMMA TimingTool ==
    ASSUME Timing, Tool \/ Throws
    PROVE  Timing'
<1> USE WritebackAssumption DEF Timing, TypeOK, Mounted, Overwritten, Latest, host, timers, disk, seen
<1>1. CASE CheckWritebackAssumption
  BY <1>1 DEF CheckWritebackAssumption
<1>2. CASE WriteBase
  <2>1. Base \in [grown : BOOLEAN, header : HEADERS]
    BY BaseIsShowing DEF Showings
  <2>2. nextWake' \in Nat /\ clock' = 0
    BY <1>2, WritebackAssumption DEF WriteBase
  <2>3. /\ step = "base" /\ step' = "grow" /\ dirty' = FALSE /\ device' = Base
        /\ nextWake' \in 0..wakeup
        /\ UNCHANGED <<arm, expire, wakeup, quiet, reorders, grew, overwrote, unread, copy, verdicts>>
    BY <1>2 DEF WriteBase
  <2>4. TypeOK'
    <3>1. ({clock, nextWake, grew, overwrote} \subseteq Nat)'
      BY <2>2, <2>3
    <3>2. ({device, copy} \subseteq [grown : BOOLEAN, header : HEADERS])'
      BY <2>1, <2>3
    <3>3. /\ step' \in {"check", "base", "grow", "overwrite", "wait", "copy", "done", "failed"}
          /\ step' \notin {"wait", "copy"} /\ step' # "copy"
      BY <2>3
    <3>4. /\ (arm \in ARMS)' /\ (expire \in Expires)' /\ (wakeup \in Wakeups)'
          /\ (quiet \in BOOLEAN)' /\ (reorders \in BOOLEAN)' /\ (dirty \in BOOLEAN)'
          /\ (unread \subseteq PARTS)'
          /\ (verdicts \in [ARMS -> [reorderingObserved : BOOLEAN, noReorderingConfirmed : BOOLEAN]])'
      BY <2>3
    <3> QED
      BY <3>1, <3>2, <3>3, <3>4
  <2> QED
    BY <2>2, <2>3, <2>4, WritebackAssumption DEF writebackWaitIsSufficient
<1>3. CASE Grow
  BY <1>3 DEF Grow
<1>4. CASE Overwrite
  BY <1>4 DEF Overwrite
<1>5. CASE StartCopy
  BY <1>5 DEF StartCopy
<1>6. CASE CopyPart
  <2>1. PICK part \in unread : copy' = [copy EXCEPT ![part] = device[part]]
                               /\ unread' = unread \ {part}
    BY <1>6 DEF CopyPart
  <2>2. copy' \in [grown : BOOLEAN, header : HEADERS]
    BY <2>1 DEF PARTS
  <2> QED
    BY <1>6, <2>1, <2>2 DEF CopyPart
<1>7. CASE Observe
  <2>1. verdicts' \in [ARMS -> [reorderingObserved : BOOLEAN, noReorderingConfirmed : BOOLEAN]]
    BY <1>7 DEF Observe, interpretObservation, HEADERS
  <2> QED
    BY <1>7, <2>1 DEF Observe, ARMS
<1>8. CASE Throws
  BY <1>8 DEF Throws
<1> QED
  BY <1>1, <1>2, <1>3, <1>4, <1>5, <1>6, <1>7, <1>8 DEF Tool

THEOREM TimingHolds == Spec => []Timing
<1>1. Timing /\ [Next]_vars => Timing'
  <2> SUFFICES ASSUME Timing, [Next]_vars PROVE Timing'
    OBVIOUS
  <2>1. CASE UNCHANGED vars
    BY <2>1 DEF vars, Timing, TypeOK, Mounted, Overwritten, Latest, host, timers, disk, seen
  <2>2. CASE Next
    BY <2>1, <2>2, TimingKernel, TimingTool DEF Next, Ended
  <2> QED
    BY <2>1, <2>2
<1> QED
  BY <1>1, TimingInit, PTL DEF Spec

(* Types, and the sleep is not cut short.                                  *)
THEOREM ExperimentTypeCorrect == Spec => []TypeOK
<1>1. Timing => TypeOK
  BY DEF Timing
<1> QED
  BY <1>1, TimingHolds, PTL

(* writebackWaitIsSufficient is sufficient: a check that passes leaves no  *)
(* page behind when the copy starts.                                       *)
LEMMA TimingSuffices == Timing => WaitSuffices
<1> SUFFICES ASSUME Timing, step = "copy", wakeup > 0, dirty PROVE FALSE
  BY DEF WaitSuffices, Timing, TypeOK
<1>1. /\ clock <= overwrote + expire + wakeup
      /\ (clock - overwrote) * 10 >= WRITEBACK_WAIT_MS
      /\ WRITEBACK_WAIT_MS > (expire + wakeup) * 10
      /\ {clock, overwrote, expire, wakeup} \subseteq Nat
  BY WritebackAssumption DEF Timing, TypeOK, Mounted, Overwritten, writebackWaitIsSufficient
<1> QED
  BY <1>1, WritebackAssumption

THEOREM WaitIsSufficient == Spec => []WaitSuffices
BY TimingSuffices, TimingHolds, PTL

-----------------------------------------------------------------------------
(* What the experiment settles.                                            *)

(* What is on the device once the page is written back.                    *)
Outcome == IF arm = "journal" THEN Base ELSE Shows(~reorders, "new")

(* Undisturbed, the device holds the base and then the outcome, the copy   *)
(* is made of parts of the outcome, and each verdict says which it was.    *)
Settled ==
    quiet /\ wakeup > 0 =>
        /\ step \in {"grow", "overwrite"} => device = Base
        /\ Overwritten => device = IF dirty THEN Base ELSE Outcome
        /\ step = "copy" => \A part \in PARTS \ unread : copy[part] = Outcome[part]
        /\ arm = "journal" => (verdicts["ordered"].reorderingObserved <=> reorders)
        /\ step = "done" => arm = "journal" /\ verdicts["journal"].noReorderingConfirmed

(* commit=300 is too long for the timer to expire.                         *)
LEMMA NotDue ==
    ASSUME Timing, quiet, step \in {"overwrite", "wait", "copy"}
    PROVE  ~CommitDue
<1>1. {clock, grew, overwrote} \subseteq Nat
  BY DEF Timing, TypeOK
<1>2. clock * 10 <= (Slack + Slack + 1) * 10 + WRITEBACK_WAIT_MS
  BY <1>1, WritebackAssumption DEF Timing, TypeOK, Mounted, Overwritten, Latest
<1>3. clock < CommitInterval
  BY <1>1, <1>2, WritebackAssumption
<1> QED
  BY <1>1, <1>3, WritebackAssumption DEF CommitDue

(* Writing back takes the base to the outcome.                             *)
LEMMA WriteBackSettles ==
    ASSUME TypeOK, WriteBack, device = Base
    PROVE  device' = Outcome
<1>1. (device.grown \/ ~reorders) = ~reorders
  BY DEF Base, Shows, TypeOK
<1> QED
  BY <1>1 DEF WriteBack, Outcome

LEMMA SettledInit == Init => Settled
BY DEF Init, Settled, Overwritten, ARMS

LEMMA SettledKernel ==
    ASSUME Timing, Settled, Tick \/ Wake \/ WriteBackEarly \/ Commit
    PROVE  Settled'
<1> SUFFICES ASSUME quiet', wakeup' > 0 PROVE Settled'
  BY DEF Settled
<1>1. /\ UNCHANGED <<step, arm, expire, wakeup, quiet, reorders, grew, overwrote, unread, copy, verdicts>>
      /\ quiet /\ wakeup > 0
  BY DEF Tick, Wake, WriteBackEarly, Commit, host, timers, disk, seen
<1>2. Outcome' = Outcome /\ Overwritten' = Overwritten
  BY <1>1 DEF Outcome, Overwritten
<1>3. CASE UNCHANGED <<dirty, device>>
  BY <1>1, <1>2, <1>3 DEF Settled
<1>4. CASE WriteBack /\ dirty /\ Mounted
  <2>1. Overwritten /\ dirty' = FALSE
    BY <1>4 DEF Timing, WriteBack
  <2>2. device = Base
    BY <1>1, <1>4, <2>1 DEF Settled
  <2>3. device' = Outcome'
    BY <1>2, <1>4, <2>2, WriteBackSettles DEF Timing
  <2>4. step \notin {"grow", "overwrite"}
    BY <2>1 DEF Overwritten
  <2> QED
    BY <1>1, <1>2, <2>1, <2>3, <2>4 DEF Settled
<1>5. CASE Commit
  BY <1>1, <1>5, NotDue DEF Commit
<1> QED
  BY <1>3, <1>4, <1>5 DEF Tick, Wake, WriteBackEarly, disk

LEMMA SettledTool ==
    ASSUME Timing, Settled, Tool \/ Throws
    PROVE  Settled'
<1> SUFFICES ASSUME quiet', wakeup' > 0 PROVE Settled'
  BY DEF Settled
<1>1. UNCHANGED <<expire, wakeup, quiet, reorders>> /\ quiet /\ wakeup > 0
  BY DEF Tool, Throws, CheckWritebackAssumption, WriteBase, Grow, Overwrite, StartCopy, CopyPart,
         Observe, host
<1> USE <1>1
<1>2. CASE CheckWritebackAssumption \/ Throws
  BY <1>2 DEF CheckWritebackAssumption, Throws, Settled, Overwritten, disk, seen
<1>3. CASE WriteBase
  BY <1>3 DEF WriteBase, Settled, Overwritten, seen
<1>4. CASE Grow
  BY <1>4 DEF Grow, Settled, Overwritten, disk, seen
<1>5. CASE Overwrite
  BY <1>5 DEF Overwrite, Settled, Overwritten, seen
<1>6. CASE StartCopy
  <2>1. PARTS \ unread' = {}
    BY <1>6 DEF StartCopy
  <2>2. UNCHANGED <<arm, device, dirty, verdicts>> /\ step' = "copy" /\ step = "wait" /\ Outcome' = Outcome
    BY <1>6 DEF StartCopy, disk, Outcome
  <2> QED
    BY <2>1, <2>2 DEF Settled, Overwritten
<1>7. CASE CopyPart
  <2>1. PICK part \in unread : /\ copy' = [copy EXCEPT ![part] = device[part]]
                               /\ unread' = unread \ {part}
    BY <1>7 DEF CopyPart
  <2>2. UNCHANGED <<arm, device, dirty, step, verdicts>> /\ step = "copy" /\ Outcome' = Outcome
    BY <1>7 DEF CopyPart, disk, Outcome
  <2>3. device = Outcome
    BY <2>2, TimingSuffices DEF WaitSuffices, Settled, Overwritten
  <2>4. DOMAIN copy = PARTS /\ part \in PARTS
    BY DEF Timing, TypeOK, PARTS
  <2>5. \A p \in PARTS \ unread' : copy'[p] = Outcome[p]
    BY <2>1, <2>2, <2>3, <2>4 DEF Settled
  <2> QED
    BY <2>2, <2>5 DEF Settled, Overwritten
<1>8. CASE Observe
  <2>1. \A part \in PARTS : copy[part] = Outcome[part]
    BY <1>8 DEF Observe, Settled
  <2>2. copy.grown = Outcome.grown /\ copy.header = Outcome.header
    BY <2>1 DEF PARTS
  <2>3. /\ arm' = "journal" /\ step' = IF arm = "ordered" THEN "base" ELSE "done"
        /\ verdicts' = [verdicts EXCEPT ![arm] = interpretObservation(copy)]
        /\ arm \in ARMS /\ DOMAIN verdicts = ARMS
    BY <1>8 DEF Observe, Timing, TypeOK
  <2>4. CASE arm = "ordered"
    <3>1. copy.grown = ~reorders /\ copy.header = "new"
      BY <2>2, <2>4 DEF Outcome, Shows
    <3>2. interpretObservation(copy).reorderingObserved <=> reorders
      BY <3>1 DEF interpretObservation
    <3>3. verdicts'["ordered"] = interpretObservation(copy)
      BY <2>3, <2>4 DEF ARMS
    <3> QED
      BY <2>3, <2>4, <3>2, <3>3 DEF Settled, Overwritten
  <2>5. CASE arm = "journal"
    <3>1. copy.grown = FALSE /\ copy.header = "old"
      BY <2>2, <2>5 DEF Outcome, Base, Shows
    <3>2. interpretObservation(copy).noReorderingConfirmed
      BY <3>1 DEF interpretObservation
    <3>3. /\ verdicts'["journal"] = interpretObservation(copy)
          /\ verdicts'["ordered"] = verdicts["ordered"]
      BY <2>3, <2>5 DEF ARMS
    <3> QED
      BY <2>3, <2>5, <3>2, <3>3 DEF Settled, Overwritten
  <2> QED
    BY <2>3, <2>4, <2>5 DEF ARMS
<1> QED
  BY <1>2, <1>3, <1>4, <1>5, <1>6, <1>7, <1>8 DEF Tool

(* The invariant the verdict rests on.                                     *)
THEOREM SettledHolds == Spec => []Settled
<1>1. Timing /\ Settled /\ [Next]_vars => Settled'
  <2> SUFFICES ASSUME Timing, Settled, [Next]_vars PROVE Settled'
    OBVIOUS
  <2>1. CASE UNCHANGED vars
    BY <2>1 DEF vars, host, timers, disk, seen, Settled, Overwritten, Outcome
  <2>2. CASE Next
    BY <2>1, <2>2, SettledKernel, SettledTool DEF Next, Ended
  <2> QED
    BY <2>1, <2>2
<1> QED
  BY <1>1, SettledInit, TimingHolds, PTL DEF Spec

(* Where nothing else commits the journal the tool exits 0 exactly if the  *)
(* filesystem reorders: main's verdict is right, in both directions.       *)
THEOREM ExperimentDecides == Spec => []Decides
<1>1. Settled => Decides
  BY DEF Settled, Decides, Demonstrated
<1> QED
  BY <1>1, SettledHolds, PTL

=============================================================================
