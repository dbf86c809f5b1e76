------------------------- MODULE WritebackExperiment -------------------------
(***************************************************************************)
(* core/tools/ftruncate-vs-overwrite.ts: can an overwrite reach the disk   *)
(* while an earlier ftruncate that grew the file does not?  The tool does  *)
(* both on a mounted image, waits for the flusher, copies the device under *)
(* the mounted filesystem and looks at the copy; once with data=ordered    *)
(* and once, as the control, with data=journal.  What its answer is worth  *)
(* depends on a race with two kernel timers, and on a copy that is not     *)
(* atomic.  ext4 and the flusher are external, as the tool describes them. *)
(* A unit of time is 10 ms, the kernel's centisecond.                      *)
(***************************************************************************)
EXTENDS Naturals

CONSTANTS
    WRITEBACK_WAIT_MS,  \* how long the tool sleeps, in ms
    CommitInterval,     \* commit=300 of the mount, in units
    Expires, Wakeups,   \* the values /proc/sys/vm may have, in units
    Slack               \* bound on the time the other steps take

ASSUME WritebackAssumption ==
    /\ {WRITEBACK_WAIT_MS, CommitInterval, Slack} \subseteq Nat
    /\ Expires \subseteq Nat /\ Wakeups \subseteq Nat
    /\ CommitInterval * 10 > WRITEBACK_WAIT_MS + (Slack + Slack + 1) * 10

VARIABLES
    step,       \* where the tool is
    arm,        \* "ordered" or "journal"
    expire,     \* dirty_expire_centisecs
    wakeup,     \* dirty_writeback_centisecs; the flusher is off at 0
    quiet,      \* whether nothing else on the machine makes the journal commit
    reorders,   \* whether data=ordered lets the overwrite overtake the growth
    clock,      \* time since the arm began
    nextWake,   \* when the flusher wakes up
    grew,       \* when ftruncate returned
    overwrote,  \* when the overwrite returned
    dirty,      \* the overwritten page has not been written back
    device,     \* what a mount of the device would show: [grown, header]
    unread,     \* the parts of the device cp has not read
    copy,       \* what a mount of the copy shows
    verdicts    \* interpretObservation, by arm

host == <<expire, wakeup, quiet, reorders>>
timers == <<clock, nextWake, grew, overwrote>>
disk == <<dirty, device>>
seen == <<unread, copy, verdicts>>
vars == <<step, arm, host, timers, disk, seen>>

ARMS == {"ordered", "journal"}
HEADERS == {"old", "new"}
Shows(grown, header) == [grown |-> grown, header |-> header]
Base == Shows(FALSE, "old")
PARTS == {"grown", "header"}

(* Mutant: the length is not looked at.                                    *)
interpretHeader(observation) ==
    [reorderingObserved |-> observation.header = "new",
     noReorderingConfirmed |-> observation.header = "old"]

(* The pure judgment call, on whether the copy has the old length and what *)
(* its header is.  classifyHeader's third answer, ambiguous, is left out:  *)
(* the header lies in one sector, which is on the device old or new, and   *)
(* neither result is claimed of it anyway.                                 *)
interpretObservation(observation) ==
    [reorderingObserved |-> ~observation.grown /\ observation.header = "new",
     noReorderingConfirmed |-> ~observation.grown /\ observation.header = "old"]

Init ==
    /\ step = "check" /\ arm = "ordered"
    /\ expire \in Expires /\ wakeup \in Wakeups
    /\ quiet \in BOOLEAN /\ reorders \in BOOLEAN
    /\ clock = 0 /\ nextWake = 0 /\ grew = 0 /\ overwrote = 0
    /\ dirty = FALSE /\ device = Base
    /\ unread = {} /\ copy = Base
    /\ verdicts = [a \in ARMS |-> interpretObservation(Shows(TRUE, "old"))]

-----------------------------------------------------------------------------
(* The kernel.                                                             *)

Mounted == step \in {"grow", "overwrite", "wait", "copy"}

(* The bound on time: nothing but the sleep takes more than Slack.         *)
Latest == IF step \in {"grow", "overwrite"} THEN Slack
          ELSE overwrote + (WRITEBACK_WAIT_MS \div 10) + 1 + Slack

(* Time passes, but not past a wakeup of the flusher.                      *)
Tick ==
    /\ Mounted /\ clock < Latest
    /\ wakeup = 0 \/ clock < nextWake
    /\ clock' = clock + 1
    /\ UNCHANGED <<step, arm, host, nextWake, grew, overwrote, disk, seen>>

(* Writing the page back puts it in place.  Where data=ordered does not    *)
(* reorder, the size change is made durable before it; under data=journal  *)
(* both reach the disk with the commit and not before.                     *)
WriteBack ==
    /\ dirty' = FALSE
    /\ device' = IF arm = "journal" THEN device
                 ELSE Shows(device.grown \/ ~reorders, "new")

(* The flusher wakes up, and writes back what is older than the deadline.  *)
Wake ==
    /\ Mounted /\ wakeup > 0 /\ clock = nextWake
    /\ nextWake' = clock + wakeup
    /\ IF dirty /\ clock >= overwrote + expire THEN WriteBack ELSE UNCHANGED disk
    /\ UNCHANGED <<step, arm, host, clock, grew, overwrote, seen>>

(* Memory pressure writes a page back at any time.                         *)
WriteBackEarly ==
    /\ Mounted /\ dirty
    /\ WriteBack
    /\ UNCHANGED <<step, arm, host, timers, seen>>

(* The commit timer of the mount, or somebody else who asks.               *)
CommitDue == ~quiet \/ clock >= grew + CommitInterval

(* The transaction commits: the size change is durable, and under          *)
(* data=journal so is the page if it is in the transaction.                *)
Commit ==
    /\ step \in {"overwrite", "wait", "copy"}
    /\ CommitDue
    /\ device' = IF arm = "journal" /\ step # "overwrite" THEN Shows(TRUE, "new")
                 ELSE [device EXCEPT !.grown = TRUE]
    /\ UNCHANGED <<step, arm, host, timers, dirty, seen>>

-----------------------------------------------------------------------------
(* The tool.                                                               *)

(* Mutant: the wakeup after the deadline is left out.                      *)
writebackWaitNoWakeup(expireCs, wakeupCs, waitMs) == waitMs > expireCs * 10

(* The wait clears the deadline plus one wakeup past it.                   *)
writebackWaitIsSufficient(expireCs, wakeupCs, waitMs) == waitMs > (expireCs + wakeupCs) * 10

(* checkWritebackAssumption throws on a machine whose timers are too slow. *)
CheckWritebackAssumption ==
    /\ step = "check"
    /\ step' = IF writebackWaitIsSufficient(expire, wakeup, WRITEBACK_WAIT_MS)
               THEN "base" ELSE "failed"
    /\ UNCHANGED <<arm, host, timers, disk, seen>>

(* runExperiment: mkfs, mount, the durable base, and a global sync.  The   *)
(* flusher is anywhere in its period.                                      *)
WriteBase ==
    /\ step = "base"
    /\ clock' = 0 /\ nextWake' \in 0..wakeup
    /\ dirty' = FALSE /\ device' = Base
    /\ step' = "grow"
    /\ UNCHANGED <<arm, host, grew, overwrote, seen>>

(* The sequence under test: the file is grown, then its header overwritten.*)
Grow ==
    /\ step = "grow"
    /\ grew' = clock
    /\ step' = "overwrite"
    /\ UNCHANGED <<arm, host, clock, nextWake, overwrote, disk, seen>>

Overwrite ==
    /\ step = "overwrite"
    /\ overwrote' = clock
    /\ dirty' = TRUE
    /\ step' = "wait"
    /\ UNCHANGED <<arm, host, clock, nextWake, grew, device, seen>>

(* Mutant: the time the overwrite took is taken off the sleep.             *)
StartCopySooner ==
    /\ step = "wait" /\ (clock - grew) * 10 >= WRITEBACK_WAIT_MS
    /\ unread' = PARTS
    /\ step' = "copy"
    /\ UNCHANGED <<arm, host, timers, disk, copy, verdicts>>

(* The sleep is over and cp is started.                                    *)
StartCopy ==
    /\ step = "wait" /\ (clock - overwrote) * 10 >= WRITEBACK_WAIT_MS
    /\ unread' = PARTS
    /\ step' = "copy"
    /\ UNCHANGED <<arm, host, timers, disk, copy, verdicts>>

(* cp reads the inode and the journal from one place of the device and the *)
(* header from another, while the filesystem is mounted.                   *)
CopyPart ==
    /\ step = "copy"
    /\ \E part \in unread :
         /\ copy' = [copy EXCEPT ![part] = device[part]]
         /\ unread' = unread \ {part}
    /\ UNCHANGED <<step, arm, host, timers, disk, verdicts>>

(* The copy is mounted, which replays its journal, and judged; the control *)
(* follows.                                                                *)
Observe ==
    /\ step = "copy" /\ unread = {}
    /\ verdicts' = [verdicts EXCEPT ![arm] = interpretObservation(copy)]
    /\ arm' = "journal"
    /\ step' = IF arm = "ordered" THEN "base" ELSE "done"
    /\ UNCHANGED <<host, timers, disk, unread, copy>>

(* A command fails, and the exception ends the tool.                       *)
Throws ==
    /\ step \notin {"done", "failed"}
    /\ step' = "failed"
    /\ UNCHANGED <<arm, host, timers, disk, seen>>

Tool ==
    \/ CheckWritebackAssumption
    \/ WriteBase
    \/ Grow
    \/ Overwrite
    \/ StartCopy
    \/ CopyPart
    \/ Observe

Ended == step \in {"done", "failed"} /\ UNCHANGED vars

Next == Tool \/ Throws \/ Tick \/ Wake \/ WriteBackEarly \/ Commit \/ Ended

Spec == Init /\ [][Next]_vars

(* The process exits 0.                                                    *)
Demonstrated == verdicts["ordered"].reorderingObserved /\ verdicts["journal"].noReorderingConfirmed

-----------------------------------------------------------------------------

(* Types; the times are in order, and the sleep is not cut short.          *)
TypeOK ==
    /\ step \in {"check", "base", "grow", "overwrite", "wait", "copy", "done", "failed"}
    /\ arm \in ARMS
    /\ expire \in Expires /\ wakeup \in Wakeups
    /\ quiet \in BOOLEAN /\ reorders \in BOOLEAN /\ dirty \in BOOLEAN
    /\ {clock, nextWake, grew, overwrote} \subseteq Nat
    /\ step \in {"wait", "copy"} => grew <= overwrote /\ overwrote <= clock
    /\ step = "copy" => (clock - overwrote) * 10 >= WRITEBACK_WAIT_MS
    /\ {device, copy} \subseteq [grown : BOOLEAN, header : HEADERS]
    /\ unread \subseteq PARTS
    /\ verdicts \in [ARMS -> [reorderingObserved : BOOLEAN, noReorderingConfirmed : BOOLEAN]]

(* writebackWaitIsSufficient: "the wait has to clear the deadline plus one *)
(* more wakeup past it".  Wherever the flusher is in its period, once the  *)
(* check has passed the page is written back when the copy starts, so that *)
(* nothing moves under a copy that is not atomic.  (With the flusher off,  *)
(* at 0, the check passes and this does not hold.)                         *)
WaitSuffices == (step = "copy" /\ wakeup > 0) => ~dirty

(* On a machine where nothing else commits the journal, the experiment     *)
(* settles its question: it exits 0 exactly if the filesystem reorders.    *)
Decides == (step = "done" /\ quiet /\ wakeup > 0) => (Demonstrated <=> reorders)

=============================================================================
