-------------------------------- MODULE Image --------------------------------
(***************************************************************************)
(* core/src/image/image.ts as runCampaign drives it: for each state an     *)
(* image is made, populated inside one withMount and recovered from inside *)
(* another.  Any command may fail; what matters is what the two nested     *)
(* finally blocks give back and in which order.  losetup, mount and rm are *)
(* external.                                                               *)
(***************************************************************************)
EXTENDS Naturals

CONSTANTS
    Failing,      \* the commands that may fail
    NumImages,    \* how many states the campaign has
    Interrupts    \* whether the process may be killed

COMMANDS == {"mkfs", "losetup", "mount", "chmod", "callback", "umount", "detach"}

ASSUME ImageAssumption == Failing \subseteq COMMANDS /\ NumImages \in Nat /\ Interrupts \in BOOLEAN

VARIABLES
    step,      \* the next command
    job,       \* what withMount is called for: "populate" or "recover"
    raised,    \* an exception is on its way up
    done,      \* how many images are finished
    content,   \* what the current image holds
    attached,  \* loop devices attached
    mounted,   \* whether the image is mounted on the current directory
    dirs,      \* mount directories on disk
    stuck      \* history: a command of the cleanup itself has failed

vars == <<step, job, raised, done, content, attached, mounted, dirs, stuck>>

Init ==
    /\ step = "create" /\ job = "populate" /\ raised = FALSE
    /\ done = 0 /\ content = "none"
    /\ attached = 0 /\ mounted = FALSE /\ dirs = 0 /\ stuck = FALSE

(* A command either works, or fails where it may.                          *)
Outcomes(command) == IF command \in Failing THEN BOOLEAN ELSE {TRUE}

(* createImage: a sparse file with a fresh filesystem in it.               *)
CreateImage ==
    /\ step = "create" /\ done < NumImages
    /\ \E ok \in Outcomes("mkfs") :
         /\ step' = IF ok THEN "mkdtemp" ELSE "aborted"
         /\ content' = IF ok THEN "fresh" ELSE "none"
    /\ job' = "populate"
    /\ UNCHANGED <<raised, done, attached, mounted, dirs, stuck>>

(* withMount: mkdtempSync, outside of both try blocks.                     *)
MakeDirectory ==
    /\ step = "mkdtemp"
    /\ dirs' = dirs + 1
    /\ step' = "losetup"
    /\ UNCHANGED <<job, raised, done, content, attached, mounted, stuck>>

(* ... and so is losetup.                                                  *)
Attach ==
    /\ step = "losetup"
    /\ \E ok \in Outcomes("losetup") :
         /\ step' = IF ok THEN "mount" ELSE "aborted"
         /\ attached' = IF ok THEN attached + 1 ELSE attached
    /\ UNCHANGED <<job, raised, done, content, mounted, dirs, stuck>>

(* Mutant: a failed mount leaves without the finally block.                *)
MountOutsideTry ==
    /\ step = "mount"
    /\ \E ok \in Outcomes("mount") :
         /\ step' = IF ok THEN "chmod" ELSE "aborted"
         /\ mounted' = ok
    /\ UNCHANGED <<job, raised, done, content, attached, dirs, stuck>>

(* The outer try block.                                                    *)
Mount ==
    /\ step = "mount"
    /\ \E ok \in Outcomes("mount") :
         /\ step' = IF ok THEN "chmod" ELSE "detach"
         /\ raised' = ~ok
         /\ mounted' = ok
    /\ UNCHANGED <<job, done, content, attached, dirs, stuck>>

(* The inner try block: chmod, then the caller's function, which replays   *)
(* the state or runs the target's recovery.                                *)
Chmod ==
    /\ step = "chmod"
    /\ \E ok \in Outcomes("chmod") :
         /\ step' = IF ok THEN "callback" ELSE "umount"
         /\ raised' = ~ok
    /\ UNCHANGED <<job, done, content, attached, mounted, dirs, stuck>>

Callback ==
    /\ step = "callback"
    /\ \E ok \in Outcomes("callback") :
         /\ raised' = ~ok
         /\ content' = IF job = "populate" THEN IF ok THEN "state" ELSE "part" ELSE "recovered"
    /\ step' = "umount"
    /\ UNCHANGED <<job, done, attached, mounted, dirs, stuck>>

(* The inner finally.                                                      *)
Unmount ==
    /\ step = "umount"
    /\ \E ok \in Outcomes("umount") :
         /\ mounted' = ~ok
         /\ raised' = (raised \/ ~ok)
         /\ stuck' = (stuck \/ ~ok)
    /\ step' = "detach"
    /\ UNCHANGED <<job, done, content, attached, dirs>>

(* The outer finally.  Detaching a device in use succeeds and takes effect *)
(* when it is no longer in use.                                            *)
Detach ==
    /\ step = "detach"
    /\ \E ok \in Outcomes("detach") :
         /\ attached' = IF ok /\ ~mounted THEN attached - 1 ELSE attached
         /\ raised' = (raised \/ ~ok)
         /\ stuck' = (stuck \/ ~ok)
         /\ step' = IF ok THEN "rm" ELSE "aborted"
    /\ UNCHANGED <<job, done, content, mounted, dirs>>

(* What follows withMount.                                                 *)
AfterMount == IF job = "populate" THEN "mkdtemp" ELSE "judge"

(* Mutant: withMount swallows the exception of its callback.               *)
RemoveDirectorySwallows ==
    /\ step = "rm"
    /\ dirs' = IF mounted THEN dirs ELSE dirs - 1
    /\ content' = IF mounted THEN "wiped" ELSE content
    /\ step' = AfterMount
    /\ job' = "recover"
    /\ raised' = FALSE
    /\ UNCHANGED <<done, attached, mounted, stuck>>

(* Mutant: the directory is left on disk.                                  *)
RemoveDirectoryKeeps ==
    /\ step = "rm"
    /\ step' = IF raised THEN "aborted" ELSE AfterMount
    /\ job' = "recover"
    /\ UNCHANGED <<raised, done, content, attached, mounted, dirs, stuck>>

(* rmSync, recursive: a directory that is still a mount point loses what   *)
(* is in it, and cannot be removed itself.                                 *)
RemoveDirectory ==
    /\ step = "rm"
    /\ dirs' = IF mounted THEN dirs ELSE dirs - 1
    /\ content' = IF mounted THEN "wiped" ELSE content
    /\ step' = IF raised \/ mounted THEN "aborted" ELSE AfterMount
    /\ job' = IF raised \/ mounted THEN job ELSE "recover"
    /\ UNCHANGED <<raised, done, attached, mounted, stuck>>

(* The oracle is asked and the next state begins.                          *)
Judged ==
    /\ step = "judge"
    /\ done' = done + 1
    /\ step' = "create"
    /\ content' = "none"
    /\ UNCHANGED <<job, raised, attached, mounted, dirs, stuck>>

(* The process is killed: it installs no handler, so no finally block runs.*)
Interrupt ==
    /\ Interrupts /\ step \notin {"aborted", "killed"}
    /\ step' = "killed"
    /\ UNCHANGED <<job, raised, done, content, attached, mounted, dirs, stuck>>

Ended ==
    /\ step \in {"aborted", "killed"} \/ (step = "create" /\ done = NumImages)
    /\ UNCHANGED vars

Next ==
    \/ CreateImage
    \/ MakeDirectory
    \/ Attach
    \/ Mount
    \/ Chmod
    \/ Callback
    \/ Unmount
    \/ Detach
    \/ RemoveDirectory
    \/ Judged
    \/ Interrupt
    \/ Ended

Spec == Init /\ [][Next]_vars

-----------------------------------------------------------------------------

(* Types, and the directories are those of withMount calls that ended      *)
(* early, or of the one that runs.                                         *)
TypeOK ==
    /\ step \in {"create", "mkdtemp", "losetup", "mount", "chmod", "callback", "umount",
                 "detach", "rm", "judge", "aborted", "killed"}
    /\ job \in {"populate", "recover"}
    /\ raised \in BOOLEAN /\ mounted \in BOOLEAN /\ stuck \in BOOLEAN
    /\ done \in 0..NumImages
    /\ content \in {"none", "fresh", "part", "state", "recovered", "wiped"}
    /\ attached \in 0..1 /\ dirs \in 0..1

(* Outside of withMount, or once an exception has left it.                 *)
AtRest == step \in {"create", "judge", "aborted"}

(* How far the state in hand is: an exception on its way up has already    *)
(* ended the loop, though commands of the cleanup still follow.            *)
Stage ==
    IF raised \/ step \in {"aborted", "killed"} THEN "stopped"
    ELSE CASE content = "none" -> "next"
           [] content \in {"fresh", "part", "wiped"} -> "made"
           [] content = "state" -> "whole"
           [] content = "recovered" -> "recovered"

Loop == INSTANCE StateTesting WITH left <- NumImages - done, stage <- Stage

(* The commands of image.ts, failing wherever they may, amount to the loop *)
(* of campaign.ts: every state is made, populated, recovered from and      *)
(* judged once and in order, and no cleanup lets it go on after an         *)
(* exception, or judge a state twice.                                      *)
TestsStates == Loop!Safety

(* image.ts: withMount "always unmounts and detaches the loop device,      *)
(* including when the callback throws".  At rest nothing is attached or    *)
(* mounted, on whichever path withMount was left, unless umount or detach  *)
(* itself has failed.                                                      *)
Released == (AtRest /\ ~stuck) => attached = 0 /\ ~mounted

(* Recovery is run against exactly the state: never against an image whose *)
(* replay failed, and the oracle only judges a recovery that ran.          *)
RecoversWholeState ==
    /\ (step = "callback" /\ job = "recover") => content = "state"
    /\ step = "judge" => content = "recovered"

(* A device or a directory left behind ends the campaign: it goes on only  *)
(* with a clean host, so one campaign leaves at most one of each.          *)
LeakEndsCampaign == step \in {"create", "judge"} => attached = 0 /\ ~mounted /\ dirs = 0

=============================================================================
