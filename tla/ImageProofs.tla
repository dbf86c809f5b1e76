---------------------------- MODULE ImageProofs ----------------------------
(***************************************************************************)
(* What image.ts gives back, for every set of failing commands.            *)
(***************************************************************************)
EXTENDS Image, TLAPS

(* What is held at each command of withMount.                              *)
HeldAt ==
    /\ step \in {"create", "judge", "mkdtemp"} => attached = 0 /\ ~mounted /\ dirs = 0 /\ ~raised
    /\ step = "losetup" => attached = 0 /\ ~mounted /\ dirs = 1 /\ ~raised
    /\ step = "mount" => attached = 1 /\ ~mounted /\ dirs = 1 /\ ~raised
    /\ step \in {"chmod", "callback"} => attached = 1 /\ mounted /\ dirs = 1 /\ ~raised
    /\ step = "umount" => attached = 1 /\ mounted /\ dirs = 1
    /\ step = "detach" => attached = 1 /\ dirs = 1 /\ (mounted => raised)
    /\ step = "rm" => dirs = 1 /\ (~mounted => attached = 0) /\ (mounted => raised /\ attached = 1)

(* An image in hand is one of the campaign's.                              *)
InHand == step \notin {"create", "aborted", "killed"} => done < NumImages

(* What the image holds at each command.                                   *)
ContentAt ==
    /\ step = "create" => content = "none"
    /\ step \in {"mkdtemp", "losetup", "mount", "chmod", "callback"} /\ job = "populate" => content = "fresh"
    /\ step = "judge" => content = "recovered"
    /\ step \in {"mkdtemp", "losetup", "mount", "chmod", "callback"} /\ job = "recover" => content = "state"
    /\ (step \in {"umount", "detach", "rm"} /\ ~raised /\ job = "populate") => content = "state"
    /\ (step \in {"umount", "detach", "rm"} /\ ~raised /\ job = "recover") => content = "recovered"

ImageInv == TypeOK /\ HeldAt /\ InHand /\ ContentAt

LEMMA ImageInvInit == Init => ImageInv
<1> SUFFICES ASSUME Init PROVE ImageInv
  OBVIOUS
<1> USE DEF Init
<1>1. done \in 0..NumImages /\ attached \in 0..1 /\ dirs \in 0..1
  BY ImageAssumption
<1>2. TypeOK
  BY <1>1, Zenon DEF TypeOK
<1>3. HeldAt /\ InHand /\ ContentAt
  BY DEF HeldAt, InHand, ContentAt
<1>4. QED
  BY <1>2, <1>3 DEF ImageInv

LEMMA ImageInvNext == ImageInv /\ [Next]_vars => ImageInv'
<1> SUFFICES ASSUME ImageInv, [Next]_vars PROVE ImageInv'
  OBVIOUS
<1> USE ImageAssumption DEF ImageInv, TypeOK, HeldAt, InHand, ContentAt, Outcomes
<1>1. CASE CreateImage
  BY <1>1 DEF CreateImage
<1>2. CASE MakeDirectory
  BY <1>2 DEF MakeDirectory
<1>3. CASE Attach
  BY <1>3 DEF Attach
<1>4. CASE Mount
  <2>1. CASE step' = "chmod" /\ raised' = FALSE /\ mounted' = TRUE
    BY <1>4, <2>1 DEF Mount
  <2>2. CASE step' = "detach" /\ raised' = TRUE /\ mounted' = FALSE
    BY <1>4, <2>2 DEF Mount
  <2>3. \/ step' = "chmod" /\ raised' = FALSE /\ mounted' = TRUE
        \/ step' = "detach" /\ raised' = TRUE /\ mounted' = FALSE
    BY <1>4, Zenon DEF Mount
  <2>4. QED
    BY <2>1, <2>2, <2>3
<1>5. CASE Chmod
  BY <1>5 DEF Chmod
<1>6. CASE Callback
  BY <1>6 DEF Callback
<1>7. CASE Unmount
  BY <1>7 DEF Unmount
<1>8. CASE Detach
  BY <1>8 DEF Detach
<1>9. CASE RemoveDirectory
  BY <1>9 DEF RemoveDirectory, AfterMount
<1>10. CASE Judged
  BY <1>10 DEF Judged
<1>11. CASE Interrupt
  BY <1>11 DEF Interrupt
<1>12. CASE Ended \/ UNCHANGED vars
  BY <1>12 DEF Ended, vars
<1>13. QED
  BY <1>1, <1>2, <1>3, <1>4, <1>5, <1>6, <1>7, <1>8, <1>9, <1>10, <1>11, <1>12 DEF Next

(* The types hold whichever commands fail: in particular no more than one  *)
(* loop device and one directory are ever held, so withMount calls do not  *)
(* pile up (image.ts).                                                     *)
THEOREM ImageTypeCorrect == Spec => []TypeOK
<1>1. ImageInv => TypeOK
  BY DEF ImageInv
<1>2. QED
  BY <1>1, ImageInvInit, ImageInvNext, PTL DEF Spec

(* withMount hands recovery nothing but the whole state, and the oracle    *)
(* nothing but a recovery that ran, whichever commands fail (image.ts,     *)
(* campaign.ts).                                                           *)
THEOREM RecoveryIsOfTheState == Spec => []RecoversWholeState
<1>1. ImageInv => RecoversWholeState
  BY DEF ImageInv, ContentAt, RecoversWholeState
<1>2. QED
  BY <1>1, ImageInvInit, ImageInvNext, PTL DEF Spec

(* A campaign that goes on has given everything back, even if umount and   *)
(* detach may fail (image.ts).                                             *)
THEOREM LeaksStop == Spec => []LeakEndsCampaign
<1>1. ImageInv => LeakEndsCampaign
  BY DEF ImageInv, HeldAt, LeakEndsCampaign
<1>2. QED
  BY <1>1, ImageInvInit, ImageInvNext, PTL DEF Spec

-----------------------------------------------------------------------------

(* Cleaning up holds on to nothing, if the two commands it consists of     *)
(* have worked.                                                            *)
NothingLeft ==
    ~stuck => /\ step \in {"aborted", "rm"} => attached = 0
              /\ step \in {"aborted", "rm", "detach"} => ~mounted

(* withMount releases the device and the mount on every path out of it, as *)
(* long as umount and detach themselves have not failed (image.ts, the two *)
(* finally blocks).                                                        *)
THEOREM WithMountReleases == Spec => []Released
<1>1. Init => NothingLeft
  BY DEF Init, NothingLeft
<1>2. ImageInv /\ NothingLeft /\ [Next]_vars => NothingLeft'
  <2> SUFFICES ASSUME ImageInv, NothingLeft, [Next]_vars PROVE NothingLeft'
    OBVIOUS
  <2> USE DEF ImageInv, TypeOK, HeldAt, NothingLeft
  <2>1. CASE Unmount
    <3>1. step' = "detach" /\ (stuck' \/ mounted' = FALSE)
      BY <2>1, Zenon DEF Unmount
    <3>2. QED
      BY <3>1
  <2>2. CASE Detach
    <3>1. CASE stuck'
      BY <3>1
    <3>2. CASE ~stuck'
      <4>1. ~stuck /\ step' = "rm" /\ mounted' = mounted
        BY <2>2, <3>2, Zenon DEF Detach
      <4>2. attached' = attached - 1
        BY <2>2, <3>2, <4>1 DEF Detach
      <4>3. QED
        BY <2>2, <4>1, <4>2 DEF Detach
    <3>3. QED
      BY <3>1, <3>2
  <2>3. CASE Mount
    <3>1. \/ step' = "chmod"
          \/ step' = "detach" /\ mounted' = FALSE
      BY <2>3, Zenon DEF Mount, Outcomes
    <3>2. QED
      BY <3>1
  <2>4. CASE CreateImage \/ MakeDirectory \/ Attach \/ Chmod
    BY <2>4 DEF CreateImage, MakeDirectory, Attach, Chmod
  <2>5. CASE Callback \/ RemoveDirectory \/ Judged \/ Interrupt
    BY <2>5 DEF Callback, RemoveDirectory, AfterMount, Judged, Interrupt
  <2>6. CASE Ended \/ UNCHANGED vars
    BY <2>6 DEF Ended, vars
  <2>7. QED
    BY <2>1, <2>2, <2>3, <2>4, <2>5, <2>6 DEF Next
<1>3. ImageInv /\ NothingLeft => Released
  BY DEF ImageInv, HeldAt, NothingLeft, Released, AtRest
<1>4. QED
  BY <1>1, <1>2, <1>3, ImageInvInit, ImageInvNext, PTL DEF Spec

-----------------------------------------------------------------------------

(* The commands of image.ts implement the loop of campaign.ts: whatever    *)
(* fails or is killed, every step is a step of StateTesting or invisible   *)
(* to it.                                                                  *)
THEOREM ImageTestsStates == Spec => TestsStates
<1> USE DEF Stage
<1>1. Init => Loop!Init
  BY ImageAssumption DEF Init, Loop!Init
<1>2. ImageInv /\ [Next]_vars => [Loop!Next]_(Loop!vars)
  <2> SUFFICES ASSUME ImageInv, [Next]_vars
               PROVE Loop!Next \/ UNCHANGED Loop!vars
    BY DEF Loop!vars
  <2> USE ImageAssumption DEF ImageInv, TypeOK, HeldAt, InHand, ContentAt, Outcomes, Loop!vars
  <2>1. CASE CreateImage
    <3>1. CASE step' = "mkdtemp"
      BY <2>1, <3>1 DEF CreateImage, Loop!Next, Loop!Make
    <3>2. CASE step' # "mkdtemp"
      BY <2>1, <3>2 DEF CreateImage, Loop!Next, Loop!Stop
    <3>3. QED
      BY <3>1, <3>2
  <2>2. CASE MakeDirectory
    BY <2>2 DEF MakeDirectory
  <2>3. CASE Attach
    BY <2>3 DEF Attach, Loop!Next, Loop!Stop
  <2>4. CASE Mount
    BY <2>4 DEF Mount, Loop!Next, Loop!Stop
  <2>5. CASE Chmod
    BY <2>5 DEF Chmod, Loop!Next, Loop!Stop
  <2>6. CASE Callback
    <3>1. CASE raised'
      BY <2>6, <3>1 DEF Callback, Loop!Next, Loop!Stop
    <3>2. CASE ~raised' /\ job = "populate"
      BY <2>6, <3>2 DEF Callback, Loop!Next, Loop!Populate
    <3>3. CASE ~raised' /\ job = "recover"
      BY <2>6, <3>3 DEF Callback, Loop!Next, Loop!Recover
    <3>4. QED
      BY <3>1, <3>2, <3>3, <2>6 DEF Callback
  <2>7. CASE Unmount
    BY <2>7 DEF Unmount, Loop!Next, Loop!Stop
  <2>8. CASE Detach
    BY <2>8 DEF Detach, Loop!Next, Loop!Stop
  <2>9. CASE RemoveDirectory
    BY <2>9 DEF RemoveDirectory, AfterMount
  <2>10. CASE Judged
    BY <2>10 DEF Judged, Loop!Next, Loop!Judge
  <2>11. CASE Interrupt
    BY <2>11 DEF Interrupt, Loop!Next, Loop!Stop
  <2>12. CASE Ended \/ UNCHANGED vars
    BY <2>12 DEF Ended, vars
  <2>13. QED
    BY <2>1, <2>2, <2>3, <2>4, <2>5, <2>6, <2>7, <2>8, <2>9, <2>10, <2>11, <2>12 DEF Next
<1>3. QED
  BY <1>1, <1>2, ImageInvInit, ImageInvNext, PTL DEF Spec, TestsStates, Loop!Safety

=============================================================================
