-------------------------- MODULE FwUpdate_refines --------------------------
(***************************************************************************)
(* FwUpdate implements BootSpec: for every geometry of the flash, every    *)
(* set of images and every partial effect of a failing operation, what     *)
(* commands, failures, confirmation and boot do to the image that runs is  *)
(* what the register allows.                                               *)
(***************************************************************************)
EXTENDS FwUpdate_proofs

(* An image cannot be taken for another in the same slot:                  *)
(* their first doublewords differ.                                         *)
LEMMA HeldOnce ==
  ASSUME NEW i \in Images, NEW j \in Images, Holds(i), Holds(j)
  PROVE  i = j
<1>1. 0 \in 0 .. (Length[i] - 1) /\ 0 \in 0 .. (Length[j] - 1)
  BY Geometry
<1>2. sec[PageWords + 0] = <<i, 0>> /\ sec[PageWords + 0] = <<j, 0>>
  BY <1>1 DEF Holds
<1> QED BY <1>2

(* A scheduled image is an image, and the one the slot holds.              *)
LEMMA ScheduledIs ==
  ASSUME PendingVerified
  PROVE  /\ trailer # "good" => Scheduled = None
         /\ trailer = "good" => Scheduled \in Images
         /\ \A i \in HeaderImages : trailer = "good" /\ Holds(i) => Scheduled = i
<1>1. trailer # "good" => Scheduled = None
  BY DEF Scheduled
<1>2. ASSUME trailer = "good"
      PROVE  Scheduled \in HeaderImages /\ Holds(Scheduled)
  <2>1. \E i \in HeaderImages : Holds(i)
    BY <1>2 DEF PendingVerified
  <2>2. Scheduled = CHOOSE i \in HeaderImages : Holds(i)
    BY <1>2 DEF Scheduled
  <2> QED BY <2>1, <2>2
<1> QED BY <1>1, <1>2, HeldOnce, ImagesAssumption

(* So is one that a step schedules.                                        *)
LEMMA ScheduledNext ==
  ASSUME PendingVerified', trailer' = "good"
  PROVE  Scheduled' \in Images
<1>1. \E i \in HeaderImages : Holds(i)'
  BY DEF PendingVerified
<1>2. Scheduled' = CHOOSE i \in HeaderImages : Holds(i)'
  BY DEF Scheduled
<1> QED BY <1>1, <1>2, ImagesAssumption

(* A step that leaves slot and trailer alone schedules nothing.            *)
LEMMA ScheduledKept ==
  ASSUME UNCHANGED <<sec, trailer>>
  PROVE  Scheduled' = Scheduled
BY DEF Scheduled, Holds

(* A step whose mode is the application's, or power off, is one the        *)
(* register calls a step in the application.                               *)
LEMMA InTheApplication ==
  ASSUME Running
  PROVE  Register!InApp
BY DEF Register!InApp, RegisterMode, Running

(* An application step that changes neither image nor trailer.             *)
LEMMA ResetMapped ==
  ASSUME Running, Scheduled' = Scheduled, UNCHANGED bootVars
  PROVE  Register!Next
<1>1. UNCHANGED <<primary, OnTrial, backup>>
  BY DEF bootVars, OnTrial
<1> QED BY <1>1, InTheApplication DEF Register!Next, Register!Reset

(* One that leaves no image scheduled.                                     *)
LEMMA WithdrawMapped ==
  ASSUME Running, trailer' # "good", UNCHANGED bootVars
  PROVE  Register!Next
<1>1. UNCHANGED <<primary, OnTrial, backup>>
  BY DEF bootVars, OnTrial
<1>2. Scheduled' = None
  BY DEF Scheduled
<1> QED BY <1>1, <1>2, InTheApplication DEF Register!Next, Register!Withdraw

----------------------------------------------------------------------------
(* A command schedules the verified image, withdraws one, or does neither. *)
LEMMA CommandMapped ==
  ASSUME IInv, PendingVerified', Command
  PROVE  Register!Next
<1>1. ASSUME NEW sz \in 0 .. ImageMax, NEW h \in Images, Begin(sz, h)
      PROVE  Register!Next
  <2>1. Running /\ sec' = sec /\ UNCHANGED bootVars /\ trailer' \in HalfErasedTrailer
    BY <1>1 DEF Begin, HalfErasedTrailer
  <2>2. CASE trailer' = "good"
    <3>1. trailer' = trailer
      BY <2>1, <2>2 DEF HalfErasedTrailer
    <3> QED BY <2>1, <3>1, ScheduledKept, ResetMapped
  <2> QED BY <2>1, <2>2, WithdrawMapped
<1>2. ASSUME Active, Running, trailer' = trailer, UNCHANGED bootVars
      PROVE  Register!Next
  BY <1>2, WithdrawMapped DEF IInv, PhaseInv
<1>3. CASE Step
  BY <1>2, <1>3 DEF Step, Active
<1>4. ASSUME NEW offset \in 0 .. ImageMax, NEW length \in 0 .. ChunkMax,
             NEW img \in Images,
             Write(offset, length, img) \/ WriteAgain(offset, length, img)
      PROVE  Register!Next
  BY <1>2, <1>4 DEF Write, WriteAgain, WriteAllowed, Active, flashVars
<1>5. CASE Finish
  <2>1. Running /\ UNCHANGED bootVars /\ primaryState # "test"
    BY <1>5 DEF Finish, FinishAllowed, IInv, PhaseInv
  <2>2. CASE trailer' = "good"
    <3>1. Scheduled' \in Images
      BY <2>2, ScheduledNext
    <3>2. UNCHANGED <<primary, OnTrial, backup>> /\ ~OnTrial
      BY <2>1 DEF bootVars, OnTrial
    <3> QED BY <2>1, <3>1, <3>2, InTheApplication DEF Register!Next, Register!Schedule
  <2> QED BY <2>1, <2>2, WithdrawMapped
<1>6. CASE FinishRefused \/ Abort
  BY <1>6, ScheduledKept, ResetMapped DEF FinishRefused, Abort, flashVars
<1> QED BY <1>1, <1>3, <1>4, <1>5, <1>6 DEF Command

(* The main task ends the trial, and power may be lost at any moment.      *)
LEMMA ConfirmationMapped ==
  ASSUME IInv, Confirmation \/ PowerCut
  PROVE  Register!Next
<1>1. CASE ConfirmStart \/ PowerCut
  BY <1>1, ScheduledKept, ResetMapped DEF ConfirmStart, PowerCut, flashVars
<1>2. CASE ConfirmDone \/ ConfirmFails
  <2>1. Running /\ UNCHANGED <<sec, trailer, primary, backup>>
        /\ primaryState' \in {primaryState, "ok"}
    BY <1>2 DEF ConfirmDone, ConfirmFails, flashVars
  <2>2. CASE primaryState' = primaryState
    BY <2>1, <2>2, ScheduledKept, ResetMapped DEF bootVars
  <2>3. CASE primaryState' = "ok"
    <3>1. OnTrial' = FALSE
      BY <2>3 DEF OnTrial
    <3> QED BY <2>1, <3>1, ScheduledKept, InTheApplication
         DEF Register!Next, Register!Confirm
  <2> QED BY <2>1, <2>2, <2>3
<1> QED BY <1>1, <1>2 DEF Confirmation

(* A boot takes the scheduled image, goes back from one on trial, or       *)
(* starts the one that is there.                                           *)
LEMMA BootMapped ==
  ASSUME IInv, Boot
  PROVE  Register!Next
<1>1. mode = "off" /\ mode' = "app"
  BY DEF Boot, BootTest, BootReject, BootRevert, BootPlain, Booted
<1>2. RegisterMode = "boot" /\ RegisterMode' = "app"
  BY <1>1 DEF RegisterMode, Running
<1>3. trailer' # "good"
  BY DEF Boot, BootTest, BootReject, BootRevert, BootPlain, flashVars
<1>4. Scheduled' = None
  BY <1>3 DEF Scheduled
<1>5. Register!AppStarts
  BY <1>2, <1>4 DEF Register!AppStarts
<1>6. ASSUME NEW i \in Images, BootTest(i) PROVE Register!Next
  <2>1. /\ i \in SignedImages /\ i \in HeaderImages /\ Holds(i) /\ trailer = "good"
        /\ primary' = i /\ primaryState' = "test" /\ backup' = primary
    BY <1>6, ImagesAssumption DEF BootTest, Bootable
  <2>2. Scheduled = i
    BY <2>1, ScheduledIs DEF IInv
  <2>3. OnTrial' = TRUE
    BY <2>1 DEF OnTrial
  <2> QED BY <1>5, <2>1, <2>2, <2>3 DEF Register!Next, Register!BootNew
<1>7. CASE BootRevert
  <2>1. trailer # "good" /\ OnTrial /\ OnTrial' = FALSE /\ primary' = sec[0][1]
        /\ backup' = backup
    BY <1>7 DEF BootRevert, OnTrial
  <2>2. 0 \in 0 .. (Length[backup] - 1)
    BY Geometry DEF IInv, TypeOK, BootTypes
  <2>3. sec[0] = <<backup, 0>>
    BY <2>1, <2>2 DEF IInv, RollbackIntact, OnTrial
  <2>4. Scheduled = None
    BY <2>1 DEF Scheduled
  <2> QED BY <1>5, <2>1, <2>3, <2>4 DEF Register!Next, Register!BootBack
<1>8. CASE BootReject \/ BootPlain
  <2>1. primaryState # "test" /\ UNCHANGED bootVars
    BY <1>8 DEF BootReject, BootPlain, IInv, RollbackIntact
  <2>2. ~OnTrial /\ UNCHANGED <<primary, OnTrial, backup>>
    BY <2>1 DEF OnTrial, bootVars
  <2> QED BY <1>5, <2>2 DEF Register!Next, Register!BootSame
<1> QED BY <1>6, <1>7, <1>8 DEF Boot

----------------------------------------------------------------------------
(* The update implements the register: an image changes only at a boot, to *)
(* one that FW_FINISH has verified and the boot loader accepts, or back to *)
(* the one it replaced.                                                    *)
THEOREM UpdateImplementsBoot == Spec => Implements
<1>1. Init => IInv
  BY IInvInit
<1>2. IInv /\ [Next]_vars => IInv'
  BY IInvStep
<1>3. Init => Register!Init
  BY DEF Init, Register!Init, RegisterMode, Running, OnTrial, Scheduled
<1>4. IInv /\ IInv' /\ [Next]_vars => [Register!Next]_(Register!vars)
  <2> SUFFICES ASSUME IInv, IInv', [Next]_vars
               PROVE  Register!Next \/ UNCHANGED Register!vars
    OBVIOUS
  <2>1. CASE Next
    BY <2>1, CommandMapped, ConfirmationMapped, BootMapped DEF Next, IInv
  <2>2. CASE UNCHANGED vars
    <3>1. UNCHANGED <<mode, sec, trailer, primary, primaryState, backup>>
      BY <2>2 DEF vars, flashVars, bootVars
    <3>2. UNCHANGED <<RegisterMode, OnTrial>>
      BY <3>1 DEF RegisterMode, Running, OnTrial
    <3> QED BY <3>1, <3>2, ScheduledKept DEF Register!vars
  <2> QED BY <2>1, <2>2
<1> QED BY <1>1, <1>2, <1>3, <1>4, PTL DEF Spec, Implements, Register!Spec
=============================================================================
