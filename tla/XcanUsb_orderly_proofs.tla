------------------------ MODULE XcanUsb_orderly_proofs ------------------------
(***************************************************************************)
(* Theorems about the USB transport and a host that has no transfer        *)
(* pending when it sets the configuration: then the link works by turns,   *)
(* and nothing is dropped or overtaken.                                    *)
(***************************************************************************)
EXTENDS XcanUsb_proofs

(* The usb task works on a request of the present connection.              *)
Engaged == Busy /\ generation = connectionGeneration

(* At most one of host, endpoint and task has its turn on a connection     *)
(* that is served: the OUT endpoint waits for a packet, or has one, or a   *)
(* request waits, or the task is at work, or a response is on its way.     *)
TurnInv ==
  enabled =>
    /\ outArmed => outPacket = None
    /\ outArmed \/ outPacket # None => inState = "idle" /\ ~ready /\ ~Engaged
    /\ inState # "idle" => ~ready /\ ~Engaged
    /\ ready => ~Engaged

(* A reset is granted for a complete update, and while it waits for the    *)
(* end of its response no command runs that could begin another.           *)
RebootInv ==
  /\ reboot => pc = "send" /\ fwComplete
  /\ rebootAfterTx => /\ enabled /\ fwComplete /\ inState # "idle"
                      /\ pc # "dispatch"

----------------------------------------------------------------------------
(* Every step passes the turn on or takes the connection down.             *)
LEMMA TurnInvStep ==
  ASSUME ~LateCompletions, BaseInv, OrderInv, TurnInv, [Next]_vars
  PROVE  TurnInv'
<1>1. connectionGeneration \in Nat /\ generation \in Nat
  BY BoundsAssumption DEF BaseInv, TypeOK, UsbTypes, TaskTypes
<1>2. CASE OutDone
  BY <1>2 DEF OutDone, OutIgnored, StopReceiving, ArmOut, CompleteRequest, TurnInv,
     Engaged, Busy, taskVars
<1>3. CASE InDone
  BY <1>3 DEF InDone, ArmOut, TurnInv, Engaged, Busy, taskVars
<1>4. CASE BusReset
  BY <1>4 DEF BusReset, TurnInv
<1>5. CASE Configure
  <2>1. /\ outPacket = None /\ outPacket' = None /\ inState' = "idle" /\ ~ready'
        /\ connectionGeneration' = connectionGeneration + 1
        /\ UNCHANGED <<pc, generation>>
    BY <1>5 DEF Configure, NoIrq, ClearLink, BaseInv, TypeOK, EndpointTypes, taskVars
  <2>2. ~Engaged'
    BY <1>1, <2>1 DEF OrderInv, Engaged, Busy
  <2> QED BY <2>1, <2>2 DEF TurnInv
<1>6. CASE Deconfigure \/ HostIn \/ ConfirmImage \/ UNCHANGED vars
  BY <1>6 DEF Deconfigure, HostIn, ConfirmImage, vars, usbVars, epVars, taskVars,
     TurnInv, Engaged, Busy
<1>7. ASSUME NEW p \in Packets, HostOut(p) PROVE TurnInv'
  BY <1>7 DEF HostOut, usbVars, taskVars, TurnInv, Engaged, Busy
<1>8. CASE TakeNotification
  BY <1>8 DEF TakeNotification, usbVars, epVars, TurnInv, Engaged, Busy
<1>9. CASE WorkTake
  BY <1>9 DEF WorkTake, IdleTask, epVars, TurnInv, Engaged, Busy
<1>10. CASE WorkPrepare
  BY <1>10 DEF WorkPrepare, IdleTask, epVars, TurnInv, Engaged, Busy
<1>11. CASE Dispatch
  BY <1>11 DEF Dispatch, usbVars, epVars, TurnInv, Engaged, Busy
<1>12. CASE WorkSend
  <2>1. ~Engaged' /\ UNCHANGED <<ready, outArmed, outPacket>>
    BY <1>12 DEF WorkSend, IdleTask, Engaged, Busy
  <2>2. CASE inState' = inState /\ (enabled' => enabled)
    BY <2>1, <2>2 DEF TurnInv
  <2>3. CASE response # None /\ SameConnection /\ enabled' = enabled
    <3>1. Engaged
      BY <1>12, <2>3 DEF WorkSend, SameConnection, Engaged, Busy
    <3> QED BY <2>1, <2>3, <3>1 DEF TurnInv
  <2>4. enabled' => enabled
    BY <1>12 DEF WorkSend
  <2>5. inState' = inState \/ (response # None /\ SameConnection /\ enabled' = enabled)
    BY <1>12 DEF WorkSend
  <2> QED BY <2>2, <2>3, <2>4, <2>5
<1> QED BY <1>2, <1>3, <1>4, <1>5, <1>6, <1>7, <1>8, <1>9, <1>10, <1>11, <1>12
   DEF Next, Interrupt, BusEvent, Host, UsbTask

(* Only a command could take the complete update away, and no command gets *)
(* its turn while the response to FW_REBOOT is on its way.                 *)
LEMMA RebootInvStep ==
  ASSUME BaseInv, ResponseInv, TurnInv, RebootInv, [Next]_vars
  PROVE  RebootInv'
<1>1. CASE OutDone
  <2>1. ~rebootAfterTx
    BY <1>1 DEF OutDone, RebootInv, TurnInv
  <2>2. UNCHANGED <<rebootAfterTx, reboot, pc, fwComplete>>
    BY <1>1 DEF OutDone, taskVars, fwVars
  <2> QED BY <2>1, <2>2 DEF RebootInv
<1>2. CASE InDone
  BY <1>2 DEF InDone, RebootInv, taskVars, fwVars
<1>3. CASE BusReset \/ Configure
  <2>1. ~rebootAfterTx' /\ UNCHANGED <<pc, reboot, fwComplete>>
    BY <1>3 DEF BusReset, Configure, ClearLink, taskVars, fwVars
  <2> QED BY <2>1 DEF RebootInv
<1>4. CASE Deconfigure \/ HostIn \/ ConfirmImage \/ UNCHANGED vars
  BY <1>4 DEF Deconfigure, HostIn, ConfirmImage, vars, usbVars, epVars, taskVars,
     fwVars, RebootInv
<1>5. ASSUME NEW p \in Packets, HostOut(p) PROVE RebootInv'
  BY <1>5 DEF HostOut, usbVars, taskVars, fwVars, RebootInv
<1>6. CASE TakeNotification
  BY <1>6 DEF TakeNotification, usbVars, epVars, fwVars, RebootInv
<1>7. CASE WorkTake
  BY <1>7 DEF WorkTake, IdleTask, epVars, fwVars, RebootInv
<1>8. CASE WorkPrepare
  <2>1. pc' = "dispatch" => Engaged /\ enabled
    BY <1>8 DEF WorkPrepare, IdleTask, OpenSession, Refuse, Accept, SameConnection,
       Engaged, Busy
  <2>2. rebootAfterTx => ~Engaged
    BY DEF RebootInv, TurnInv
  <2> QED BY <1>8, <2>1, <2>2 DEF WorkPrepare, IdleTask, epVars, fwVars, RebootInv
<1>9. CASE Dispatch
  <2>1. ~rebootAfterTx /\ ~rebootAfterTx' /\ pc' = "send"
    BY <1>9 DEF Dispatch, RebootInv, usbVars, BaseInv, TypeOK, FlagTypes
  <2>2. PICK status \in Status :
          /\ CASE work.op = "FW_BEGIN" -> FwBegin(status)
               [] work.op = "FW_FINISH" -> FwFinish(status)
               [] OTHER -> FwOther(status)
          /\ reboot' = (work.op = "FW_REBOOT" /\ status = 0)
    BY <1>9 DEF Dispatch
  <2>3. reboot' => work.op = "FW_REBOOT" /\ status = 0
    BY <2>2
  <2>4. reboot' => fwComplete'
    <3>1. work.op = "FW_REBOOT" => FwOther(status)
      BY <2>2
    <3>2. ASSUME work.op = "FW_REBOOT", status = 0 PROVE fwComplete'
      BY <3>1, <3>2 DEF FwOther, BaseInv, TypeOK, FlagTypes
    <3> QED BY <2>3, <3>2
  <2> QED BY <2>1, <2>4 DEF RebootInv
<1>10. CASE WorkSend
  <2>1. pc' = "wait" /\ ~reboot' /\ UNCHANGED fwComplete
    BY <1>10 DEF WorkSend, IdleTask, fwVars
  <2>2. CASE UNCHANGED <<rebootAfterTx, inState>>
    <3>1. rebootAfterTx => ~Engaged /\ enabled
      BY DEF RebootInv, TurnInv
    <3>2. enabled /\ ~Engaged => enabled'
      BY <1>10, <2>2 DEF WorkSend, Engaged, Busy, SameConnection
    <3> QED BY <2>1, <2>2, <3>1, <3>2 DEF RebootInv
  <2>3. CASE SameConnection /\ rebootAfterTx' = reboot /\ inState' = "armed" /\ UNCHANGED enabled
    BY <2>1, <2>3 DEF RebootInv, SameConnection
  <2>4. CASE ~rebootAfterTx'
    BY <2>1, <2>4 DEF RebootInv
  <2> QED BY <1>10, <2>2, <2>3, <2>4 DEF WorkSend
<1> QED BY <1>1, <1>2, <1>3, <1>4, <1>5, <1>6, <1>7, <1>8, <1>9, <1>10
   DEF Next, Interrupt, BusEvent, Host, UsbTask

(* At first the device is not configured and nobody has a turn.            *)
LEMMA OrderlyInit ==
  ASSUME Init
  PROVE  BaseInv /\ OrderInv /\ ResponseInv /\ TurnInv /\ RebootInv
<1>1. TurnInv /\ RebootInv
  BY DEF Init, TurnInv, RebootInv
<1> QED BY <1>1, BaseInvInit, OrderInvInit, ResponseInvInit

(* What the two theorems follow from is kept by every step.                *)
LEMMA OrderlyStep ==
  ASSUME ~LateCompletions, BaseInv, OrderInv, ResponseInv, TurnInv, RebootInv,
         [Next]_vars
  PROVE  BaseInv' /\ OrderInv' /\ ResponseInv' /\ TurnInv' /\ RebootInv'
BY BaseInvStep, OrderInvStep, ResponseInvStep, TurnInvStep, RebootInvStep

----------------------------------------------------------------------------
(* Without late completions no packet arrives while a request waits, so    *)
(* out_done drops nothing on a connection that is served.                  *)
THEOREM OrderlyHostLosesNothing ==
  ASSUME ~LateCompletions
  PROVE  Spec => []NothingDropped
<1> DEFINE Inv == BaseInv /\ OrderInv /\ ResponseInv /\ TurnInv /\ RebootInv
<1>1. Init => Inv
  BY OrderlyInit
<1>2. Inv /\ [Next]_vars => Inv'
  BY OrderlyStep
<1>3. Inv => NothingDropped
  BY DEF TurnInv, NothingDropped
<1> QED BY <1>1, <1>2, <1>3, PTL DEF Spec

(* Without late completions the reset at the end of FW_REBOOT's response   *)
(* finds the update as complete as the command found it: no FW_BEGIN runs  *)
(* in between.                                                             *)
THEOREM OrderlyRebootIsComplete ==
  ASSUME ~LateCompletions
  PROVE  Spec => []RebootOnlyComplete
<1> DEFINE Inv == BaseInv /\ OrderInv /\ ResponseInv /\ TurnInv /\ RebootInv
<1>1. Init => Inv
  BY OrderlyInit
<1>2. Inv /\ [Next]_vars => Inv'
  BY OrderlyStep
<1>3. Inv => RebootOnlyComplete
  BY DEF RebootInv, RebootOnlyComplete
<1> QED BY <1>1, <1>2, <1>3, PTL DEF Spec
=============================================================================
