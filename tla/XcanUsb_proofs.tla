--------------------------- MODULE XcanUsb_proofs ---------------------------
(***************************************************************************)
(* Theorems about the USB transport of XcanUsb.tla, for every message      *)
(* alphabet, packet and buffer size, session modulus and number of bus     *)
(* events that satisfy the assumptions of that module.                     *)
(***************************************************************************)
EXTENDS XcanUsb, SequenceTheorems, TLAPS

(* The reception state: Reassembly, and a request that waits on a          *)
(* connection still served is not empty, so that usb_work may look at its  *)
(* first byte.                                                             *)
ReceptionInv == Reassembly /\ (enabled /\ ready => expected > 0)

(* Between the first section of usb_work and the command, the task has a   *)
(* decoded message.                                                        *)
WorkInv == pc \in {"prepare", "dispatch"} => work \in Message

----------------------------------------------------------------------------
(* Facts about messages and partly received requests.                      *)

(* A packet is a sequence of cells of at most PacketSize of them.          *)
LEMMA PacketIsCells ==
  ASSUME NEW p \in Packets
  PROVE  p \in Seq(Cell) /\ Len(p) \in Nat
<1>1. [msg : Messages, at : Nat] \subseteq Cell
  BY TrafficAssumption DEF Cell
<1>2. p \in Seq([msg : Messages, at : Nat])
  BY TrafficAssumption
<1>3. p \in Seq(Cell)
  BY <1>1, <1>2, SeqMonotonic
<1> QED BY <1>3, LenProperties

(* No byte has been received.                                              *)
LEMMA NoCells == <<>> \in Seq(Cell) /\ Len(<<>>) = 0
  BY EmptySeq

(* The record out_done writes over a request that does not fit is a        *)
(* request of the length of a v1 record.                                   *)
LEMMA MalformedIsCells ==
  MalformedRequest \in Seq(Cell) /\ Len(MalformedRequest) = V1Len
<1>1. Malformed \in Message
  BY SizesAssumption, BoundsAssumption DEF Malformed, Message, Opcodes
<1>2. \A i \in 1 .. V1Len : [msg |-> Malformed, at |-> i] \in Cell
  BY <1>1, SizesAssumption DEF Cell
<1>3. MalformedRequest = [i \in 1 .. V1Len |-> [msg |-> Malformed, at |-> i]]
  BY DEF MalformedRequest, Wire, Malformed
<1> QED BY <1>2, <1>3, SizesAssumption

(* set_expected returns a length; when it leaves it open, the header is    *)
(* not complete yet.                                                       *)
LEMMA SetExpectedResult ==
  ASSUME NEW req \in Seq(Cell), NEW exp \in 0 .. MaxMessage
  PROVE  /\ SetExpected(req, exp) \in Nat
         /\ SetExpected(req, exp) = 0 => exp = 0 /\ Len(req) < HeaderLen
         /\ exp # 0 => SetExpected(req, exp) = exp
<1>1. Len(req) \in Nat /\ MaxMessage \in Nat
  BY LenProperties, SizesAssumption
<1>2. CASE exp # 0 \/ Len(req) < VersionLen
  BY <1>1, <1>2, SizesAssumption DEF SetExpected
<1>3. CASE ~(exp # 0 \/ Len(req) < VersionLen) /\ Len(req) < HeaderLen
  BY <1>1, <1>3, SizesAssumption DEF SetExpected
<1>4. CASE ~(exp # 0 \/ Len(req) < VersionLen) /\ ~(Len(req) < HeaderLen)
  <2>1. req[HeaderLen] \in Cell
    BY <1>1, <1>4, ElementOfSeq, SizesAssumption
  <2>2. req[HeaderLen].msg.length \in Nat /\ req[HeaderLen].msg.length >= HeaderLen
    BY <2>1 DEF Cell, Message
  <2>3. DeclaredLength(req) \in Nat \ {0}
    BY <2>2, SizesAssumption DEF DeclaredLength
  <2> QED BY <1>4, <2>3, SizesAssumption DEF SetExpected
<1> QED BY <1>2, <1>3, <1>4

(* A request that waits on a live connection begins with a cell.           *)
LEMMA FirstCell ==
  ASSUME TypeOK, ReceptionInv, enabled, ready
  PROVE  request[1] \in Cell
<1>1. Len(request) = expected /\ expected > 0
  BY DEF ReceptionInv, Reassembly
<1> QED BY <1>1, ElementOfSeq, SizesAssumption DEF TypeOK, UsbTypes

(* The session counter stays in its range, skips 0 and moves.              *)
LEMMA NextSessionResult ==
  ASSUME sessionGeneration \in 0 .. (SessionMod - 1)
  PROVE  /\ NextSession \in 1 .. (SessionMod - 1)
         /\ NextSession # sessionGeneration
<1>1. CASE sessionGeneration + 1 < SessionMod
  <2>1. (sessionGeneration + 1) % SessionMod = sessionGeneration + 1
    BY <1>1, BoundsAssumption
  <2> QED BY <2>1, <1>1, BoundsAssumption DEF NextSession
<1>2. CASE sessionGeneration + 1 = SessionMod
  <2>1. (sessionGeneration + 1) % SessionMod = 0
    BY <1>2, BoundsAssumption
  <2> QED BY <2>1, <1>2, BoundsAssumption DEF NextSession
<1> QED BY <1>1, <1>2, BoundsAssumption

----------------------------------------------------------------------------
(* Type correctness and the reception state, one lemma for each group of   *)
(* actions.                                                                *)

(* The variables start in their types, with nothing received.              *)
LEMMA InitTypes ==
  ASSUME Init
  PROVE  TypeOK /\ ReceptionInv
<1>1. request = <<>> /\ Len(request) = 0 /\ request \in Seq(Cell)
  BY NoCells DEF Init
<1>2. FlagTypes
  BY DEF Init, FlagTypes
<1>3. UsbTypes
  BY <1>1, SizesAssumption, BoundsAssumption DEF Init, UsbTypes
<1>4. TaskTypes
  BY BoundsAssumption DEF Init, TaskTypes
<1>5. EndpointTypes
  BY DEF Init, EndpointTypes
<1>6. HistoryTypes
  BY BoundsAssumption DEF Init, HistoryTypes
<1>7. ReceptionInv
  BY <1>1, SizesAssumption DEF Init, ReceptionInv, Reassembly
<1> QED BY <1>2, <1>3, <1>4, <1>5, <1>6, <1>7 DEF TypeOK

(* An interrupt of the OUT endpoint appends a packet, completes the        *)
(* request, or gives it up, and leaves a well-formed reception state.      *)
LEMMA OutDoneTypes ==
  ASSUME TypeOK, ReceptionInv, OutDone
  PROVE  TypeOK' /\ ReceptionInv'
<1> DEFINE req == request \o outPacket
           exp == SetExpected(req, expected)
<1>1. outPacket \in Seq(Cell) /\ Len(outPacket) \in Nat
  BY PacketIsCells DEF TypeOK, EndpointTypes, OutDone
<1>2. Len(request) \in Nat /\ Len(request) <= MaxMessage
  BY LenProperties DEF TypeOK, UsbTypes, ReceptionInv, Reassembly
<1>3. req \in Seq(Cell) /\ Len(req) = Len(request) + Len(outPacket)
  BY <1>1, ConcatProperties DEF TypeOK, UsbTypes
<1>4. /\ exp \in Nat
      /\ exp = 0 => expected = 0 /\ Len(req) < HeaderLen
      /\ expected # 0 => exp = expected
  BY <1>3, SetExpectedResult DEF TypeOK, UsbTypes
<1>5. FlagTypes'
  BY DEF OutDone, StopReceiving, ArmOut, CompleteRequest, TypeOK, FlagTypes,
         taskVars, fwVars
<1>6. TaskTypes'
  BY DEF OutDone, TypeOK, TaskTypes, taskVars
<1>7. EndpointTypes'
  BY DEF OutDone, TypeOK, EndpointTypes
<1>8. HistoryTypes'
  BY DEF OutDone, TypeOK, HistoryTypes
<1> SUFFICES /\ request' \in Seq(Cell) /\ expected' \in 0 .. MaxMessage
             /\ ReceptionInv'
  <2>1. ASSUME request' \in Seq(Cell), expected' \in 0 .. MaxMessage
        PROVE  UsbTypes'
    BY <2>1 DEF OutDone, TypeOK, UsbTypes
  <2> QED BY <2>1, <1>5, <1>6, <1>7, <1>8 DEF TypeOK
<1>9. CASE OutIgnored
           /\ UNCHANGED <<enabled, ready, notified, request, expected, outArmed>>
  BY <1>9 DEF TypeOK, UsbTypes, ReceptionInv, Reassembly
<1>10. CASE CompleteRequest(MalformedRequest, V1Len)
  BY <1>10, MalformedIsCells, SizesAssumption
     DEF CompleteRequest, ReceptionInv, Reassembly
<1>11. CASE StopReceiving /\ ~OutIgnored
  BY <1>11, NoCells, SizesAssumption
     DEF StopReceiving, OutIgnored, ReceptionInv, Reassembly
<1>12. CASE /\ ~OutIgnored /\ ~Overflows(outPacket)
            /\ exp = 0 \/ (exp \in 1 .. MaxMessage /\ Len(req) < exp)
            /\ ArmOut(TRUE, req, exp)
            /\ UNCHANGED <<ready, notified>>
  <2>1. Len(req) <= MaxMessage /\ exp \in 0 .. MaxMessage
    BY <1>1, <1>2, <1>3, <1>4, <1>12, SizesAssumption DEF Overflows
  <2>2. ~ready /\ ~ready'
    BY <1>12 DEF OutIgnored
  <2>3. CASE enabled' = TRUE /\ request' = req /\ expected' = exp
    BY <2>1, <2>2, <2>3, <1>3, <1>4, <1>12, SizesAssumption
       DEF ReceptionInv, Reassembly
  <2>4. CASE enabled' = FALSE /\ request' = <<>> /\ expected' = 0
    BY <2>2, <2>4, NoCells, SizesAssumption DEF ReceptionInv, Reassembly
  <2> QED BY <2>3, <2>4, <1>12 DEF ArmOut
<1>13. CASE /\ exp \in 1 .. MaxMessage /\ Len(req) = exp
            /\ CompleteRequest(req, exp)
  BY <1>13, <1>3, SizesAssumption
     DEF CompleteRequest, ReceptionInv, Reassembly
<1> QED BY <1>9, <1>10, <1>11, <1>12, <1>13 DEF OutDone

(* The end of an IN transfer arms the OUT endpoint or resets the device.   *)
LEMMA InDoneTypes ==
  ASSUME TypeOK, ReceptionInv, InDone
  PROVE  TypeOK' /\ ReceptionInv'
<1>1. \/ UNCHANGED <<request, expected, enabled>>
      \/ request' = <<>> /\ expected' = 0 /\ enabled' = FALSE
      \/ request' = request /\ expected' = expected /\ enabled' = TRUE /\ enabled
  BY DEF InDone, ArmOut
<1>2. UsbTypes'
  <2>1. CASE request' = request /\ expected' = expected
    BY <2>1 DEF InDone, TypeOK, UsbTypes
  <2>2. CASE request' = <<>> /\ expected' = 0
    BY <2>2, NoCells, SizesAssumption DEF InDone, TypeOK, UsbTypes
  <2> QED BY <2>1, <2>2, <1>1
<1>7. FlagTypes'
  BY DEF InDone, ArmOut, TypeOK, FlagTypes, taskVars, fwVars
<1>3. TaskTypes'
  BY DEF InDone, TypeOK, TaskTypes, taskVars
<1>4. EndpointTypes'
  BY DEF InDone, ArmOut, TypeOK, EndpointTypes
<1>5. HistoryTypes'
  BY DEF InDone, TypeOK, HistoryTypes, fwVars, auxVars
<1>6. ReceptionInv'
  BY <1>1, NoCells, SizesAssumption DEF InDone, TypeOK, UsbTypes, ReceptionInv, Reassembly
<1> QED BY <1>2, <1>3, <1>4, <1>5, <1>6, <1>7 DEF TypeOK

(* The bus events.                                                         *)
LEMMA BusEventTypes ==
  ASSUME TypeOK, ReceptionInv, BusEvent
  PROVE  TypeOK' /\ ReceptionInv'
<1>1. CASE BusReset
  <2>1. FlagTypes'
    BY <1>1 DEF BusReset, ClearLink, StaleAfterEvent, taskVars, fwVars,
       TypeOK, FlagTypes
  <2>2. UsbTypes'
    BY <1>1, NoCells, SizesAssumption, BoundsAssumption DEF BusReset,
       ClearLink, StaleAfterEvent, taskVars, fwVars, TypeOK, UsbTypes
  <2>3. TaskTypes'
    BY <1>1 DEF BusReset, ClearLink, StaleAfterEvent, taskVars, fwVars,
       TypeOK, TaskTypes
  <2>4. EndpointTypes'
    BY <1>1 DEF BusReset, ClearLink, StaleAfterEvent, taskVars, fwVars,
       TypeOK, EndpointTypes
  <2>5. HistoryTypes'
    BY <1>1 DEF BusReset, ClearLink, StaleAfterEvent, taskVars, fwVars,
       TypeOK, HistoryTypes
  <2>6. ReceptionInv'
    BY <1>1, NoCells, SizesAssumption DEF BusReset, ClearLink,
       StaleAfterEvent, taskVars, fwVars, ReceptionInv, Reassembly
  <2> QED BY <2>1, <2>2, <2>3, <2>4, <2>5, <2>6 DEF TypeOK
<1>2. CASE Configure
  <2>1. FlagTypes'
    BY <1>2 DEF Configure, ClearLink, StaleAfterEvent, ArmOut, taskVars,
       fwVars, TypeOK, FlagTypes
  <2>2. UsbTypes'
    <3>1. request' = <<>> /\ expected' = 0
      BY <1>2 DEF Configure, ArmOut
    <3>2. connectionGeneration' \in 0 .. MaxGeneration
      BY <1>2, BoundsAssumption DEF Configure, ClearLink, TypeOK, UsbTypes
    <3>3. session' = 0 /\ lastRequestId' = 0 /\ UNCHANGED sessionGeneration
      BY <1>2 DEF Configure, ClearLink
    <3> QED BY <3>1, <3>2, <3>3, NoCells, SizesAssumption, BoundsAssumption
            DEF TypeOK, UsbTypes
  <2>3. TaskTypes'
    BY <1>2 DEF Configure, ClearLink, StaleAfterEvent, ArmOut, taskVars,
       fwVars, TypeOK, TaskTypes
  <2>4. EndpointTypes'
    BY <1>2 DEF Configure, ClearLink, StaleAfterEvent, ArmOut, taskVars,
       fwVars, TypeOK, EndpointTypes
  <2>5. HistoryTypes'
    BY <1>2 DEF Configure, ClearLink, StaleAfterEvent, ArmOut, taskVars,
       fwVars, TypeOK, HistoryTypes
  <2>6. ReceptionInv'
    BY <1>2, NoCells, SizesAssumption DEF Configure, ClearLink,
       StaleAfterEvent, ArmOut, taskVars, fwVars, ReceptionInv, Reassembly
  <2> QED BY <2>1, <2>2, <2>3, <2>4, <2>5, <2>6 DEF TypeOK
<1>3. CASE Deconfigure
  <2>1. FlagTypes'
    BY <1>3 DEF Deconfigure, usbVars, taskVars, fwVars, auxVars, TypeOK,
       FlagTypes
  <2>2. UsbTypes'
    BY <1>3 DEF Deconfigure, usbVars, taskVars, fwVars, auxVars, TypeOK,
       UsbTypes
  <2>3. TaskTypes'
    BY <1>3 DEF Deconfigure, usbVars, taskVars, fwVars, auxVars, TypeOK,
       TaskTypes
  <2>4. EndpointTypes'
    BY <1>3 DEF Deconfigure, usbVars, taskVars, fwVars, auxVars, TypeOK,
       EndpointTypes
  <2>5. HistoryTypes'
    BY <1>3 DEF Deconfigure, usbVars, taskVars, fwVars, auxVars, TypeOK,
       HistoryTypes
  <2>6. ReceptionInv'
    BY <1>3 DEF Deconfigure, usbVars, taskVars, fwVars, auxVars,
       ReceptionInv, Reassembly
  <2> QED BY <2>1, <2>2, <2>3, <2>4, <2>5, <2>6 DEF TypeOK
<1> QED BY <1>1, <1>2, <1>3 DEF BusEvent

(* The host's transfers.                                                   *)
LEMMA HostTypes ==
  ASSUME TypeOK, ReceptionInv, Host
  PROVE  TypeOK' /\ ReceptionInv'
<1>1. CASE HostIn
  <2>1. FlagTypes'
    BY <1>1 DEF HostIn, usbVars, taskVars, fwVars, TypeOK, FlagTypes
  <2>2. UsbTypes'
    BY <1>1 DEF HostIn, usbVars, taskVars, fwVars, TypeOK, UsbTypes
  <2>3. TaskTypes'
    BY <1>1 DEF HostIn, usbVars, taskVars, fwVars, TypeOK, TaskTypes
  <2>4. EndpointTypes'
    BY <1>1 DEF HostIn, usbVars, taskVars, fwVars, TypeOK, EndpointTypes
  <2>5. HistoryTypes'
    BY <1>1 DEF HostIn, usbVars, taskVars, fwVars, TypeOK, HistoryTypes
  <2>6. ReceptionInv'
    BY <1>1 DEF HostIn, usbVars, taskVars, fwVars, ReceptionInv,
       Reassembly
  <2> QED BY <2>1, <2>2, <2>3, <2>4, <2>5, <2>6 DEF TypeOK
<1>2. ASSUME NEW p \in Packets, HostOut(p)
      PROVE  TypeOK' /\ ReceptionInv'
  <2>1. FlagTypes'
    BY <1>2 DEF HostOut, usbVars, taskVars, fwVars, TypeOK, FlagTypes
  <2>2. UsbTypes'
    BY <1>2 DEF HostOut, usbVars, taskVars, fwVars, TypeOK, UsbTypes
  <2>3. TaskTypes'
    BY <1>2 DEF HostOut, usbVars, taskVars, fwVars, TypeOK, TaskTypes
  <2>4. EndpointTypes'
    BY <1>2 DEF HostOut, usbVars, taskVars, fwVars, TypeOK, EndpointTypes
  <2>5. HistoryTypes'
    BY <1>2 DEF HostOut, usbVars, taskVars, fwVars, TypeOK, HistoryTypes
  <2>6. ReceptionInv'
    BY <1>2 DEF HostOut, usbVars, taskVars, fwVars, ReceptionInv,
       Reassembly
  <2> QED BY <2>1, <2>2, <2>3, <2>4, <2>5, <2>6 DEF TypeOK
<1> QED BY <1>1, <1>2 DEF Host

(* An answer of this connection is a response; an event has none.          *)
LEMMA ReplyTypes ==
  ASSUME TypeOK, work \in Message, NEW status \in Status
  PROVE  /\ Reply(status) \in Response
         /\ Encoded(Reply(status)) \in Response \cup {None}
<1>1. generation \in Nat
  BY BoundsAssumption DEF TypeOK, TaskTypes
<1>2. Reply(status) \in Response
  BY <1>1 DEF Reply, Response, Message
<1> QED BY <1>2 DEF Encoded

(* The task finds nothing to do, or takes the request.                     *)
LEMMA WorkTakeTypes ==
  ASSUME TypeOK, ReceptionInv, WorkTake
  PROVE  TypeOK' /\ ReceptionInv'
<1>1. CASE IdleTask /\ UNCHANGED <<ready, request, expected, stale>>
  <2>1. FlagTypes'
    BY <1>1 DEF WorkTake, IdleTask, epVars, fwVars, TypeOK, FlagTypes
  <2>2. UsbTypes'
    BY <1>1 DEF WorkTake, IdleTask, epVars, fwVars, TypeOK, UsbTypes
  <2>3. TaskTypes'
    BY <1>1, BoundsAssumption DEF WorkTake, IdleTask, epVars, fwVars,
       TypeOK, TaskTypes
  <2>4. EndpointTypes'
    BY <1>1 DEF WorkTake, IdleTask, epVars, fwVars, TypeOK, EndpointTypes
  <2>5. HistoryTypes'
    BY <1>1 DEF WorkTake, IdleTask, epVars, fwVars, TypeOK, HistoryTypes
  <2>6. ReceptionInv'
    BY <1>1 DEF WorkTake, IdleTask, epVars, fwVars, ReceptionInv,
       Reassembly
  <2> QED BY <2>1, <2>2, <2>3, <2>4, <2>5, <2>6 DEF TypeOK
<1>2. CASE /\ enabled /\ ready /\ configured
           /\ ~(IdleTask /\ UNCHANGED <<ready, request, expected, stale>>)
  <2>1. FlagTypes'
    BY <1>2 DEF WorkTake, epVars, fwVars, TypeOK, FlagTypes
  <2>2. UsbTypes'
    BY <1>2, NoCells, SizesAssumption DEF WorkTake, epVars, fwVars,
       TypeOK, UsbTypes
  <2>3. TaskTypes'
    <3>1. request[1].msg \in Message
      BY <1>2, FirstCell DEF Cell
    <3>2. V1Reply \in Response
      BY BoundsAssumption DEF V1Reply, Response, Opcodes, Status, TypeOK, UsbTypes
    <3> QED BY <1>2, <3>1, <3>2 DEF WorkTake, TypeOK, TaskTypes, UsbTypes
  <2>4. EndpointTypes'
    BY <1>2 DEF WorkTake, epVars, fwVars, TypeOK, EndpointTypes
  <2>5. HistoryTypes'
    BY <1>2 DEF WorkTake, epVars, fwVars, TypeOK, HistoryTypes
  <2>6. ReceptionInv'
    BY <1>2, NoCells, SizesAssumption DEF WorkTake, epVars, fwVars,
       ReceptionInv, Reassembly
  <2> QED BY <2>1, <2>2, <2>3, <2>4, <2>5, <2>6 DEF TypeOK
<1> QED BY <1>1, <1>2 DEF WorkTake

(* prepare_v2 opens a session, refuses, or accepts.                        *)
LEMMA WorkPrepareTypes ==
  ASSUME TypeOK, ReceptionInv, WorkInv, WorkPrepare
  PROVE  TypeOK' /\ ReceptionInv'
<1>1. work \in Message
  BY DEF WorkInv, WorkPrepare
<1>2. FlagTypes'
  BY DEF WorkPrepare, IdleTask, epVars, fwVars, TypeOK, FlagTypes
<1>3. UsbTypes'
  <2>1. /\ sessionGeneration' \in 0 .. (SessionMod - 1)
        /\ session' \in 0 .. (SessionMod - 1) /\ lastRequestId' \in Nat
    <3>1. CASE OpenSession
      BY <1>1, <3>1, NextSessionResult, BoundsAssumption
         DEF OpenSession, Message, TypeOK, UsbTypes
    <3>2. CASE Refuse
      BY <3>2 DEF Refuse, TypeOK, UsbTypes
    <3>3. CASE Accept
      BY <1>1, <3>3 DEF Accept, Message, TypeOK, UsbTypes
    <3>4. CASE UNCHANGED <<sessionGeneration, session, lastRequestId>>
      BY <3>4 DEF TypeOK, UsbTypes
    <3> QED BY <3>1, <3>2, <3>3, <3>4 DEF WorkPrepare
  <2> QED BY <2>1 DEF WorkPrepare, TypeOK, UsbTypes
<1>4. TaskTypes'
  <2>1. CASE IdleTask
    BY <2>1, BoundsAssumption DEF IdleTask, TaskTypes
  <2>2. CASE OpenSession /\ UNCHANGED <<work, generation, reboot, stale>>
    <3>1. [Reply(0) EXCEPT !.session = NextSession] \in Response
      <4>1. Reply(0) \in Response
        BY <1>1, ReplyTypes DEF Status
      <4>2. NextSession \in 0 .. (SessionMod - 1)
        BY NextSessionResult, BoundsAssumption DEF TypeOK, UsbTypes
      <4> QED BY <4>1, <4>2 DEF Response
    <3> QED BY <2>2, <3>1 DEF OpenSession, TypeOK, TaskTypes
  <2>3. CASE Refuse /\ UNCHANGED <<work, generation, reboot, stale>>
    <3>1. Refusal \in Status
      BY DEF Refusal, Status
    <3> QED BY <1>1, <2>3, <3>1, ReplyTypes DEF Refuse, TypeOK, TaskTypes
  <2>4. CASE Accept /\ UNCHANGED <<work, generation, reboot, stale>>
    BY <2>4 DEF Accept, TypeOK, TaskTypes
  <2> QED BY <2>1, <2>2, <2>3, <2>4 DEF WorkPrepare
<1>5. EndpointTypes'
  BY DEF WorkPrepare, epVars, TypeOK, EndpointTypes
<1>6. HistoryTypes'
  BY DEF WorkPrepare, TypeOK, HistoryTypes
<1>7. ReceptionInv'
  BY DEF WorkPrepare, ReceptionInv, Reassembly
<1> QED BY <1>2, <1>3, <1>4, <1>5, <1>6, <1>7 DEF TypeOK

(* The command, and its response.                                          *)
LEMMA DispatchTypes ==
  ASSUME TypeOK, ReceptionInv, WorkInv, Dispatch
  PROVE  TypeOK' /\ ReceptionInv'
<1>1. work \in Message
  BY DEF WorkInv, Dispatch
<1>2. FlagTypes'
  <2>1. reboot' \in BOOLEAN
    BY DEF Dispatch
  <2>2. fwComplete' \in BOOLEAN
    BY DEF Dispatch, FwBegin, FwFinish, FwOther, TypeOK, FlagTypes
  <2> QED BY <2>1, <2>2 DEF Dispatch, usbVars, epVars, TypeOK, FlagTypes
<1>3. UsbTypes'
  BY DEF Dispatch, usbVars, TypeOK, UsbTypes
<1>4. TaskTypes'
  BY <1>1, ReplyTypes DEF Dispatch, TypeOK, TaskTypes
<1>5. EndpointTypes'
  BY DEF Dispatch, epVars, TypeOK, EndpointTypes
<1>6. HistoryTypes'
  BY <1>1 DEF Dispatch, Message, TypeOK, TaskTypes, HistoryTypes
<1>7. ReceptionInv'
  BY DEF Dispatch, usbVars, ReceptionInv, Reassembly
<1> QED BY <1>2, <1>3, <1>4, <1>5, <1>6, <1>7 DEF TypeOK

(* The response is handed to the endpoint, or dropped.                     *)
LEMMA WorkSendTypes ==
  ASSUME TypeOK, ReceptionInv, WorkSend
  PROVE  TypeOK' /\ ReceptionInv'
<1>1. FlagTypes'
  BY DEF WorkSend, IdleTask, fwVars, TypeOK, FlagTypes
<1>2. UsbTypes'
  BY DEF WorkSend, TypeOK, UsbTypes
<1>3. TaskTypes'
  BY BoundsAssumption DEF WorkSend, IdleTask, TaskTypes
<1>4. EndpointTypes'
  BY DEF WorkSend, TypeOK, TaskTypes, EndpointTypes
<1>5. HistoryTypes'
  BY DEF WorkSend, TypeOK, HistoryTypes
<1>6. ReceptionInv'
  <2>1. enabled' => enabled
    BY DEF WorkSend
  <2> QED BY <2>1 DEF WorkSend, ReceptionInv, Reassembly
<1> QED BY <1>1, <1>2, <1>3, <1>4, <1>5, <1>6 DEF TypeOK

(* Waking up, and the main task's confirmation.                            *)
LEMMA WakeConfirmTypes ==
  ASSUME TypeOK, ReceptionInv, TakeNotification \/ ConfirmImage
  PROVE  TypeOK' /\ ReceptionInv'
<1>1. CASE TakeNotification
  <2>1. FlagTypes'
    BY <1>1 DEF TakeNotification, usbVars, epVars, fwVars, auxVars,
       TypeOK, FlagTypes
  <2>2. UsbTypes'
    BY <1>1 DEF TakeNotification, usbVars, epVars, fwVars, auxVars,
       TypeOK, UsbTypes
  <2>3. TaskTypes'
    BY <1>1 DEF TakeNotification, usbVars, epVars, fwVars, auxVars,
       TypeOK, TaskTypes
  <2>4. EndpointTypes'
    BY <1>1 DEF TakeNotification, usbVars, epVars, fwVars, auxVars,
       TypeOK, EndpointTypes
  <2>5. HistoryTypes'
    BY <1>1 DEF TakeNotification, usbVars, epVars, fwVars, auxVars,
       TypeOK, HistoryTypes
  <2>6. ReceptionInv'
    BY <1>1 DEF TakeNotification, usbVars, epVars, fwVars, auxVars,
       ReceptionInv, Reassembly
  <2> QED BY <2>1, <2>2, <2>3, <2>4, <2>5, <2>6 DEF TypeOK
<1>2. CASE ConfirmImage
  <2>1. FlagTypes'
    BY <1>2 DEF ConfirmImage, usbVars, taskVars, epVars, auxVars, TypeOK,
       FlagTypes
  <2>2. UsbTypes'
    BY <1>2 DEF ConfirmImage, usbVars, taskVars, epVars, auxVars, TypeOK,
       UsbTypes
  <2>3. TaskTypes'
    BY <1>2 DEF ConfirmImage, usbVars, taskVars, epVars, auxVars, TypeOK,
       TaskTypes
  <2>4. EndpointTypes'
    BY <1>2 DEF ConfirmImage, usbVars, taskVars, epVars, auxVars, TypeOK,
       EndpointTypes
  <2>5. HistoryTypes'
    BY <1>2 DEF ConfirmImage, usbVars, taskVars, epVars, auxVars, TypeOK,
       HistoryTypes
  <2>6. ReceptionInv'
    BY <1>2 DEF ConfirmImage, usbVars, taskVars, epVars, auxVars,
       ReceptionInv, Reassembly
  <2> QED BY <2>1, <2>2, <2>3, <2>4, <2>5, <2>6 DEF TypeOK
<1> QED BY <1>1, <1>2

(* The task's message through every step.                                  *)
LEMMA WorkInvStep ==
  ASSUME TypeOK, ReceptionInv, WorkInv, [Next]_vars
  PROVE  WorkInv'
<1>1. CASE WorkTake
  <2>1. CASE enabled /\ ready
    <3>1. request[1].msg \in Message
      BY <2>1, FirstCell DEF Cell
    <3> QED BY <1>1, <3>1 DEF WorkTake, IdleTask, WorkInv
  <2>2. CASE ~(enabled /\ ready)
    BY <1>1, <2>2 DEF WorkTake, IdleTask, WorkInv
  <2> QED BY <2>1, <2>2
<1>2. CASE TakeNotification
  BY <1>2 DEF TakeNotification, WorkInv
<1>3. CASE WorkPrepare
  BY <1>3 DEF WorkPrepare, IdleTask, OpenSession, Refuse, Accept, WorkInv
<1>4. CASE Dispatch
  BY <1>4 DEF Dispatch, WorkInv
<1>5. CASE WorkSend
  BY <1>5 DEF WorkSend, IdleTask, WorkInv
<1>6. CASE UNCHANGED taskVars
  BY <1>6 DEF taskVars, WorkInv
<1>7. CASE Interrupt \/ BusEvent \/ Host \/ ConfirmImage \/ UNCHANGED vars
  BY <1>6, <1>7 DEF Interrupt, OutDone, InDone, BusEvent, BusReset, Configure,
     Deconfigure, Host, HostIn, HostOut, ConfirmImage, vars
<1> QED BY <1>1, <1>2, <1>3, <1>4, <1>5, <1>7 DEF Next, UsbTask

(* Types, the reception state and the task's message are an inductive      *)
(* invariant of the transport.                                             *)
BaseInv == TypeOK /\ ReceptionInv /\ WorkInv

(* It holds at first.                                                      *)
LEMMA BaseInvInit ==
  ASSUME Init
  PROVE  BaseInv
<1>1. WorkInv
  BY DEF Init, WorkInv
<1> QED BY <1>1, InitTypes DEF BaseInv

(* Every step of the transport, its environment and the main task keeps it. *)
LEMMA BaseInvStep ==
  ASSUME BaseInv, [Next]_vars
  PROVE  BaseInv'
<1>1. TypeOK' /\ ReceptionInv'
  <2>1. CASE Interrupt
    BY <2>1, OutDoneTypes, InDoneTypes DEF BaseInv, Interrupt
  <2>2. CASE BusEvent
    BY <2>2, BusEventTypes DEF BaseInv
  <2>3. CASE Host
    BY <2>3, HostTypes DEF BaseInv
  <2>4. CASE UsbTask
    BY <2>4, WakeConfirmTypes, WorkTakeTypes, WorkPrepareTypes, DispatchTypes,
       WorkSendTypes DEF BaseInv, UsbTask
  <2>5. CASE ConfirmImage
    BY <2>5, WakeConfirmTypes DEF BaseInv
  <2>6. CASE UNCHANGED vars
    <3>1. FlagTypes'
      BY <2>6 DEF BaseInv, vars, usbVars, taskVars, epVars, fwVars, auxVars,
         TypeOK, FlagTypes
    <3>2. UsbTypes'
      BY <2>6 DEF BaseInv, vars, usbVars, taskVars, epVars, fwVars, auxVars,
         TypeOK, UsbTypes
    <3>3. TaskTypes'
      BY <2>6 DEF BaseInv, vars, usbVars, taskVars, epVars, fwVars, auxVars,
         TypeOK, TaskTypes
    <3>4. EndpointTypes'
      BY <2>6 DEF BaseInv, vars, usbVars, taskVars, epVars, fwVars, auxVars,
         TypeOK, EndpointTypes
    <3>5. HistoryTypes'
      BY <2>6 DEF BaseInv, vars, usbVars, taskVars, epVars, fwVars, auxVars,
         TypeOK, HistoryTypes
    <3>6. ReceptionInv'
      BY <2>6 DEF BaseInv, vars, usbVars, taskVars, epVars, fwVars, auxVars,
         ReceptionInv, Reassembly
    <3> QED BY <3>1, <3>2, <3>3, <3>4, <3>5, <3>6 DEF TypeOK
  <2> QED BY <2>1, <2>2, <2>3, <2>4, <2>5, <2>6 DEF Next
<1> QED BY <1>1, WorkInvStep DEF BaseInv

(* In every reachable state all variables have their types, whatever the   *)
(* host sends, however it cuts it into packets, and whenever the bus is    *)
(* reset or configured: usb.c never holds a length beyond its buffer, a    *)
(* session outside its counter or a half-read message.                     *)
THEOREM TypeCorrect == Spec => []TypeOK
<1>1. Init => BaseInv
  BY BaseInvInit
<1>2. BaseInv /\ [Next]_vars => BaseInv'
  BY BaseInvStep
<1>3. BaseInv => TypeOK
  BY DEF BaseInv
<1> QED BY <1>1, <1>2, <1>3, PTL DEF Spec

(* out_done's subtractions never wrap, and an unfinished request can       *)
(* always take the next packet.                                            *)
THEOREM ReassemblyCorrect == Spec => []Reassembly
<1>1. Init => BaseInv
  BY BaseInvInit
<1>2. BaseInv /\ [Next]_vars => BaseInv'
  BY BaseInvStep
<1>3. BaseInv => Reassembly
  BY DEF BaseInv, ReceptionInv
<1> QED BY <1>1, <1>2, <1>3, PTL DEF Spec

----------------------------------------------------------------------------
(* The connection stays alive.                                             *)

LinkInv == WakeNotLost /\ LinkAlive

(* Nobody leaves a live connection without somebody who goes on: whoever   *)
(* consumes the armed endpoint, the transfer, the request or the wake-up   *)
(* leaves the next of them behind, or gives the connection up.             *)
LEMMA LinkInvStep ==
  ASSUME LinkInv, [Next]_vars
  PROVE  LinkInv'
<1>1. CASE OutDone
  <2>1. CASE OutIgnored /\ UNCHANGED <<enabled, ready, notified>>
    BY <1>1, <2>1 DEF OutDone, OutIgnored, taskVars, LinkInv, WakeNotLost, LinkAlive
  <2>2. CASE ready' /\ notified'
    BY <2>2 DEF LinkInv, WakeNotLost, LinkAlive
  <2>3. CASE ~enabled'
    BY <2>3 DEF LinkInv, WakeNotLost, LinkAlive
  <2>4. CASE ~OutIgnored /\ outArmed' /\ UNCHANGED ready
    BY <2>4 DEF OutIgnored, LinkInv, WakeNotLost, LinkAlive
  <2> QED BY <1>1, <2>1, <2>2, <2>3, <2>4
     DEF OutDone, StopReceiving, ArmOut, CompleteRequest
<1>2. CASE InDone
  <2>1. CASE enabled /\ configured /\ ~rebootAfterTx
    BY <1>2, <2>1 DEF InDone, ArmOut, taskVars, LinkInv, WakeNotLost, LinkAlive
  <2>2. CASE ~(enabled /\ configured /\ ~rebootAfterTx)
    BY <1>2, <2>2 DEF InDone, taskVars, LinkInv, WakeNotLost, LinkAlive
  <2> QED BY <2>1, <2>2
<1>3. CASE BusReset \/ Configure \/ Deconfigure
  BY <1>3 DEF BusReset, Configure, Deconfigure, ClearLink, ArmOut, LinkInv,
     WakeNotLost, LinkAlive
<1>4. CASE HostIn
  BY <1>4 DEF HostIn, usbVars, taskVars, LinkInv, WakeNotLost, LinkAlive
<1>5. ASSUME NEW p \in Packets, HostOut(p) PROVE LinkInv'
  BY <1>5, NoneAssumption DEF HostOut, usbVars, taskVars, LinkInv, WakeNotLost, LinkAlive
<1>6. CASE TakeNotification
  BY <1>6 DEF TakeNotification, usbVars, epVars, LinkInv, WakeNotLost, LinkAlive
<1>7. CASE WorkTake
  <2>1. CASE ~enabled \/ ~ready \/ ~configured
    BY <1>7, <2>1 DEF WorkTake, IdleTask, epVars, LinkInv, WakeNotLost, LinkAlive
  <2>2. CASE enabled /\ ready /\ configured
    BY <1>7, <2>2 DEF WorkTake, epVars, LinkInv, WakeNotLost, LinkAlive
  <2> QED BY <2>1, <2>2
<1>8. CASE WorkPrepare
  <2>1. CASE ~SameConnection
    BY <1>8, <2>1 DEF WorkPrepare, SameConnection, IdleTask, epVars, LinkInv,
       WakeNotLost, LinkAlive
  <2>2. CASE SameConnection
    BY <1>8, <2>2 DEF WorkPrepare, OpenSession, Refuse, Accept, SameConnection,
       epVars, LinkInv, WakeNotLost, LinkAlive
  <2> QED BY <2>1, <2>2
<1>9. CASE Dispatch
  BY <1>9 DEF Dispatch, usbVars, epVars, LinkInv, WakeNotLost, LinkAlive
<1>10. CASE WorkSend
  <2>1. CASE response = None
    BY <1>10, <2>1 DEF WorkSend, IdleTask, LinkInv, WakeNotLost, LinkAlive
  <2>2. CASE response # None /\ ~SameConnection
    BY <1>10, <2>2 DEF WorkSend, SameConnection, IdleTask, LinkInv, WakeNotLost, LinkAlive
  <2>3. CASE response # None /\ SameConnection
    BY <1>10, <2>3 DEF WorkSend, IdleTask, LinkInv, WakeNotLost, LinkAlive
  <2> QED BY <2>1, <2>2, <2>3
<1>11. CASE ConfirmImage \/ UNCHANGED vars
  BY <1>11 DEF ConfirmImage, vars, usbVars, taskVars, epVars, LinkInv, WakeNotLost,
     LinkAlive
<1> QED BY <1>1, <1>2, <1>3, <1>4, <1>5, <1>6, <1>7, <1>8, <1>9, <1>10, <1>11
   DEF Next, Interrupt, BusEvent, Host, UsbTask

(* The wake-up of the usb task is never lost: out_done, which runs in the  *)
(* interrupt, and usb_work cannot be interleaved such that a complete      *)
(* request waits on a live connection and nobody comes for it.             *)
THEOREM WakeUpKept == Spec => []WakeNotLost
<1>1. Init => LinkInv
  BY DEF Init, LinkInv, WakeNotLost, LinkAlive
<1>2. LinkInv /\ [Next]_vars => LinkInv'
  BY LinkInvStep
<1>3. LinkInv => WakeNotLost
  BY DEF LinkInv
<1> QED BY <1>1, <1>2, <1>3, PTL DEF Spec

(* A live connection always has the endpoint armed, a transfer or request  *)
(* in progress, or the task at work for it: no reset, reconfiguration or   *)
(* failing transfer leaves the device deaf with `enabled' set.             *)
THEOREM LinkStaysAlive == Spec => []LinkAlive
<1>1. Init => LinkInv
  BY DEF Init, LinkInv, WakeNotLost, LinkAlive
<1>2. LinkInv /\ [Next]_vars => LinkInv'
  BY LinkInvStep
<1>3. LinkInv => LinkAlive
  BY DEF LinkInv
<1> QED BY <1>1, <1>2, <1>3, PTL DEF Spec

----------------------------------------------------------------------------
(* Responses belong to the connection they are sent on.                    *)

(* A response exists only between the command and its transfer and carries *)
(* the generation of its request; `reboot' accompanies FW_REBOOT's only.   *)
ResponseInv ==
  /\ response # None => pc = "send" /\ response.gen = generation
  /\ reboot => /\ response # None
               /\ response.op = "FW_REBOOT" /\ response.status = 0
  /\ ResponseOfThisConnection
  /\ RebootAfterOwnResponse

(* An answer carries the generation that usb_work remembered.              *)
LEMMA ReplyFields ==
  ASSUME NEW status
  PROVE  /\ Reply(status).gen = generation
         /\ Reply(status).op = work.op /\ Reply(status).status = status
         /\ [Reply(status) EXCEPT !.session = NextSession].gen = generation
BY DEF Reply

(* Each step keeps responses with their connection: usb_work compares the  *)
(* generation, and a bus event withdraws what waits in the endpoint.       *)
LEMMA ResponseInvStep ==
  ASSUME BaseInv, ResponseInv, [Next]_vars
  PROVE  ResponseInv'
<1> USE DEF ResponseInv, ResponseOfThisConnection, RebootAfterOwnResponse
<1>1. CASE OutDone
  BY <1>1 DEF OutDone, taskVars
<1>2. CASE InDone
  BY <1>2 DEF InDone, taskVars
<1>3. CASE BusReset
  BY <1>3 DEF BusReset, ClearLink, taskVars
<1>4. CASE Configure
  BY <1>4 DEF Configure, ClearLink, taskVars
<1>5. CASE Deconfigure \/ HostIn
  BY <1>5 DEF Deconfigure, HostIn, usbVars, taskVars
<1>6. ASSUME NEW p \in Packets, HostOut(p) PROVE ResponseInv'
  BY <1>6 DEF HostOut, usbVars, taskVars
<1>7. CASE TakeNotification
  BY <1>7 DEF TakeNotification, usbVars, epVars
<1>8. CASE WorkTake
  <2>1. CASE IdleTask
    BY <1>8, <2>1 DEF WorkTake, IdleTask, epVars
  <2>2. CASE ~IdleTask
    <3>1. response = None /\ ~reboot /\ reboot' = reboot
      BY <1>8, <2>2 DEF WorkTake
    <3>2. response' # None => pc' = "send" /\ response'.gen = generation'
      BY <1>8, <2>2, <3>1 DEF WorkTake, V1Reply
    <3> QED BY <1>8, <3>1, <3>2 DEF WorkTake, epVars
  <2> QED BY <2>1, <2>2
<1>9. CASE WorkPrepare
  <2>1. CASE IdleTask
    BY <1>9, <2>1 DEF WorkPrepare, IdleTask, epVars
  <2>2. CASE ~IdleTask
    <3>1. response = None /\ ~reboot /\ reboot' = reboot /\ generation' = generation
      BY <1>9, <2>2 DEF WorkPrepare
    <3>2. response' # None => pc' = "send" /\ response'.gen = generation'
      BY <1>9, <2>2, <3>1, ReplyFields
         DEF WorkPrepare, OpenSession, Refuse, Accept, Encoded
    <3> QED BY <1>9, <3>1, <3>2 DEF WorkPrepare, epVars
  <2> QED BY <2>1, <2>2
<1>10. CASE Dispatch
  <2>1. response' # None => pc' = "send" /\ response'.gen = generation'
    BY <1>10, ReplyFields DEF Dispatch, Encoded
  <2>2. reboot' => /\ response' # None
                   /\ response'.op = "FW_REBOOT" /\ response'.status = 0
    <3>1. PICK status \in Status : /\ response' = Encoded(Reply(status))
                                   /\ reboot' = (work.op = "FW_REBOOT" /\ status = 0)
      BY <1>10 DEF Dispatch
    <3>2. Reply(status) # None
      BY <1>10, ReplyTypes, NoneAssumption DEF Dispatch, BaseInv, WorkInv
    <3>3. reboot' => work.op = "FW_REBOOT" /\ status = 0
      BY <3>1
    <3> QED BY <3>1, <3>2, <3>3, ReplyFields DEF Encoded
  <2> QED BY <1>10, <2>1, <2>2 DEF Dispatch, usbVars, epVars
<1>11. CASE WorkSend
  <2>1. CASE response = None \/ ~SameConnection
    BY <1>11, <2>1 DEF WorkSend, IdleTask, NoIrq
  <2>2. CASE response # None /\ SameConnection
    <3>1. rebootAfterTx' => reboot /\ inState' = "armed" /\ inResponse' = response
      BY <1>11, <2>2 DEF WorkSend
    <3>2. inState' = "armed" =>
            \/ inState = "armed" /\ UNCHANGED inResponse
            \/ inResponse' = response
      BY <1>11, <2>2 DEF WorkSend
    <3>3. response' = None /\ ~reboot' /\ UNCHANGED connectionGeneration
      BY <1>11 DEF WorkSend, IdleTask
    <3> QED BY <2>2, <3>1, <3>2, <3>3 DEF SameConnection
  <2> QED BY <2>1, <2>2
<1>12. CASE ConfirmImage \/ UNCHANGED vars
  BY <1>12 DEF ConfirmImage, vars, usbVars, taskVars, epVars
<1> QED BY <1>1, <1>2, <1>3, <1>4, <1>5, <1>6, <1>7, <1>8, <1>9, <1>10, <1>11, <1>12
   DEF Next, Interrupt, BusEvent, Host, UsbTask

(* At first there is no response.                                          *)
LEMMA ResponseInvInit ==
  ASSUME Init
  PROVE  ResponseInv
BY DEF Init, ResponseInv, ResponseOfThisConnection, RebootAfterOwnResponse

(* No response reaches a connection other than that of its request: the    *)
(* generation usb_work compares in its last section covers every reset and *)
(* reconfiguration while the command ran without the lock.                 *)
THEOREM ResponsesMatchConnection == Spec => []ResponseOfThisConnection
<1>1. Init => BaseInv /\ ResponseInv
  BY BaseInvInit, ResponseInvInit
<1>2. BaseInv /\ ResponseInv /\ [Next]_vars => BaseInv' /\ ResponseInv'
  BY BaseInvStep, ResponseInvStep
<1>3. ResponseInv => ResponseOfThisConnection
  BY DEF ResponseInv
<1> QED BY <1>1, <1>2, <1>3, PTL DEF Spec

(* The transfer whose end resets the device is FW_REBOOT's own positive    *)
(* response on the present connection.                                     *)
THEOREM RebootWaitsForResponse == Spec => []RebootAfterOwnResponse
<1>1. Init => BaseInv /\ ResponseInv
  BY BaseInvInit, ResponseInvInit
<1>2. BaseInv /\ ResponseInv /\ [Next]_vars => BaseInv' /\ ResponseInv'
  BY BaseInvStep, ResponseInvStep
<1>3. ResponseInv => RebootAfterOwnResponse
  BY DEF ResponseInv
<1> QED BY <1>1, <1>2, <1>3, PTL DEF Spec

----------------------------------------------------------------------------
(* Commands run in order, and never on stale bytes.                        *)

Busy == pc \in {"prepare", "dispatch", "send"}

(* What the session remembers of the commands executed: on the present     *)
(* connection they are those of the open session, up to lastRequestId.     *)
OrderInv ==
  /\ enabled => connectionGeneration > 0
  /\ Busy => 0 < generation /\ generation <= connectionGeneration
  /\ lastExecuted.gen <= connectionGeneration
  /\ pc \in {"prepare", "dispatch"} => lastExecuted.gen <= generation
  /\ connectionGeneration > 0 /\ lastExecuted.gen = connectionGeneration =>
       session # 0 /\ lastExecuted.id <= lastRequestId
  /\ pc = "dispatch" /\ generation = connectionGeneration =>
       session # 0 /\ lastRequestId = work.id
  /\ pc = "dispatch" /\ generation = lastExecuted.gen => lastExecuted.id < work.id

(* Each step keeps the session's memory: an id is consumed before its      *)
(* command runs, and an event that forgets it begins a new generation.     *)
LEMMA OrderInvStep ==
  ASSUME BaseInv, OrderInv, [Next]_vars
  PROVE  OrderInv'
<1>1. /\ connectionGeneration \in Nat /\ generation \in Nat
      /\ lastRequestId \in Nat /\ lastExecuted.gen \in Nat /\ lastExecuted.id \in Nat
      /\ pc \in {"prepare", "dispatch"} => work.id \in Nat
  BY BoundsAssumption
     DEF BaseInv, WorkInv, TypeOK, UsbTypes, TaskTypes, HistoryTypes, Message
<1>2. CASE /\ UNCHANGED <<sessionGeneration, session, lastRequestId,
                          connectionGeneration, taskVars, lastExecuted>>
           /\ enabled' => enabled
  BY <1>2 DEF OrderInv, Busy, taskVars
<1>3. CASE OutDone \/ InDone
  <2>1. enabled' => enabled
    BY <1>3 DEF OutDone, InDone, OutIgnored, StopReceiving, ArmOut, CompleteRequest
  <2> QED BY <1>2, <1>3, <2>1 DEF OutDone, InDone, auxVars
<1>4. CASE BusReset \/ Configure
  <2>1. connectionGeneration' = connectionGeneration + 1
    BY <1>4 DEF BusReset, Configure, ClearLink
  <2>2. UNCHANGED <<taskVars, lastExecuted>>
    BY <1>4 DEF BusReset, Configure
  <2> QED BY <1>1, <2>1, <2>2 DEF OrderInv, Busy, taskVars
<1>5. CASE Deconfigure \/ HostIn \/ ConfirmImage \/ UNCHANGED vars
  BY <1>2, <1>5 DEF Deconfigure, HostIn, ConfirmImage, vars, usbVars, auxVars
<1>6. ASSUME NEW p \in Packets, HostOut(p) PROVE OrderInv'
  BY <1>2, <1>6 DEF HostOut, usbVars
<1>7. CASE TakeNotification
  BY <1>7 DEF TakeNotification, usbVars, auxVars, OrderInv, Busy
<1>8. CASE WorkTake
  <2>1. CASE IdleTask
    BY <1>8, <2>1 DEF WorkTake, IdleTask, OrderInv, Busy
  <2>2. CASE enabled /\ generation' = connectionGeneration /\ pc' \in {"prepare", "send"}
    BY <1>1, <1>8, <2>2 DEF WorkTake, OrderInv, Busy
  <2> QED BY <1>8, <2>1, <2>2 DEF WorkTake
<1>9. CASE WorkPrepare
  <2>1. CASE IdleTask /\ UNCHANGED <<sessionGeneration, session, lastRequestId>>
    BY <1>9, <2>1 DEF WorkPrepare, IdleTask, OrderInv, Busy
  <2>2. CASE OpenSession /\ SameConnection /\ UNCHANGED <<work, generation>>
    BY <1>1, <1>9, <2>2 DEF WorkPrepare, OpenSession, SameConnection, OrderInv, Busy
  <2>3. CASE Refuse /\ SameConnection /\ UNCHANGED <<work, generation>>
    BY <1>1, <1>9, <2>3 DEF WorkPrepare, Refuse, OrderInv, Busy
  <2>4. CASE Accept /\ SameConnection /\ UNCHANGED <<work, generation>>
    <3>1. session # 0 /\ work.id > lastRequestId
      BY <1>1, <1>9, <2>4 DEF WorkPrepare, Accept, Refusal
    <3> QED BY <1>1, <1>9, <2>4, <3>1
         DEF WorkPrepare, Accept, SameConnection, OrderInv, Busy
  <2> QED BY <1>9, <2>1, <2>2, <2>3, <2>4 DEF WorkPrepare
<1>10. CASE Dispatch
  BY <1>1, <1>10 DEF Dispatch, usbVars, OrderInv, Busy
<1>11. CASE WorkSend
  <2>1. enabled' => enabled
    BY <1>11 DEF WorkSend
  <2> QED BY <1>11, <2>1 DEF WorkSend, IdleTask, OrderInv, Busy
<1> QED BY <1>3, <1>4, <1>5, <1>6, <1>7, <1>8, <1>9, <1>10, <1>11
   DEF Next, Interrupt, BusEvent, Host, UsbTask

(* At first nothing has been executed.                                     *)
LEMMA OrderInvInit ==
  ASSUME Init
  PROVE  OrderInv
BY DEF Init, OrderInv, Busy

(* A host that repeats a request, in any interleaving with resets and      *)
(* reconfigurations, never has a command executed twice or out of order:   *)
(* prepare_v2 consumes the id under the lock before dispatch_v2 runs.      *)
THEOREM CommandsAtMostOnce == Spec => AtMostOnce
<1>1. Init => BaseInv /\ OrderInv
  BY BaseInvInit, OrderInvInit
<1>2. BaseInv /\ OrderInv /\ [Next]_vars => BaseInv' /\ OrderInv'
  BY BaseInvStep, OrderInvStep
<1>3. ASSUME BaseInv, OrderInv, [Next]_vars
      PROVE  [pc = "dispatch" /\ pc' = "send" =>
                \/ generation > lastExecuted.gen
                \/ generation = lastExecuted.gen /\ work.id > lastExecuted.id]_vars
  <2>1. /\ generation \in Nat /\ lastExecuted.gen \in Nat /\ lastExecuted.id \in Nat
        /\ pc = "dispatch" => work.id \in Nat
    BY <1>3, BoundsAssumption
       DEF BaseInv, WorkInv, TypeOK, TaskTypes, HistoryTypes, Message
  <2> QED BY <1>3, <2>1 DEF OrderInv
<1> QED BY <1>1, <1>2, <1>3, PTL DEF Spec, AtMostOnce

(* The bytes of an old configuration are at most a packet in the endpoint, *)
(* part of the first request of the new one, or the message of a task that *)
(* finds the session closed or the generation changed.                     *)
StaleInv ==
  /\ "out" \in stale => outPacket # None
  /\ "out" \in stale \/ "request" \in stale =>
       session = 0 /\ (Busy => generation # connectionGeneration)
  /\ "work" \in stale =>
       /\ pc \in {"prepare", "send"}
       /\ pc = "prepare" /\ generation = connectionGeneration => session = 0

(* Each step confines the old bytes: they are first in the new connection, *)
(* and the task runs only when the endpoint has been served.               *)
LEMMA StaleInvStep ==
  ASSUME BaseInv, OrderInv, StaleInv, [Next]_vars
  PROVE  StaleInv'
<1>1. connectionGeneration \in Nat /\ generation \in Nat
  BY BoundsAssumption DEF BaseInv, TypeOK, UsbTypes, TaskTypes
<1>2. CASE OutDone
  BY <1>2 DEF OutDone, taskVars, StaleInv, Busy
<1>3. CASE InDone
  BY <1>3 DEF InDone, taskVars, auxVars, StaleInv, Busy
<1>4. CASE BusReset \/ Configure
  <2>1. /\ connectionGeneration' = connectionGeneration + 1 /\ session' = 0
        /\ stale' = StaleAfterEvent /\ UNCHANGED <<taskVars, outPacket>>
    BY <1>4 DEF BusReset, Configure, ClearLink
  <2>2. Busy => generation # connectionGeneration'
    BY <1>1, <2>1 DEF OrderInv
  <2> QED BY <2>1, <2>2 DEF StaleAfterEvent, taskVars, StaleInv, Busy
<1>5. CASE Deconfigure \/ HostIn \/ ConfirmImage \/ UNCHANGED vars
  BY <1>5 DEF Deconfigure, HostIn, ConfirmImage, vars, usbVars, taskVars, epVars,
     auxVars, StaleInv, Busy
<1>6. ASSUME NEW p \in Packets, HostOut(p) PROVE StaleInv'
  BY <1>6 DEF HostOut, usbVars, taskVars, StaleInv, Busy
<1>7. CASE TakeNotification
  BY <1>7 DEF TakeNotification, usbVars, epVars, auxVars, StaleInv, Busy
<1>8. CASE WorkTake
  <2>1. "out" \notin stale /\ "work" \notin stale /\ ~Busy
    BY <1>8 DEF WorkTake, NoIrq, StaleInv, Busy
  <2>2. CASE IdleTask /\ UNCHANGED stale
    BY <1>8, <2>1, <2>2 DEF WorkTake, IdleTask, epVars, StaleInv, Busy
  <2>3. CASE /\ stale' = IF "request" \in stale
                          THEN (stale \ {"request"}) \cup {"work"} ELSE stale
             /\ pc' \in {"prepare", "send"}
    BY <1>8, <2>1, <2>3 DEF WorkTake, epVars, StaleInv, Busy
  <2> QED BY <1>8, <2>2, <2>3 DEF WorkTake
<1>9. CASE WorkPrepare
  <2>1. CASE ~SameConnection
    BY <1>9, <2>1 DEF WorkPrepare, IdleTask, epVars, StaleInv, Busy
  <2>2. CASE SameConnection
    <3>1. "out" \notin stale /\ "request" \notin stale
      BY <1>9, <2>2 DEF WorkPrepare, SameConnection, StaleInv, Busy
    <3>2. CASE OpenSession \/ Refuse
      BY <1>9, <2>2, <3>1, <3>2 DEF WorkPrepare, OpenSession, Refuse, epVars, StaleInv
    <3>3. CASE Accept
      <4>1. session # 0
        BY <3>3 DEF Accept, Refusal
      <4>2. "work" \notin stale
        BY <1>9, <2>2, <4>1 DEF WorkPrepare, SameConnection, StaleInv
      <4> QED BY <1>9, <2>2, <3>1, <4>2 DEF WorkPrepare, StaleInv
    <3> QED BY <1>9, <2>2, <3>2, <3>3 DEF WorkPrepare
  <2> QED BY <2>1, <2>2
<1>10. CASE Dispatch
  BY <1>10 DEF Dispatch, usbVars, epVars, StaleInv, Busy
<1>11. CASE WorkSend
  BY <1>11 DEF WorkSend, IdleTask, StaleInv, Busy
<1> QED BY <1>2, <1>3, <1>4, <1>5, <1>6, <1>7, <1>8, <1>9, <1>10, <1>11
   DEF Next, Interrupt, BusEvent, Host, UsbTask

(* Although a packet of the old configuration can begin a request of the   *)
(* new one, no command that contains such bytes is executed: the session   *)
(* is closed until a HELLO, which takes the old bytes with it.             *)
THEOREM StaleBytesNeverExecuted == Spec => []StaleNeverExecuted
<1> DEFINE Inv == BaseInv /\ OrderInv /\ StaleInv
<1>1. Init => Inv
  <2>1. Init => StaleInv
    BY DEF Init, StaleInv
  <2> QED BY <2>1, BaseInvInit, OrderInvInit
<1>2. Inv /\ [Next]_vars => Inv'
  BY BaseInvStep, OrderInvStep, StaleInvStep
<1>3. Inv => StaleNeverExecuted
  BY DEF StaleInv, StaleNeverExecuted
<1> QED BY <1>1, <1>2, <1>3, PTL DEF Spec

----------------------------------------------------------------------------
(* Two properties of single steps.                                         *)

(* A complete request is not touched by callbacks until usb_work takes it. *)
THEOREM RequestKept == Spec => RequestStable
<1>1. ASSUME [Next]_vars
      PROVE  [ready /\ ready' /\ enabled' => UNCHANGED <<request, expected>>]_vars
  <2> SUFFICES ASSUME ready, ready', enabled' PROVE UNCHANGED <<request, expected>>
    OBVIOUS
  <2>1. CASE OutDone
    BY <2>1 DEF OutDone, OutIgnored
  <2>2. CASE InDone
    BY <2>2 DEF InDone, ArmOut
  <2>3. CASE BusEvent
    BY <2>3 DEF BusEvent, BusReset, Configure, ClearLink, Deconfigure, usbVars
  <2>4. CASE Host
    BY <2>4 DEF Host, HostIn, HostOut, usbVars
  <2>5. CASE UsbTask
    BY <2>5 DEF UsbTask, TakeNotification, WorkTake, WorkPrepare, Dispatch, WorkSend,
       usbVars
  <2>6. CASE ConfirmImage \/ UNCHANGED vars
    BY <2>6 DEF ConfirmImage, vars, usbVars
  <2> QED BY <1>1, <2>1, <2>2, <2>3, <2>4, <2>5, <2>6 DEF Next, Interrupt
<1> QED BY <1>1, PTL DEF Spec, RequestStable

(* The session a HELLO is granted is neither 0 nor the one granted before, *)
(* for every modulus of the counter above 2.                               *)
THEOREM SessionsFresh == Spec => SessionFresh
<1>1. Init => BaseInv
  BY BaseInvInit
<1>2. BaseInv /\ [Next]_vars => BaseInv'
  BY BaseInvStep
<1>3. ASSUME BaseInv, [Next]_vars
      PROVE  [pc = "prepare" /\ pc' = "send" /\ work.op = "HELLO" /\ response'.status = 0 =>
                /\ response'.session = session' /\ session' # 0
                /\ session' # sessionGeneration]_vars
  <2> SUFFICES ASSUME pc = "prepare", pc' = "send", work.op = "HELLO",
                      response'.status = 0
               PROVE  /\ response'.session = session' /\ session' # 0
                      /\ session' # sessionGeneration
    OBVIOUS
  <2>1. WorkPrepare
    BY <1>3 DEF Next, Interrupt, OutDone, InDone, BusEvent, BusReset, Configure,
       Deconfigure, Host, HostIn, HostOut, UsbTask, TakeNotification, WorkTake,
       Dispatch, WorkSend, ConfirmImage, vars, taskVars
  <2>2. OpenSession \/ Refuse
    BY <2>1 DEF WorkPrepare, IdleTask, Accept
  <2>3. ~Refuse
    <3>1. ASSUME Refuse PROVE Reply(3).status = 0
      BY <3>1 DEF Refuse, Refusal, Encoded, Reply
    <3> QED BY <3>1, ReplyFields
  <2>4. /\ session' = NextSession
        /\ response' = [Reply(0) EXCEPT !.session = NextSession]
    BY <2>2, <2>3 DEF OpenSession
  <2>5. response'.session = NextSession
    BY <2>4 DEF Reply
  <2>6. NextSession # 0 /\ NextSession # sessionGeneration
    BY <1>3, NextSessionResult, BoundsAssumption DEF BaseInv, TypeOK, UsbTypes
  <2> QED BY <2>4, <2>5, <2>6
<1> QED BY <1>1, <1>2, <1>3, PTL DEF Spec, SessionFresh
=============================================================================
