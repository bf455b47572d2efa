------------------------------ MODULE XcanUsb ------------------------------
(***************************************************************************)
(* The USB transport of the application image: firmware/src/usb.c, the     *)
(* usb task of firmware/src/app.c, and the part of CherryUSB they use.     *)
(*                                                                         *)
(* Two contexts share the transport's static variables.                    *)
(*   - The USB interrupt runs the bus event handler and the two endpoint   *)
(*     callbacks.  It preempts every task, except in a critical section.   *)
(*   - The usb task waits for a notification and runs usb_work, which      *)
(*     takes the lock three times and works without it in between.         *)
(* A critical section and an interrupt handler are one action each; the    *)
(* unlocked firmware command is an action of its own, so that resets,      *)
(* reconfigurations and packets fall between the sections of usb_work.     *)
(*                                                                         *)
(* Bytes are counted in units: a message is a sequence of cells, a packet  *)
(* a slice of one.  The thresholds of the code keep their order:           *)
(*   VersionLen (5) < HeaderLen (24) < V1Len = PacketSize (64)             *)
(*                                             < MaxMessage (544).         *)
(***************************************************************************)
EXTENDS Naturals, Sequences

CONSTANTS
  Messages,       \* the messages the host may send
  Packets,        \* the OUT packets the host may send: slices of messages
  PacketSize,     \* capacity of an OUT packet
  VersionLen,     \* bytes needed to read the version of a message
  HeaderLen,      \* length of a v2 header
  V1Len,          \* length of a v1 record
  MaxMessage,     \* size of the request buffer
  SessionMod,     \* modulus of the session counter (2^32 in the code)
  MaxGeneration,  \* bound on the bus events of one power cycle
  LateCompletions, \* may a transfer completed before SET_CONFIGURATION be
                  \* reported to its callback after the CONFIGURED event?
  None            \* no packet, no message, no response

Opcodes == {"V1", "HELLO", "FW_BEGIN", "FW_STATUS", "FW_WRITE", "FW_FINISH",
            "FW_ABORT", "FW_REBOOT", "OTHER", "EVENT"}

(* What the transport can tell about a message: its version byte, total   *)
(* length, and, for v2, whether it decodes and the header fields.          *)
Message == [version : {1, 2, 3}, length : {n \in Nat : n >= HeaderLen},
            valid : BOOLEAN, op : Opcodes, id : Nat,
            session : 0 .. (SessionMod - 1)]

Cell == [msg : Message, at : Nat]

Status == 0 .. 6

Response == [gen : Nat, op : Opcodes, status : Status,
             session : 0 .. (SessionMod - 1)]

ASSUME SizesAssumption ==
  /\ PacketSize \in Nat /\ VersionLen \in Nat /\ HeaderLen \in Nat
  /\ V1Len \in Nat /\ MaxMessage \in Nat
  /\ 0 < VersionLen /\ VersionLen < HeaderLen /\ HeaderLen < V1Len
  /\ V1Len = PacketSize /\ V1Len < MaxMessage

ASSUME BoundsAssumption ==
  /\ SessionMod \in Nat /\ SessionMod > 2
  /\ MaxGeneration \in Nat
  /\ LateCompletions \in BOOLEAN

ASSUME TrafficAssumption ==
  /\ Messages \subseteq Message
  /\ Packets \subseteq Seq([msg : Messages, at : Nat])
  /\ \A p \in Packets : Len(p) <= PacketSize

ASSUME NoneAssumption ==
  None \notin Packets /\ None \notin Message /\ None \notin Response

----------------------------------------------------------------------------
VARIABLES
  on,            \* FALSE when the device has reset itself (xcan_reboot):
                 \* the module describes one power cycle, RAM only
  \* usb.c
  enabled, ready, rebootAfterTx,
  request,       \* the first `received' bytes of the request buffer
  expected,      \* length of the message being received; 0: not yet known
  sessionGeneration, session, lastRequestId, connectionGeneration,
  \* usb_work's locals and the buffers only it uses
  pc, notified, work, generation, response, reboot,
  \* CherryUSB and the endpoint hardware
  configured,
  outArmed,      \* the OUT endpoint accepts a packet
  outPacket,     \* a received packet whose interrupt is pending
  inState,       \* the IN endpoint: idle, armed, or done (interrupt pending)
  inResponse,    \* the transfer given to it
  \* the firmware update and confirmation state this module depends on
  fwComplete, updateReady,
  \* history
  stale,         \* the buffers that hold a packet sent before SET_CONFIGURATION:
                 \* "out" (outPacket), "request", "work"
  lastExecuted   \* connection and id of the last command executed

usbVars  == <<enabled, ready, rebootAfterTx, request, expected,
              sessionGeneration, session, lastRequestId, connectionGeneration>>
taskVars == <<pc, work, generation, response, reboot>>
epVars   == <<configured, outArmed, outPacket, inState, inResponse>>
fwVars   == <<fwComplete, updateReady>>
auxVars  == <<stale, lastExecuted>>
vars == <<on, usbVars, taskVars, notified, epVars, fwVars, auxVars>>

(* The bytes of a message.                                                 *)
Wire(m) == [i \in 1 .. m.length |-> [msg |-> m, at |-> i]]

(* The record out_done writes over a request that does not fit.            *)
Malformed == [version |-> 1, length |-> V1Len, valid |-> FALSE,
              op |-> "V1", id |-> 0, session |-> 0]
MalformedRequest == Wire(Malformed)

Init ==
  /\ on = TRUE
  /\ enabled = FALSE /\ ready = FALSE /\ rebootAfterTx = FALSE
  /\ request = <<>> /\ expected = 0
  /\ sessionGeneration = 0 /\ session = 0 /\ lastRequestId = 0
  /\ connectionGeneration = 0
  /\ pc = "wait" /\ notified = FALSE /\ work = None /\ generation = 0
  /\ response = None /\ reboot = FALSE
  /\ configured = FALSE /\ outArmed = FALSE /\ outPacket = None
  /\ inState = "idle" /\ inResponse = None
  /\ fwComplete = FALSE /\ updateReady = FALSE
  /\ stale = {}
  /\ lastExecuted = [gen |-> 0, id |-> 0]

----------------------------------------------------------------------------
(* Reading a partly received request.                                      *)

VersionOf(req) == IF req[1].at = 1 THEN req[1].msg.version ELSE 3

DeclaredLength(req) ==
  IF req[HeaderLen].at = HeaderLen THEN req[HeaderLen].msg.length
                                   ELSE MaxMessage + 1

(* Mutation of SetExpected: a v2 header must be followed by a byte.        *)
SetExpectedLate(req, exp) ==
  IF exp # 0 \/ Len(req) < VersionLen THEN exp
  ELSE IF VersionOf(req) # 2 THEN V1Len
  ELSE IF Len(req) <= HeaderLen THEN 0
  ELSE DeclaredLength(req)

(* set_expected: the expected length after a packet was appended; a value  *)
(* above MaxMessage is the rejection of an over-long payload.              *)
SetExpected(req, exp) ==
  IF exp # 0 \/ Len(req) < VersionLen THEN exp
  ELSE IF VersionOf(req) # 2 THEN V1Len
  ELSE IF Len(req) < HeaderLen THEN 0
  ELSE DeclaredLength(req)

(* xcan_v2_decode on a complete request.                                   *)
Decodes(req) ==
  VersionOf(req) = 2 /\ req[1].msg.valid /\ req = Wire(req[1].msg)

----------------------------------------------------------------------------
(* The USB interrupt: endpoint callbacks.                                  *)

(* Mutation of ArmOut: the result of usbd_ep_start_read is ignored.        *)
ArmOutUnchecked(e, req, exp) ==
  /\ outArmed' \in {TRUE, outArmed}
  /\ enabled' = e /\ request' = req /\ expected' = exp

(* arm_out from a handler that leaves e as `enabled' and req/exp as the    *)
(* reception state.                                                        *)
ArmOut(e, req, exp) ==
  \/ /\ outArmed' = TRUE
     /\ enabled' = e /\ request' = req /\ expected' = exp
  \/ /\ UNCHANGED outArmed          \* usbd_ep_start_read failed
     /\ enabled' = FALSE /\ request' = <<>> /\ expected' = 0

(* A handler that gives up on the request.                                 *)
StopReceiving ==
  /\ enabled' = FALSE /\ request' = <<>> /\ expected' = 0
  /\ UNCHANGED <<ready, notified, outArmed>>

(* Mutations of CompleteRequest: the task is not woken; the endpoint is    *)
(* armed for the next request at once.                                     *)
CompleteRequestNoWake(req, exp) ==
  /\ request' = req /\ expected' = exp /\ ready' = TRUE
  /\ UNCHANGED <<enabled, notified, outArmed>>

CompleteRequestArmed(req, exp) ==
  /\ request' = req /\ expected' = exp
  /\ ready' = TRUE /\ notified' = TRUE /\ outArmed' = TRUE
  /\ UNCHANGED enabled

CompleteRequest(req, exp) ==
  /\ request' = req /\ expected' = exp
  /\ ready' = TRUE /\ notified' = TRUE
  /\ UNCHANGED <<enabled, outArmed>>

(* Mutation of OutIgnored: a packet is taken while a request waits.        *)
OutIgnoredUnlessOff == ~enabled \/ ~configured

OutIgnored == ~enabled \/ ready \/ ~configured

Overflows(p) ==
  \/ Len(p) > MaxMessage - Len(request)
  \/ expected # 0 /\ Len(p) > expected - Len(request)

OutDone ==
  /\ on /\ outPacket # None
  /\ outPacket' = None
  /\ LET req == request \o outPacket
         exp == SetExpected(req, expected)
     IN \/ /\ OutIgnored
           /\ UNCHANGED <<enabled, ready, notified, request, expected, outArmed>>
        \/ /\ ~OutIgnored /\ Overflows(outPacket)
           /\ CompleteRequest(MalformedRequest, V1Len)
        \/ /\ ~OutIgnored /\ ~Overflows(outPacket)
           /\ \/ /\ exp > MaxMessage
                 /\ StopReceiving
              \/ /\ exp \in 1 .. MaxMessage /\ Len(req) > exp
                 /\ StopReceiving
              \/ /\ exp = 0 \/ (exp \in 1 .. MaxMessage /\ Len(req) < exp)
                 /\ ArmOut(TRUE, req, exp)
                 /\ UNCHANGED <<ready, notified>>
              \/ /\ exp \in 1 .. MaxMessage /\ Len(req) = exp
                 /\ CompleteRequest(req, exp)
  /\ stale' = IF OutIgnored \/ "out" \notin stale
                THEN stale \ {"out"} ELSE (stale \ {"out"}) \cup {"request"}
  /\ UNCHANGED <<on, rebootAfterTx, sessionGeneration, session, lastRequestId,
                 connectionGeneration, taskVars, configured, inState,
                 inResponse, fwVars, lastExecuted>>

(* in_done; xcan_reboot does not return.                                   *)
InDone ==
  /\ on /\ inState = "done"
  /\ inState' = "idle" /\ inResponse' = None
  /\ on' = ~rebootAfterTx
  /\ rebootAfterTx' = FALSE
  /\ IF enabled /\ configured /\ ~rebootAfterTx
       THEN ArmOut(TRUE, request, expected)
       ELSE UNCHANGED <<outArmed, enabled, request, expected>>
  /\ UNCHANGED <<ready, sessionGeneration, session, lastRequestId,
                 connectionGeneration, taskVars, notified, configured,
                 outPacket, fwVars, auxVars>>

----------------------------------------------------------------------------
(* The USB interrupt: bus events.  The controller reports pending endpoint *)
(* interrupts before a bus reset, but a SETUP packet before those of       *)
(* endpoint 1: a transfer completed before SET_CONFIGURATION can reach its *)
(* callback after the CONFIGURED event.                                    *)

NoIrq == outPacket = None /\ inState # "done"

(* A bus event finds at most a packet whose interrupt is pending.          *)
StaleAfterEvent ==
  (stale \cap {"work"}) \cup (IF outPacket # None THEN {"out"} ELSE {})

(* Mutations of ClearLink: the armed reset, or the session, survives.      *)
ClearLinkKeepReboot ==
  /\ connectionGeneration' = connectionGeneration + 1
  /\ ready' = FALSE /\ UNCHANGED rebootAfterTx
  /\ session' = 0 /\ lastRequestId' = 0
  /\ stale' = StaleAfterEvent

ClearLinkKeepSession ==
  /\ connectionGeneration' = connectionGeneration + 1
  /\ ready' = FALSE /\ rebootAfterTx' = FALSE
  /\ UNCHANGED <<session, lastRequestId>>
  /\ stale' = StaleAfterEvent

ClearLink ==
  /\ connectionGeneration' = connectionGeneration + 1
  /\ ready' = FALSE /\ rebootAfterTx' = FALSE
  /\ session' = 0 /\ lastRequestId' = 0
  /\ stale' = StaleAfterEvent

(* Bus reset (the test also injects DISCONNECTED and ERROR): the stack     *)
(* closes the endpoints and clears the configuration, then calls event().  *)
BusReset ==
  /\ on /\ NoIrq /\ connectionGeneration < MaxGeneration
  /\ ClearLink
  /\ enabled' = FALSE /\ request' = <<>> /\ expected' = 0
  /\ configured' = FALSE /\ outArmed' = FALSE
  /\ inState' = "idle" /\ inResponse' = None
  /\ UNCHANGED <<on, sessionGeneration, taskVars, notified, outPacket, fwVars,
                 lastExecuted>>

(* SET_CONFIGURATION(1): the stack reopens the endpoints, which cancels an *)
(* armed IN transfer but not the interrupt of a completed one.             *)
Configure ==
  /\ on /\ connectionGeneration < MaxGeneration
  /\ LateCompletions \/ NoIrq
  /\ ClearLink
  /\ ArmOut(TRUE, <<>>, 0)
  /\ configured' = TRUE
  /\ IF inState = "armed" THEN inState' = "idle" /\ inResponse' = None
                          ELSE UNCHANGED <<inState, inResponse>>
  /\ UNCHANGED <<on, sessionGeneration, taskVars, notified, outPacket, fwVars,
                 lastExecuted>>

(* SET_CONFIGURATION(0): no event reaches usb.c.                           *)
Deconfigure ==
  /\ on /\ configured
  /\ configured' = FALSE
  /\ UNCHANGED <<on, usbVars, taskVars, notified, outArmed, outPacket, inState,
                 inResponse, fwVars, auxVars>>

----------------------------------------------------------------------------
(* The host's side of the two endpoints.                                   *)

HostOut(p) ==
  /\ on /\ configured /\ outArmed
  /\ outArmed' = FALSE /\ outPacket' = p
  /\ stale' = stale \ {"out"}
  /\ UNCHANGED <<on, usbVars, taskVars, notified, configured, inState,
                 inResponse, fwVars, lastExecuted>>

HostIn ==
  /\ on /\ inState = "armed"
  /\ inState' = "done"
  /\ UNCHANGED <<on, usbVars, taskVars, notified, configured, outArmed,
                 outPacket, inResponse, fwVars, stale, lastExecuted>>

----------------------------------------------------------------------------
(* The usb task.                                                           *)

(* ulTaskNotifyTake(pdTRUE, portMAX_DELAY) returns.                        *)
TakeNotification ==
  /\ on /\ NoIrq
  /\ pc = "wait" /\ notified
  /\ pc' = "begin" /\ notified' = FALSE
  /\ UNCHANGED <<on, usbVars, work, generation, response, reboot, epVars,
                 fwVars, auxVars>>

IdleTask ==
  /\ pc' = "wait" /\ work' = None /\ generation' = 0
  /\ response' = None /\ reboot' = FALSE

V1Reply == [gen |-> connectionGeneration, op |-> "V1", status |-> 0, session |-> 0]

(* First section of usb_work; a v1 record is answered and a v2 message     *)
(* decoded without the lock, from buffers nobody else uses.                *)
WorkTake ==
  /\ on /\ NoIrq /\ pc = "begin"
  /\ \/ /\ ~enabled \/ ~ready \/ ~configured
        /\ IdleTask
        /\ UNCHANGED <<ready, request, expected, stale>>
     \/ /\ enabled /\ ready /\ configured
        /\ ready' = FALSE /\ request' = <<>> /\ expected' = 0
        /\ generation' = connectionGeneration
        /\ stale' = IF "request" \in stale
                      THEN (stale \ {"request"}) \cup {"work"} ELSE stale
        /\ \/ /\ VersionOf(request) = 1
              /\ response' = V1Reply /\ work' = None /\ pc' = "send"
           \/ /\ VersionOf(request) # 1 /\ Decodes(request)
              /\ work' = request[1].msg /\ pc' = "prepare"
              /\ UNCHANGED response
           \/ /\ VersionOf(request) # 1 /\ ~Decodes(request)
              /\ work' = None /\ pc' = "send"
              /\ UNCHANGED response
        /\ UNCHANGED reboot
  /\ UNCHANGED <<on, enabled, rebootAfterTx, sessionGeneration, session,
                 lastRequestId, connectionGeneration, notified, epVars, fwVars,
                 lastExecuted>>

(* Mutation of SameConnection: the generation is not compared.             *)
AnyConnection == enabled /\ configured

SameConnection == enabled /\ configured /\ generation = connectionGeneration

Reply(status) ==
  [gen |-> generation, op |-> work.op, status |-> status, session |-> work.session]

(* Mutations of NextSession: 0 is not skipped; the counter does not wrap.  *)
NextSessionZero == (sessionGeneration + 1) % SessionMod
NextSessionWide == sessionGeneration + 1

(* xcan_v2_encode refuses a response with the opcode of an event: a well-   *)
(* formed event decodes, and leaves nothing to answer.                     *)
Encoded(reply) == IF reply.op = "EVENT" THEN None ELSE reply

(* session_generation wraps and skips 0.                                   *)
NextSession ==
  LET next == (sessionGeneration + 1) % SessionMod IN IF next = 0 THEN 1 ELSE next

(* Second section of usb_work: prepare_v2.                                 *)
OpenSession ==
  /\ work.op = "HELLO" /\ session = 0
  /\ sessionGeneration' = NextSession /\ session' = NextSession
  /\ lastRequestId' = work.id
  /\ response' = [Reply(0) EXCEPT !.session = NextSession]
  /\ pc' = "send"

(* Mutation of Refusal: the last id is accepted once more.                 *)
RefusalOfOlder ==
  IF work.op = "HELLO" THEN 3
  ELSE IF session = 0 \/ work.session # session THEN 5
  ELSE IF work.id < lastRequestId THEN 3
  ELSE 0

Refusal ==
  IF work.op = "HELLO" THEN 3
  ELSE IF session = 0 \/ work.session # session THEN 5
  ELSE IF work.id <= lastRequestId THEN 3
  ELSE 0

Refuse ==
  /\ ~(work.op = "HELLO" /\ session = 0)
  /\ Refusal # 0
  /\ response' = Encoded(Reply(Refusal))
  /\ pc' = "send"
  /\ UNCHANGED <<sessionGeneration, session, lastRequestId>>

Accept ==
  /\ work.op # "HELLO"
  /\ Refusal = 0
  /\ lastRequestId' = work.id
  /\ pc' = "dispatch"
  /\ UNCHANGED <<sessionGeneration, session, response>>

WorkPrepare ==
  /\ on /\ NoIrq /\ pc = "prepare"
  /\ \/ /\ ~SameConnection
        /\ IdleTask
        /\ stale' = stale \ {"work"}
        /\ UNCHANGED <<sessionGeneration, session, lastRequestId>>
     \/ /\ SameConnection
        /\ OpenSession \/ Refuse \/ Accept
        /\ UNCHANGED <<work, generation, reboot, stale>>
  /\ UNCHANGED <<on, enabled, ready, rebootAfterTx, request, expected,
                 connectionGeneration, notified, epVars, fwVars,
                 lastExecuted>>

(* dispatch_v2: the commands of fw_update.c as far as this module can      *)
(* tell, i.e. their status and whether an update is COMPLETE afterwards.   *)
FwBegin(status) ==
  \/ /\ ~updateReady /\ status = 4
     /\ UNCHANGED fwComplete
  \/ /\ updateReady /\ status \in {0, 6}
     /\ fwComplete' = FALSE
  \/ /\ updateReady /\ status \in {1, 3}
     /\ UNCHANGED fwComplete

FwFinish(status) ==
  \/ /\ ~fwComplete /\ status = 0
     /\ fwComplete' = TRUE
  \/ /\ status \in (IF fwComplete THEN {3} ELSE {1, 3, 6})
     /\ UNCHANGED fwComplete

(* Mutation of FwOther: FW_REBOOT does not ask xcan_fw_complete.           *)
FwOtherReboot(status) ==
  /\ work.op = "FW_REBOOT" => status = 0
  /\ work.op # "FW_REBOOT" => status \in {0, 2, 3}
  /\ UNCHANGED fwComplete

FwOther(status) ==
  /\ CASE work.op = "FW_STATUS" -> status = 0
       [] work.op = "FW_WRITE" -> status \in (IF fwComplete THEN {1, 3} ELSE {0, 1, 3, 4, 6})
       [] work.op = "FW_ABORT" -> status = (IF fwComplete THEN 3 ELSE 0)
       [] work.op = "FW_REBOOT" -> status = (IF fwComplete THEN 0 ELSE 3)
       [] OTHER -> status = 2
  /\ UNCHANGED fwComplete

Dispatch ==
  /\ on /\ NoIrq /\ pc = "dispatch"
  /\ \E status \in Status :
       /\ CASE work.op = "FW_BEGIN" -> FwBegin(status)
            [] work.op = "FW_FINISH" -> FwFinish(status)
            [] OTHER -> FwOther(status)
       /\ response' = Encoded(Reply(status))
       /\ reboot' = (work.op = "FW_REBOOT" /\ status = 0)
  /\ pc' = "send"
  /\ lastExecuted' = [gen |-> generation, id |-> work.id]
  /\ UNCHANGED <<on, usbVars, notified, work, generation, epVars, updateReady,
                 stale>>

(* Last section of usb_work: hand the response to the IN endpoint.         *)
WorkSend ==
  /\ on /\ NoIrq /\ pc = "send"
  /\ \/ /\ response = None      \* nothing to say: stop the connection
        /\ enabled' = (enabled /\ generation # connectionGeneration)
        /\ UNCHANGED <<rebootAfterTx, inState, inResponse>>
     \/ /\ response # None /\ ~SameConnection
        /\ UNCHANGED <<enabled, rebootAfterTx, inState, inResponse>>
     \/ /\ response # None /\ SameConnection
        /\ \/ /\ rebootAfterTx' = reboot
              /\ inState' = "armed" /\ inResponse' = response
              /\ UNCHANGED enabled
           \/ /\ rebootAfterTx' = FALSE   \* usbd_ep_start_write failed
              /\ enabled' = FALSE
              /\ UNCHANGED <<inState, inResponse>>
  /\ IdleTask
  /\ stale' = stale \ {"work"}
  /\ UNCHANGED <<on, ready, request, expected, sessionGeneration, session,
                 lastRequestId, connectionGeneration, notified, configured,
                 outArmed, outPacket, fwVars, lastExecuted>>

(* The main task runs when the usb task waits; it opens updates once, when *)
(* it has confirmed the running image.                                     *)
ConfirmImage ==
  /\ on /\ NoIrq /\ pc = "wait" /\ ~notified /\ ~updateReady
  /\ updateReady' = TRUE
  /\ UNCHANGED <<on, usbVars, taskVars, notified, epVars, fwComplete, auxVars>>

----------------------------------------------------------------------------
Interrupt == OutDone \/ InDone
BusEvent  == BusReset \/ Configure \/ Deconfigure
Host      == HostIn \/ \E p \in Packets : HostOut(p)
UsbTask   == TakeNotification \/ WorkTake \/ WorkPrepare \/ Dispatch \/ WorkSend

Next == Interrupt \/ BusEvent \/ Host \/ UsbTask \/ ConfirmImage

Spec == Init /\ [][Next]_vars

(* Interrupts are served; the usb task has the highest task priority.      *)
DeviceFairness ==
  /\ WF_vars(OutDone)
  /\ WF_vars(InDone)
  /\ WF_vars(UsbTask)

(* A host that reads what the device has for it.                           *)
HostReads == WF_vars(HostIn)

FairSpec == Spec /\ DeviceFairness /\ HostReads
----------------------------------------------------------------------------
(* Properties.                                                             *)

FlagTypes ==
  /\ on \in BOOLEAN
  /\ enabled \in BOOLEAN /\ ready \in BOOLEAN /\ rebootAfterTx \in BOOLEAN
  /\ notified \in BOOLEAN /\ reboot \in BOOLEAN
  /\ configured \in BOOLEAN /\ outArmed \in BOOLEAN
  /\ fwComplete \in BOOLEAN /\ updateReady \in BOOLEAN

UsbTypes ==
  /\ request \in Seq(Cell) /\ expected \in 0 .. MaxMessage
  /\ sessionGeneration \in 0 .. (SessionMod - 1)
  /\ session \in 0 .. (SessionMod - 1) /\ lastRequestId \in Nat
  /\ connectionGeneration \in 0 .. MaxGeneration

TaskTypes ==
  /\ pc \in {"wait", "begin", "prepare", "dispatch", "send"}
  /\ work \in Message \cup {None}
  /\ generation \in 0 .. MaxGeneration
  /\ response \in Response \cup {None}

EndpointTypes ==
  /\ outPacket \in Packets \cup {None}
  /\ inState \in {"idle", "armed", "done"}
  /\ inResponse \in Response \cup {None}

HistoryTypes ==
  /\ stale \subseteq {"out", "request", "work"}
  /\ lastExecuted \in [gen : 0 .. MaxGeneration, id : Nat]

(* Every variable keeps its type: the expected length never leaves the     *)
(* buffer, the session never leaves its 32 bits, work is a whole message.  *)
TypeOK == FlagTypes /\ UsbTypes /\ TaskTypes /\ EndpointTypes /\ HistoryTypes

(* What out_done relies on between packets (usb.c:88 and 94): a request    *)
(* never exceeds the buffer or its announced length, and one that is not   *)
(* complete still waits for a byte of the header or of the payload, so     *)
(* that the next packet can only make progress.                            *)
Reassembly ==
  /\ Len(request) <= MaxMessage
  /\ ready => Len(request) = expected
  /\ ~ready => IF expected = 0 THEN Len(request) < HeaderLen
                               ELSE Len(request) < expected

(* A complete request cannot be forgotten: as long as it waits on a live   *)
(* connection, the task has a notification to consume or is on its way to  *)
(* the first section of usb_work.                                          *)
WakeNotLost ==
  enabled /\ configured /\ ready => notified \/ pc = "begin"

(* A live connection always has somebody who will arm the OUT endpoint     *)
(* again: it is armed, or a transfer is in progress, or a request waits    *)
(* for the task, or the task works on one of this very connection.         *)
LinkAlive ==
  on /\ enabled /\ configured =>
    \/ outArmed \/ outPacket # None
    \/ inState # "idle"
    \/ ready
    \/ pc \in {"prepare", "dispatch", "send"} /\ generation = connectionGeneration

(* What the host can read was computed for a request of the connection it  *)
(* has now, never for one before a reset or a reconfiguration.             *)
ResponseOfThisConnection ==
  inState = "armed" => inResponse.gen = connectionGeneration

(* The reset that is armed for the end of a transfer waits for the end of  *)
(* FW_REBOOT's own positive response.                                      *)
RebootAfterOwnResponse ==
  rebootAfterTx => /\ inState \in {"armed", "done"}
                   /\ inResponse.op = "FW_REBOOT" /\ inResponse.status = 0
                   /\ inResponse.gen = connectionGeneration

(* A reset that the device performs for the host finds a complete update.  *)
RebootOnlyComplete == rebootAfterTx => fwComplete

(* On a live connection no packet arrives while a request waits, where     *)
(* out_done would drop it without telling anyone.                          *)
NothingDropped ==
  on /\ enabled /\ configured /\ ready => outPacket = None

(* A complete request stays as it was received until usb_work takes it or  *)
(* the connection is given up.                                             *)
RequestStable ==
  [][ready /\ ready' /\ enabled' => UNCHANGED <<request, expected>>]_vars

(* Commands run in order and at most once: a command that is executed has  *)
(* a greater id than the one executed before it, unless the connection is  *)
(* a later one (usb.c:146, an id is consumed before the command runs).     *)
AtMostOnce ==
  [][pc = "dispatch" /\ pc' = "send" =>
       \/ generation > lastExecuted.gen
       \/ generation = lastExecuted.gen /\ work.id > lastExecuted.id]_vars

(* No command is executed that contains bytes sent before the host         *)
(* configured the device: it needs a session, and that is over.  HELLO and *)
(* v1 records need none and are served (OldPacketRejected below).          *)
StaleNeverExecuted == pc = "dispatch" => "work" \notin stale

(* HELLO is granted a session id that is not 0 (0 means: no session) and   *)
(* not the one granted before, across the wrap of the counter, so that a   *)
(* request of the previous session is recognised (prepare_v2, usb.c:146).  *)
SessionFresh ==
  [][pc = "prepare" /\ pc' = "send" /\ work.op = "HELLO" /\ response'.status = 0 =>
       /\ response'.session = session' /\ session' # 0
       /\ session' # sessionGeneration]_vars

(* Bytes the host sent before it configured the device do not enter the    *)
(* request of the new configuration (docs/USB_BRINGUP_PROTOCOL.md:23, the  *)
(* epoch rejects callbacks of an old configuration).  They do: a whole     *)
(* HELLO even opens a session there (OpenSession).                         *)
OldPacketRejected == "request" \notin stale

(* A live connection returns to accepting requests when the host reads its *)
(* responses, unless it is given up or reset.                              *)
Rearmed ==
  (on /\ enabled /\ configured) ~> (outArmed \/ ~enabled \/ ~configured \/ ~on)
=============================================================================
