----------------------------- MODULE XcanSystem -----------------------------
(***************************************************************************)
(* The update command of the host tool (host/src/main.rs) with its session *)
(* (host/src/protocol_v2.rs), the device it talks to, and the user who     *)
(* starts it, stops it and pulls the plug.                                 *)
(*                                                                         *)
(* The device is FwUpdate behind the request buffer, session and response  *)
(* of usb.c; a request is served in one step here, XcanUsb has the         *)
(* interleavings within.  A message is one packet, FW_WRITE two: the tool  *)
(* may stop between them, and the tool that is started next talks to a     *)
(* device that waits for the second.                                       *)
(***************************************************************************)
EXTENDS Naturals

CONSTANTS
  \* of FwUpdate
  Images, Length, HeaderImages, SignedImages, Installed,
  PageWords, Pages, MinWords, ChunkMax, None,
  Files,        \* images a user gives to the tool
  Mixed,        \* data put together from the bytes of two runs
  MaxAttempts,  \* FW_BEGINs of a run, 20 in the code
  MaxRuns       \* bound: runs of the tool

ASSUME ClientAssumption ==
  /\ Files \subseteq HeaderImages /\ \A f \in Files : Length[f] >= MinWords
  /\ Mixed \in Images \ HeaderImages
  /\ MaxAttempts \in Nat \ {0} /\ MaxRuns \in Nat \ {0}

VARIABLES
  \* of FwUpdate
  mode, state, error, size, hash, next, eraseOffset, confirm, sec, trailer,
  primary, primaryState, backup, acked,
  \* usb.c
  link,        \* "off": not configured, "up": enabled, "deaf": not enabled
  session, sessionGeneration, lastRequestId,
  partial,     \* a request of which a packet is missing, or None
  request,     \* a complete one (ready), or None
  response,    \* the message in the IN endpoint, or None
  \* host tool
  run,         \* runs so far
  phase,       \* the request the tool is at, or "idle"
  packets,     \* packets of it sent
  file, id, hostSession, attempt, offset,
  \* history
  fresh,       \* no run since the device was configured
  undisturbed, \* nothing has come between this run and the device
  promised     \* the file whose update was reported as successful, until the boot

firmware == <<mode, state, error, size, hash, next, eraseOffset, confirm, sec,
              trailer, primary, primaryState, backup, acked>>
device == <<link, session, sessionGeneration, lastRequestId, partial, request, response>>
progress == <<id, hostSession, attempt, offset>>
tool == <<run, phase, packets, file, progress>>
vars == <<firmware, device, tool, fresh, undisturbed, promised>>

Fw == INSTANCE FwUpdate

ASSUME FirmwareAssumption == Fw!SizesAssumption /\ Fw!ImagesAssumption

Phases == {"HELLO", "BEGIN", "STATUS", "WRITE", "FINISH", "REBOOT"}

Requests ==
  [op: Phases \cup {"NOISE"}, id: Nat, session: 0 .. MaxRuns, run: 1 .. MaxRuns,
   img: Files \cup {Mixed}, offset: 0 .. (Fw!ImageMax - 1), length: 0 .. ChunkMax]

Responses ==
  [op: Phases \cup {"NOISE"}, id: Nat, session: 0 .. MaxRuns, run: 1 .. MaxRuns,
   img: Files \cup {Mixed}, state: Fw!States, next: 0 .. Fw!ImageMax,
   status: {"OK", "BUSY", "FAILED", "REFUSED", "STALE", "VERSION"}]

ASSUME NoneAssumption == None \notin Requests /\ None \notin Responses

Parts(op) == IF op = "WRITE" THEN 2 ELSE 1

Init ==
  /\ Fw!Init
  /\ link = "up" /\ session = 0 /\ sessionGeneration = 0 /\ lastRequestId = 0
  /\ partial = None /\ request = None /\ response = None
  /\ run = 0 /\ phase = "idle" /\ packets = 0 /\ file = None
  /\ id = 0 /\ hostSession = 0 /\ attempt = 0 /\ offset = 0
  /\ fresh = TRUE /\ undisturbed = FALSE /\ promised = None

----------------------------------------------------------------------------
(* The tool.                                                               *)

Active == phase # "idle"

(* The device is as a run expects it: configured anew, and not in the      *)
(* middle of an update to something else, nor of one to which another      *)
(* run's bytes have got: FW_BEGIN resumes it, and only FW_FINISH notices.  *)
Undisturbed(f) ==
  /\ fresh
  /\ Fw!Active => hash = f /\ \A k \in 0 .. (next - 1) : acked[k] = f

(* open, begin_payload and a new ClientSession.  The configuration and     *)
(* what the device remembers stay as they are.                             *)
Start(f) ==
  /\ ~Active /\ run < MaxRuns /\ link # "off"
  /\ run' = run + 1 /\ phase' = "HELLO" /\ packets' = 0 /\ file' = f
  /\ id' = 1 /\ hostSession' = 0 /\ attempt' = 1 /\ offset' = 0
  /\ undisturbed' = Undisturbed(f) /\ fresh' = FALSE
  /\ UNCHANGED <<firmware, device, promised>>

ChunkLength == IF Length[file] - offset < ChunkMax THEN Length[file] - offset ELSE ChunkMax

Message ==
  [op |-> phase, id |-> id, session |-> hostSession, run |-> run, img |-> file,
   offset |-> IF phase = "WRITE" THEN offset ELSE 0,
   length |-> IF phase = "WRITE" THEN ChunkLength ELSE 0]

(* The OUT endpoint takes no packet before the last response is read.      *)
OutArmed == link = "up" /\ request = None /\ response = None

Altered(m, op, img) ==
  [op |-> op, id |-> m.id, session |-> m.session, run |-> m.run, img |-> img,
   offset |-> m.offset, length |-> m.length]

(* A request that ends with the bytes of another.                          *)
MixedUp(m) == Altered(m, m.op, Mixed)

(* Bytes of version 1, or what out_done makes of a message that is too     *)
(* long: the answer will be one of version 1.                              *)
Noise(m) == Altered(m, "NOISE", m.img)

(* What a packet that belongs to another run makes of the request the      *)
(* device is collecting: that lacks still more, or is complete, or the     *)
(* packet is too long for it, or it does not decode and the connection is  *)
(* given up.                                                               *)
ForeignPacket ==
  \/ UNCHANGED <<link, partial, request>>
  \/ partial.op # "NOISE" /\ request' = MixedUp(partial) /\ partial' = None /\ UNCHANGED link
  \/ request' = Noise(partial) /\ partial' = None /\ UNCHANGED link
  \/ link' = "deaf" /\ partial' = None /\ UNCHANGED request

(* The second packet of a message of which a new configuration has made    *)
(* the device forget the first: nothing that begins like a request.        *)
OrphanPacket ==
  \/ partial' = Noise(Message) /\ UNCHANGED <<link, request>>
  \/ request' = Noise(Message) /\ UNCHANGED <<link, partial>>
  \/ link' = "deaf" /\ UNCHANGED <<partial, request>>

OwnPacket ==
  /\ IF packets + 1 = Parts(phase)
       THEN request' = Message /\ partial' = None
       ELSE partial' = Message /\ UNCHANGED request
  /\ UNCHANGED link

(* exchange_v2: the packets of a request one after the other.              *)
SendPacket ==
  /\ Active /\ packets < Parts(phase) /\ OutArmed
  /\ packets' = packets + 1
  /\ \/ partial = (IF packets = 0 THEN None ELSE Message) /\ OwnPacket
     \/ partial = None /\ packets > 0 /\ OrphanPacket
     \/ partial \notin {None, Message} /\ ForeignPacket
  /\ UNCHANGED <<firmware, session, sessionGeneration, lastRequestId, response,
                 run, phase, file, progress, fresh, undisturbed, promised>>

(* Mutation of Correlated: any response will do.                           *)
CorrelatedLoosely(r) == TRUE

(* receive_inner: the response to HELLO brings the session, any other must *)
(* be of it.                                                               *)
Correlated(r) ==
  /\ r.op = phase /\ r.id = id
  /\ hostSession # 0 => r.session = hostSession

(* Mutation of Acceptable: the status of FW_FINISH and FW_REBOOT is not    *)
(* asked (v2_response in the place of v2_request).                         *)
AcceptableAnyEnd(r) ==
  \/ phase \in {"FINISH", "REBOOT"}
  \/ r.status = "OK"
  \/ phase = "BEGIN" /\ r.status = "BUSY" /\ attempt < MaxAttempts

Acceptable(r) ==
  \/ r.status = "OK"
  \/ phase = "BEGIN" /\ r.status = "BUSY" /\ attempt < MaxAttempts

(* Mutation of LastChunk: an empty block follows the last one.             *)
LastChunkIsEmpty == offset = Length[file]

LastChunk == offset + ChunkLength = Length[file]

ResumeValid(n) == n <= Length[file] /\ (n = Length[file] \/ n % ChunkMax = 0)

End ==
  /\ phase' = "idle" /\ packets' = 0 /\ file' = None
  /\ id' = 0 /\ hostSession' = 0 /\ attempt' = 0 /\ offset' = 0
  /\ UNCHANGED run

GoOn(p) == phase' = p /\ packets' = 0 /\ id' = id + 1 /\ UNCHANGED <<run, file>>

(* The update loop, after a response it takes for an answer.               *)
Advance(r) ==
  \/ /\ phase = "HELLO" /\ GoOn("BEGIN")
     /\ hostSession' = r.session /\ UNCHANGED <<attempt, offset>>
  \/ /\ phase = "BEGIN"
     /\ IF r.status = "OK" THEN GoOn("STATUS") /\ UNCHANGED attempt
                           ELSE GoOn("BEGIN") /\ attempt' = attempt + 1
     /\ UNCHANGED <<hostSession, offset>>
  \/ /\ phase = "STATUS" /\ r.state = "ERASING"
     /\ GoOn("STATUS") /\ UNCHANGED <<hostSession, attempt, offset>>
  \/ /\ phase = "STATUS" /\ r.state \in {"READY", "RECEIVING"} /\ ResumeValid(r.next)
     /\ GoOn(IF r.next = Length[file] THEN "FINISH" ELSE "WRITE")
     /\ offset' = r.next
     /\ UNCHANGED <<hostSession, attempt>>
  \/ /\ phase = "STATUS"
     /\ \/ r.state \notin {"ERASING", "READY", "RECEIVING"}
        \/ r.state # "ERASING" /\ ~ResumeValid(r.next)
     /\ End
  \/ /\ phase = "WRITE"
     /\ GoOn(IF LastChunk THEN "FINISH" ELSE "WRITE")
     /\ offset' = offset + ChunkLength
     /\ UNCHANGED <<hostSession, attempt>>
  \/ phase = "FINISH" /\ GoOn("REBOOT") /\ UNCHANGED <<hostSession, attempt, offset>>
  \/ phase = "REBOOT" /\ End

(* Mutation of NewConnection: a request half received is kept.             *)
NewConnectionKeepPartial ==
  /\ session' = 0 /\ lastRequestId' = 0
  /\ request' = None /\ response' = None /\ UNCHANGED partial

(* event: a reset of the bus and a new configuration, or of all.           *)
NewConnection ==
  /\ session' = 0 /\ lastRequestId' = 0
  /\ request' = None /\ response' = None /\ partial' = None

LoseDevice == link' = "off" /\ sessionGeneration' = 0 /\ NewConnection

(* The response is read; reboot_after_tx makes the device reset after that *)
(* of FW_REBOOT.                                                           *)
Read ==
  LET r == response
  IN /\ Active /\ packets = Parts(phase) /\ response # None
     /\ IF Correlated(r) /\ Acceptable(r) THEN Advance(r) ELSE End
     /\ IF r.op = "REBOOT" /\ r.status = "OK"
          THEN LoseDevice /\ Fw!PowerCut
          ELSE /\ response' = None
               /\ UNCHANGED <<firmware, link, session, sessionGeneration,
                              lastRequestId, partial, request>>
     /\ promised' = IF phase = "REBOOT" /\ Correlated(r) /\ Acceptable(r) THEN file ELSE promised
     /\ UNCHANGED <<fresh, undisturbed>>

(* Mutation of NothingComes: the deadline is for reading only.             *)
NothingToRead ==
  packets = Parts(phase) /\ response = None /\ (request = None \/ link # "up")

(* The device takes no packet, as the response to a run that has stopped   *)
(* was not read; or it will not answer.                                    *)
NothingComes ==
  IF packets < Parts(phase) THEN ~OutArmed /\ request = None
  ELSE response = None /\ (request = None \/ link # "up")

(* Two seconds pass.                                                       *)
Timeout ==
  /\ Active /\ NothingComes
  /\ End
  /\ UNCHANGED <<firmware, device, fresh, undisturbed, promised>>

----------------------------------------------------------------------------
(* The device.                                                             *)

Answer(status, s) ==
  [op |-> request.op, id |-> request.id, session |-> s, status |-> status,
   run |-> request.run, img |-> request.img, state |-> state', next |-> next']

Respond(status) ==
  /\ response' = Answer(status, request.session) /\ request' = None
  /\ UNCHANGED <<link, sessionGeneration, partial>>

Refuse(status) == UNCHANGED <<firmware, undisturbed>> /\ Respond(status)

FlashFailed == state' = "ERROR" /\ error' \in {"IO", "PENDING"}

(* A command of fw_update.c; its result shows in the state.  A failure of  *)
(* the flash disturbs the run, a power failure loses the device.           *)
Result(command, status) ==
  /\ command
  /\ \/ /\ mode' = "app" /\ Respond(status)
        /\ undisturbed' = (undisturbed /\ ~FlashFailed)
     \/ /\ mode' = "off" /\ LoseDevice /\ undisturbed' = FALSE

OkUnlessError == IF state' = "ERROR" THEN "FAILED" ELSE "OK"

(* prepare_v2                                                              *)
ServeHello ==
  /\ request.op = "HELLO"
  /\ IF session # 0
       THEN Refuse("REFUSED") /\ UNCHANGED <<session, lastRequestId>>
       ELSE /\ sessionGeneration' = sessionGeneration + 1
            /\ session' = sessionGeneration' /\ lastRequestId' = request.id
            /\ UNCHANGED <<firmware, link, partial, undisturbed>>
            /\ response' = Answer("OK", session') /\ request' = None

(* xcan_reply: version 1, nothing the tool takes for a response.           *)
ServeNoise ==
  request.op = "NOISE" /\ Refuse("VERSION") /\ UNCHANGED <<session, lastRequestId>>

(* Of an id already used: BAD_STATE.                                       *)
ServeStale ==
  /\ request.op \notin {"HELLO", "NOISE"}
  /\ request.session # session \/ request.id <= lastRequestId
  /\ Refuse(IF request.session # session THEN "STALE" ELSE "REFUSED")
  /\ UNCHANGED <<session, lastRequestId>>

(* The main task confirms the image a second after it has started; the     *)
(* last attempt comes 1.9 s after the first.                               *)
ServeBegin ==
  /\ attempt = MaxAttempts => confirm = "done"
  /\ IF confirm # "done" THEN Refuse("BUSY")
     ELSE IF Fw!Active THEN Refuse(IF hash = request.img THEN "OK" ELSE "REFUSED")
     ELSE Result(Fw!Begin(Length[request.img], request.img), OkUnlessError)

ServeStatus ==
  IF state = "ERASING" THEN Result(Fw!Step, "OK") ELSE Refuse("OK")

ServeWrite ==
  IF state = "ERASING" THEN Refuse("BUSY")
  ELSE IF ~Fw!WriteAllowed(request.offset, request.length) \/ request.offset > next
    THEN Refuse("REFUSED")
  ELSE IF request.offset = next
    THEN Result(Fw!Write(request.offset, request.length, request.img), OkUnlessError)
  ELSE IF Fw!SameData(request.offset, request.length, request.img)
    THEN Result(Fw!WriteAgain(request.offset, request.length, request.img), "OK")
  ELSE Refuse("REFUSED")

ServeFinish ==
  IF Fw!FinishAllowed THEN Result(Fw!Finish \/ Fw!FinishRefused, OkUnlessError)
  ELSE Refuse("REFUSED")

ServeReboot == Refuse(IF state = "COMPLETE" THEN "OK" ELSE "REFUSED")

(* dispatch_v2                                                             *)
ServeCommand ==
  /\ request.op \notin {"HELLO", "NOISE"} /\ request.session = session /\ request.id > lastRequestId
  /\ \/ request.op = "BEGIN" /\ ServeBegin
     \/ request.op = "STATUS" /\ ServeStatus
     \/ request.op = "WRITE" /\ ServeWrite
     \/ request.op = "FINISH" /\ ServeFinish
     \/ request.op = "REBOOT" /\ ServeReboot
  /\ mode' = "app" => lastRequestId' = request.id /\ UNCHANGED session

Serve ==
  /\ link = "up" /\ request # None /\ response = None
  /\ ServeHello \/ ServeNoise \/ ServeStale \/ ServeCommand
  /\ UNCHANGED <<tool, fresh, promised>>

----------------------------------------------------------------------------
(* What else happens.                                                      *)

(* The tool is killed, or its deadline passes for another reason.          *)
Stop ==
  /\ Active /\ End
  /\ undisturbed' = FALSE
  /\ UNCHANGED <<firmware, device, fresh, promised>>

(* A bus reset and a new configuration.                                    *)
Reconfigure ==
  /\ link # "off"
  /\ link' = "up" /\ NewConnection
  /\ fresh' = ~Active /\ undisturbed' = FALSE
  /\ UNCHANGED <<firmware, sessionGeneration, tool, promised>>

Confirm ==
  /\ Fw!Confirmation
  /\ IF mode' = "off" THEN LoseDevice /\ undisturbed' = FALSE
                      ELSE UNCHANGED <<device, undisturbed>>
  /\ UNCHANGED <<tool, fresh, promised>>

Unplug ==
  /\ Fw!PowerCut /\ LoseDevice
  /\ undisturbed' = FALSE
  /\ UNCHANGED <<tool, fresh, promised>>

Boot ==
  /\ Fw!Boot
  /\ promised' = None
  /\ UNCHANGED <<device, tool, fresh, undisturbed>>

(* The host configures the device; a run does not survive its device.      *)
Attach ==
  /\ ~Active /\ mode = "app" /\ link = "off"
  /\ link' = "up" /\ fresh' = TRUE
  /\ UNCHANGED <<firmware, session, sessionGeneration, lastRequestId, partial,
                 request, response, tool, undisturbed, promised>>

ToolStep == SendPacket \/ Read \/ Timeout

Next ==
  \/ \E f \in Files : Start(f)
  \/ ToolStep \/ Stop
  \/ Serve \/ Confirm \/ Boot
  \/ Attach \/ Reconfigure \/ Unplug

Spec == Init /\ [][Next]_vars

(* The tool and the two tasks of the device run.                           *)
FairSpec == Spec /\ WF_vars(ToolStep) /\ WF_vars(Serve) /\ WF_vars(Confirm)

----------------------------------------------------------------------------
(* Properties.                                                             *)

(* Every variable keeps its type; the tool never sends from an offset at   *)
(* or behind the end of the image.                                         *)
TypeOK ==
  /\ link \in {"off", "up", "deaf"}
  /\ session \in 0 .. MaxRuns /\ sessionGeneration \in 0 .. MaxRuns
  /\ lastRequestId \in Nat
  /\ partial \in Requests \cup {None} /\ request \in Requests \cup {None}
  /\ response \in Responses \cup {None}
  /\ run \in 0 .. MaxRuns /\ phase \in Phases \cup {"idle"} /\ packets \in 0 .. 2
  /\ file \in Files \cup {None}
  /\ id \in Nat /\ hostSession \in 0 .. MaxRuns /\ attempt \in 0 .. MaxAttempts
  /\ offset \in 0 .. Fw!ImageMax
  /\ Active => packets <= Parts(phase)
  /\ fresh \in BOOLEAN /\ undisturbed \in BOOLEAN /\ promised \in Files \cup {None}

(* The tool goes on only with the answer to its own request: never with a  *)
(* response to a run before, nor with one to a request that was completed  *)
(* by foreign bytes (protocol_v2.rs:342, main.rs:119).                     *)
AnswerIsOwn ==
  [][Active /\ id' > id =>
       response.run = run /\ response.id = id /\ response.img = file]_vars

(* An update reported as successful is what boots next, if it is signed    *)
(* (main.rs:213).                                                          *)
PromiseKept ==
  [][mode = "off" /\ mode' = "app" /\ promised \in SignedImages =>
       primary' = promised /\ primaryState' = "test"]_vars

(* A run that finds a device configured anew, and that nobody stops or     *)
(* unplugs, and whose flash works, does not fail: whatever runs before it  *)
(* have left in the device (main.rs:181).                                  *)
UndisturbedSucceeds ==
  [][undisturbed /\ Active /\ undisturbed' /\ phase' = "idle" => promised' = file]_vars

(* Every run ends: the erase loop, the retries of FW_BEGIN and all waiting *)
(* are bounded (main.rs:170, 181).                                         *)
RunEnds == Active ~> ~Active

(* docs/USB_CAN_PROTOCOL_V2.md:17: the host sends HELLO in a new           *)
(* configuration, when old data in the endpoints are gone.                 *)
HelloOnNewConfiguration ==
  phase = "HELLO" /\ packets = 0 =>
    link = "off" \/ (session = 0 /\ partial = None /\ response = None)
=============================================================================
