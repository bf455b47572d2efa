-------------------------- MODULE XcanSystem_proofs --------------------------
(***************************************************************************)
(* Theorems about the update command of the host tool and the device it    *)
(* talks to (XcanSystem.tla), for any number of runs, any files, and any   *)
(* sizes of the flash.  The invariants build on each other: OwnInv (whose  *)
(* message is under way), SysInv (types, sessions, the device's update),   *)
(* PromiseInv (whose image is announced and scheduled), SuccessInv (where  *)
(* a run that nothing disturbs and the device stand).                      *)
(***************************************************************************)
EXTENDS XcanSystem, Integers, TLAPS

(* At most one message is under way.                                       *)
OneMessage ==
  /\ response # None => request = None /\ partial = None
  /\ request # None => partial = None

(* What is under way is of this run or of one before; with a session, the  *)
(* run has read its HELLO's response, and everything before is gone.  What *)
(* a run before has left cannot be a HELLO that came after this run's      *)
(* first packet.                                                           *)
Known(m) ==
  m # None =>
    /\ m.run \in Nat /\ m.run <= run
    /\ Active /\ m.run = run => m.img = file
    /\ Active /\ packets = 0 => m.run < run
    /\ Active /\ hostSession # 0 => m.run = run
    /\ Active /\ packets > 0 /\ m.run < run => m.op # "HELLO"

(* Only FW_WRITE has a second packet.                                      *)
PartialInv ==
  partial # None =>
    /\ partial.op # "HELLO"
    /\ Active /\ partial.run = run => partial = Message \/ partial.op = "NOISE"

SessionInv ==
  /\ Active => (hostSession = 0 <=> phase = "HELLO")
  /\ response # None /\ response.op = "HELLO" /\ response.status = "OK" =>
       response.session # 0

OwnInv ==
  /\ run \in Nat /\ id \in Nat /\ packets \in Nat /\ sessionGeneration \in Nat
  /\ OneMessage /\ PartialInv /\ SessionInv
  /\ Known(partial) /\ Known(request) /\ Known(response)

----------------------------------------------------------------------------
(* A response repeats what identifies its request; what HELLO is granted   *)
(* is not 0; a device that is lost takes everything with it.               *)
LEMMA ServeResult ==
  ASSUME OwnInv, Serve
  PROVE  /\ request # None /\ response = None /\ UNCHANGED tool
         /\ request' = None /\ sessionGeneration' \in Nat
         /\ \/ partial' = None /\ response' = None
            \/ /\ UNCHANGED partial
               /\ response'.run = request.run /\ response'.img = request.img
               /\ response'.op = request.op
               /\ response'.op = "HELLO" /\ response'.status = "OK" =>
                    response'.session # 0
<1>1. sessionGeneration \in Nat /\ 0 \in Nat
  BY DEF OwnInv
<1>2. request # None /\ response = None /\ UNCHANGED tool
  BY DEF Serve
<1> DEFINE Answered == /\ request' = None /\ UNCHANGED <<partial, sessionGeneration>>
                       /\ response'.run = request.run /\ response'.img = request.img
                       /\ response'.op = request.op
           Lost == /\ request' = None /\ partial' = None /\ response' = None
                   /\ sessionGeneration' = 0
<1>3. ASSUME NEW status, Respond(status)
      PROVE  Answered /\ response'.status = status
  BY <1>3 DEF Respond, Answer
<1>4. ASSUME NEW status, Refuse(status)
      PROVE  Answered /\ response'.status = status
  BY <1>3, <1>4 DEF Refuse
<1>5. LoseDevice => Lost
  BY DEF LoseDevice, NewConnection
<1>6. CASE ServeHello
  <2>1. CASE session # 0
    <3>1. Refuse("REFUSED")
      BY <1>6, <2>1 DEF ServeHello
    <3>2. Answered /\ response'.status = "REFUSED"
      BY <1>4, <3>1
    <3> QED BY <1>1, <1>2, <3>2
  <2>2. CASE ~(session # 0)
    <3>1. /\ sessionGeneration' = sessionGeneration + 1
          /\ UNCHANGED partial /\ request' = None
          /\ response' = Answer("OK", sessionGeneration')
      BY <1>6, <2>2 DEF ServeHello
    <3>2. /\ response'.run = request.run /\ response'.img = request.img
          /\ response'.op = request.op /\ response'.session = sessionGeneration'
      BY <3>1 DEF Answer
    <3> QED BY <1>1, <1>2, <3>1, <3>2
  <2> QED BY <2>1, <2>2
<1>7. CASE ServeStale
  <2>1. Answered
    BY <1>4, <1>7 DEF ServeStale
  <2> QED BY <1>1, <1>2, <1>7, <2>1 DEF ServeStale
<1>8. CASE ServeCommand
  <2>1. request.op # "HELLO"
    BY <1>8 DEF ServeCommand
  <2>2. ASSUME NEW status, NEW command \in BOOLEAN, Result(command, status)
        PROVE  Answered \/ Lost
    BY <1>3, <1>5, <2>2 DEF Result
  <2>3. Answered \/ Lost
    <3>1. CASE ServeBegin
      BY <1>3, <1>4, <1>5, <3>1 DEF ServeBegin, Result
    <3>2. CASE ServeStatus
      BY <1>3, <1>4, <1>5, <3>2 DEF ServeStatus, Result
    <3>3. CASE ServeWrite
      BY <1>3, <1>4, <1>5, <3>3 DEF ServeWrite, Result
    <3>4. CASE ServeFinish \/ ServeReboot
      BY <1>3, <1>4, <1>5, <3>4 DEF ServeFinish, ServeReboot, Result
    <3> QED BY <1>8, <3>1, <3>2, <3>3, <3>4 DEF ServeCommand
  <2> QED BY <1>1, <1>2, <2>1, <2>3
<1>9. CASE ServeNoise
  <2>1. Answered
    BY <1>4, <1>9 DEF ServeNoise
  <2> QED BY <1>1, <1>2, <1>9, <2>1 DEF ServeNoise
<1> QED BY <1>6, <1>7, <1>8, <1>9 DEF Serve

(* The device's steps leave the run alone.                                 *)
LEMMA ServeKeeps ==
  ASSUME OwnInv, Serve
  PROVE  OwnInv'
<1>1. UNCHANGED <<run, phase, packets, file, id, hostSession, attempt, offset>>
  BY ServeResult DEF tool, progress
<1>2. Message' = Message /\ (Active' <=> Active)
  BY <1>1 DEF Message, ChunkLength, Active
<1>3. CASE partial' = None /\ response' = None
  BY <1>1, <1>2, <1>3, ServeResult
     DEF OwnInv, OneMessage, PartialInv, SessionInv, Known
<1>4. CASE ~(partial' = None /\ response' = None)
  <2>1. /\ partial = None /\ partial' = None /\ request' = None
        /\ response'.run = request.run /\ response'.img = request.img
        /\ response'.op = request.op /\ request # None
        /\ response'.op = "HELLO" /\ response'.status = "OK" => response'.session # 0
    BY <1>4, ServeResult DEF OwnInv, OneMessage
  <2>2. Known(response)'
    BY <1>1, <1>2, <2>1 DEF OwnInv, Known
  <2> QED BY <1>1, <1>2, <2>1, <2>2, ServeResult
       DEF OwnInv, OneMessage, PartialInv, SessionInv, Known
<1> QED BY <1>3, <1>4

(* A packet begins a message of this run, or ends up in what is left of    *)
(* one before.                                                             *)
LEMMA SendKeeps ==
  ASSUME OwnInv, SendPacket
  PROVE  OwnInv'
<1>1. /\ UNCHANGED <<run, phase, file, id, hostSession, attempt, offset,
                     sessionGeneration, response>>
      /\ packets' = packets + 1 /\ Active /\ Active' /\ packets < Parts(phase)
      /\ request = None /\ response = None
  BY DEF SendPacket, OutArmed, progress, Active
<1>2. Message' = Message /\ Message.run = run /\ Message.img = file /\ Message.op = phase
  BY <1>1 DEF Message, ChunkLength
<1>3. packets' \in Nat /\ packets' > 0 /\ packets \in Nat
  BY <1>1 DEF OwnInv
<1>4. SessionInv'
  BY <1>1 DEF OwnInv, SessionInv
<1>5. CASE OwnPacket
  <2>1. CASE packets + 1 = Parts(phase)
    <3>1. request' = Message /\ partial' = None
      BY <1>5, <2>1 DEF OwnPacket
    <3>2. Known(request)'
      BY <1>1, <1>2, <1>3, <3>1 DEF Known, OwnInv
    <3> QED BY <1>1, <1>3, <1>4, <3>1, <3>2 DEF OwnInv, OneMessage, PartialInv, Known
  <2>2. CASE packets + 1 # Parts(phase)
    <3>1. partial' = Message /\ request' = None
      BY <1>1, <1>5, <2>2 DEF OwnPacket
    <3>2. phase = "WRITE"
      BY <1>1, <1>3, <2>2 DEF Parts
    <3>3. Known(partial)' /\ PartialInv'
      BY <1>1, <1>2, <1>3, <3>1, <3>2 DEF Known, PartialInv, OwnInv
    <3> QED BY <1>1, <1>3, <1>4, <3>1, <3>3 DEF OwnInv, OneMessage, Known
  <2> QED BY <2>1, <2>2
<1>6. CASE partial = None /\ OrphanPacket
  <2>1. /\ Noise(Message).run = run /\ Noise(Message).img = file
        /\ Noise(Message).op = "NOISE"
    BY <1>2 DEF Noise, Altered, Message
  <2>2. CASE UNCHANGED <<partial, request>>
    BY <1>1, <1>3, <1>4, <1>6, <2>2 DEF OwnInv, OneMessage, PartialInv, Known
  <2>3. CASE partial' = Noise(Message) /\ UNCHANGED request
    BY <1>1, <1>3, <1>4, <1>6, <2>1, <2>3 DEF OwnInv, OneMessage, PartialInv, Known
  <2>4. CASE request' = Noise(Message) /\ UNCHANGED partial
    BY <1>1, <1>3, <1>4, <1>6, <2>1, <2>4 DEF OwnInv, OneMessage, PartialInv, Known
  <2> QED BY <1>6, <2>2, <2>3, <2>4 DEF OrphanPacket
<1>7. CASE partial \notin {None, Message} /\ ForeignPacket
  <2>1. /\ partial # None /\ partial.op # "HELLO" /\ partial.run \in Nat
        /\ partial.run < run \/ (partial.run = run /\ partial.op = "NOISE")
        /\ partial.run = run => partial.img = file
        /\ hostSession # 0 => partial.run = run
    BY <1>1, <1>7 DEF OwnInv, PartialInv, Known
  <2>2. CASE UNCHANGED <<partial, request>>
    BY <1>1, <1>2, <1>3, <1>4, <2>1, <2>2
       DEF OwnInv, OneMessage, PartialInv, Known
  <2>3. CASE request' = MixedUp(partial) /\ partial' = None /\ partial.op # "NOISE"
    <3>1. request'.run = partial.run /\ request'.op = partial.op
      BY <2>3 DEF MixedUp, Altered
    <3>2. Known(request)'
      BY <1>1, <1>3, <2>1, <2>3, <3>1 DEF OwnInv, Known
    <3> QED BY <1>1, <1>3, <1>4, <2>3, <3>2 DEF OwnInv, OneMessage, PartialInv, Known
  <2>4. CASE partial' = None /\ UNCHANGED request
    BY <1>1, <1>3, <1>4, <2>4 DEF OwnInv, OneMessage, PartialInv, Known
  <2>5. CASE request' = Noise(partial) /\ partial' = None
    <3>1. /\ request'.op = "NOISE"
          /\ request'.run = partial.run /\ request'.img = partial.img
      BY <2>5 DEF Noise, Altered
    <3>2. Known(request)'
      BY <1>1, <1>3, <2>1, <2>5, <3>1 DEF OwnInv, Known
    <3> QED BY <1>1, <1>3, <1>4, <2>5, <3>2 DEF OwnInv, OneMessage, PartialInv, Known
  <2> QED BY <1>7, <2>2, <2>3, <2>4, <2>5 DEF ForeignPacket
<1> QED BY <1>5, <1>6, <1>7 DEF SendPacket

(* The tool goes on with an answer to its own request.                     *)
LEMMA AnswerFound ==
  ASSUME OwnInv, Active, packets = Parts(phase), response # None,
         Correlated(response), Acceptable(response)
  PROVE  /\ response.run = run /\ response.id = id /\ response.img = file
         /\ phase = "HELLO" => response.session # 0
<1>1. response.op = phase /\ response.id = id /\ packets > 0
  BY DEF Correlated, Parts
<1>2. response.run = run
  BY <1>1 DEF OwnInv, SessionInv, Known
<1>3. phase = "HELLO" => response.status = "OK"
  BY DEF Acceptable
<1> QED BY <1>1, <1>2, <1>3 DEF OwnInv, SessionInv, Known

(* The next request, or the end of the run, after a response.              *)
LEMMA ReadKeeps ==
  ASSUME OwnInv, Read
  PROVE  OwnInv'
<1>1. /\ Active /\ packets = Parts(phase) /\ response # None
      /\ request = None /\ partial = None
  BY DEF Read, OwnInv, OneMessage
<1>2. /\ request' = None /\ partial' = None /\ response' = None
      /\ sessionGeneration' \in Nat
  BY <1>1 DEF Read, LoseDevice, NewConnection, OwnInv
<1>3. CASE End
  BY <1>2, <1>3 DEF End, Active, OwnInv, OneMessage, PartialInv, SessionInv, Known
<1>4. CASE Correlated(response) /\ Acceptable(response) /\ Advance(response) /\ ~End
  <2>1. phase = "HELLO" => response.session # 0
    BY <1>1, <1>4, AnswerFound
  <2>2. /\ run' = run /\ packets' = 0 /\ id' = id + 1
        /\ phase' \in Phases \ {"HELLO"}
        /\ phase = "HELLO" => hostSession' = response.session
        /\ phase # "HELLO" => hostSession' = hostSession
    BY <1>4 DEF Advance, GoOn, Phases
  <2>3. SessionInv'
    BY <1>1, <1>2, <2>1, <2>2 DEF OwnInv, SessionInv, Active, Phases
  <2> QED BY <1>2, <2>2, <2>3 DEF OwnInv, OneMessage, PartialInv, Known
<1> QED BY <1>3, <1>4 DEF Read

(* A new run begins with nothing of its own under way.                     *)
LEMMA StartKeeps ==
  ASSUME OwnInv, NEW f \in Files, Start(f)
  PROVE  OwnInv'
<1>1. /\ run' = run + 1 /\ phase' = "HELLO" /\ packets' = 0 /\ id' = 1
      /\ hostSession' = 0 /\ file' = f
      /\ UNCHANGED <<sessionGeneration, partial, request, response>>
  BY DEF Start, device
<1>2. run \in Nat /\ run' \in Nat
  BY <1>1 DEF OwnInv
<1>3. Known(partial)' /\ Known(request)' /\ Known(response)'
  BY <1>1, <1>2 DEF OwnInv, Known
<1>4. PartialInv'
  BY <1>1, <1>2 DEF OwnInv, PartialInv, Known
<1> QED BY <1>1, <1>2, <1>3, <1>4 DEF OwnInv, OneMessage, SessionInv, Active

(* Everything else: the run ends, or the device forgets what it has, or    *)
(* neither.                                                                *)
LEMMA OtherKeeps ==
  ASSUME OwnInv,
         \/ End /\ UNCHANGED device
         \/ /\ UNCHANGED tool
            /\ \/ UNCHANGED device
               \/ partial' = None /\ request' = None /\ response' = None
            /\ sessionGeneration' \in {0, sessionGeneration}
  PROVE  OwnInv'
<1>1. CASE End /\ UNCHANGED device
  BY <1>1 DEF End, device, Active, OwnInv, OneMessage, PartialInv, SessionInv, Known
<1>2. CASE /\ UNCHANGED tool /\ sessionGeneration' \in {0, sessionGeneration}
           /\ \/ UNCHANGED device
              \/ partial' = None /\ request' = None /\ response' = None
  <2>1. UNCHANGED <<run, phase, packets, file, id, hostSession, attempt, offset>>
    BY <1>2 DEF tool, progress
  <2>2. Message' = Message /\ (Active' <=> Active)
    BY <2>1 DEF Message, ChunkLength, Active
  <2>3. CASE UNCHANGED device
    BY <1>2, <2>1, <2>2, <2>3
       DEF device, OwnInv, OneMessage, PartialInv, SessionInv, Known
  <2>4. CASE partial' = None /\ request' = None /\ response' = None
    BY <1>2, <2>1, <2>2, <2>4 DEF OwnInv, OneMessage, PartialInv, SessionInv, Known
  <2> QED BY <1>2, <2>3, <2>4
<1> QED BY <1>1, <1>2

(* Each step keeps the invariant.                                          *)
LEMMA OwnInvStep ==
  ASSUME OwnInv, [Next]_vars
  PROVE  OwnInv'
<1>1. CASE Timeout \/ Stop
  BY <1>1, OtherKeeps DEF Timeout, Stop
<1>2. CASE Reconfigure
  <2>1. /\ UNCHANGED <<tool, sessionGeneration>>
        /\ partial' = None /\ request' = None /\ response' = None
    BY <1>2 DEF Reconfigure, NewConnection
  <2> QED BY <2>1, OtherKeeps
<1>3. CASE Confirm \/ Unplug
  <2>1. LoseDevice => /\ partial' = None /\ request' = None /\ response' = None
                      /\ sessionGeneration' = 0
    BY DEF LoseDevice, NewConnection
  <2>2. UNCHANGED device => UNCHANGED sessionGeneration
    BY DEF device
  <2> QED BY <1>3, <2>1, <2>2, OtherKeeps DEF Confirm, Unplug
<1>4. CASE Boot
  <2>1. UNCHANGED device /\ UNCHANGED tool
    BY <1>4 DEF Boot
  <2>2. UNCHANGED sessionGeneration
    BY <2>1 DEF device
  <2> QED BY <2>1, <2>2, OtherKeeps
<1>5. CASE Attach
  <2>1. /\ UNCHANGED <<sessionGeneration, partial, request, response>>
        /\ UNCHANGED <<run, phase, packets, file, id, hostSession, attempt, offset>>
    BY <1>5 DEF Attach, tool, progress
  <2>2. Message' = Message /\ (Active' <=> Active)
    BY <2>1 DEF Message, ChunkLength, Active
  <2> QED BY <2>1, <2>2 DEF OwnInv, OneMessage, PartialInv, SessionInv, Known
<1>6. CASE UNCHANGED vars
  <2>1. UNCHANGED device /\ UNCHANGED tool
    BY <1>6 DEF vars
  <2>2. UNCHANGED sessionGeneration
    BY <2>1 DEF device
  <2> QED BY <2>1, <2>2, OtherKeeps
<1> QED BY <1>1, <1>2, <1>3, <1>4, <1>5, <1>6, ServeKeeps, SendKeeps, ReadKeeps,
   StartKeeps DEF Next, ToolStep

(* Nothing is under way yet.                                               *)
LEMMA OwnInvInitially ==
  ASSUME Init
  PROVE  OwnInv
<1>1. /\ run = 0 /\ id = 0 /\ packets = 0 /\ sessionGeneration = 0 /\ phase = "idle"
      /\ partial = None /\ request = None /\ response = None
  BY DEF Init
<1> QED BY <1>1 DEF OwnInv, OneMessage, PartialInv, SessionInv, Known, Active

(* The tool never goes on with the answer to a request of another run, nor *)
(* with one to a request that another run's bytes have completed: with its *)
(* session come only its own responses, and before it only a HELLO's, of   *)
(* which an interrupted run leaves none behind its first packet.           *)
THEOREM AnswersAreOwn == Spec => AnswerIsOwn
<1>1. Init => OwnInv
  BY OwnInvInitially
<1>2. OwnInv /\ [Next]_vars => OwnInv'
  BY OwnInvStep
<1>3. ASSUME OwnInv, [Next]_vars
      PROVE  [Active /\ id' > id =>
                response.run = run /\ response.id = id /\ response.img = file]_vars
  <2> SUFFICES ASSUME Active, id' > id
               PROVE  response.run = run /\ response.id = id /\ response.img = file
    OBVIOUS
  <2>1. id \in Nat
    BY <1>3 DEF OwnInv
  <2>2. ~End
    BY <2>1 DEF End
  <2>3. id' # id
    BY <2>1
  <2>4. Read
    BY <1>3, <2>2, <2>3 DEF Next, ToolStep, Start, SendPacket, Timeout, Stop, Serve, Confirm,
       Boot, Attach, Reconfigure, Unplug, tool, progress, vars
  <2>5. /\ packets = Parts(phase) /\ response # None
        /\ Correlated(response) /\ Acceptable(response)
    BY <2>2, <2>4 DEF Read
  <2> QED BY <1>3, <2>5, AnswerFound
<1> QED BY <1>1, <1>2, <1>3, PTL DEF Spec, AnswerIsOwn
----------------------------------------------------------------------------
(* The device as an update of the firmware: the invariant of FwUpdate holds *)
(* in the system.                                                          *)

FwP == INSTANCE FwUpdate_proofs

LEMMA FirmwareConstants ==
  /\ FwP!SizesAssumption /\ FwP!ImagesAssumption
  /\ Fw!ImageMax \in Nat /\ MinWords \in Nat \ {0} /\ ChunkMax \in Nat \ {0}
  /\ Length \in [Images -> 1 .. Fw!ImageMax]
  /\ HeaderImages \subseteq Images /\ None \notin Images
  /\ Files \subseteq Images /\ Mixed \in Images
BY FirmwareAssumption, ClientAssumption
   DEF Fw!SizesAssumption, FwP!SizesAssumption, Fw!ImagesAssumption, FwP!ImagesAssumption,
       Fw!ImageMax, FwP!ImageMax

(* Both instances of FwUpdate mean the same.                               *)
LEMMA SameFirmware ==
  /\ Fw!Init => FwP!Init
  /\ Fw!Next => FwP!Next
  /\ UNCHANGED Fw!vars => UNCHANGED FwP!vars
<1>1. Fw!Init => FwP!Init
  BY DEF Fw!Init, FwP!Init, Fw!NoneAcked, FwP!NoneAcked, Fw!Slot, FwP!Slot,
     Fw!Blank, FwP!Blank, Fw!Garbage, FwP!Garbage, Fw!ImageMax, FwP!ImageMax
<1>2. UNCHANGED Fw!vars => UNCHANGED FwP!vars
  BY DEF Fw!vars, FwP!vars, Fw!updateVars, FwP!updateVars, Fw!flashVars, FwP!flashVars,
     Fw!bootVars, FwP!bootVars
<1>3. Fw!Next => FwP!Next
  BY DEF Fw!ImageMax, FwP!ImageMax, Fw!Slot, FwP!Slot, Fw!Blank, FwP!Blank, Fw!Garbage,
         FwP!Garbage, Fw!NoneAcked, FwP!NoneAcked, Fw!ResetUpdate, FwP!ResetUpdate,
         Fw!Fail, FwP!Fail, Fw!PowerOff, FwP!PowerOff, Fw!FailOrPowerOff,
         FwP!FailOrPowerOff, Fw!PageOf, FwP!PageOf, Fw!Erased, FwP!Erased,
         Fw!HalfErased, FwP!HalfErased, Fw!HalfErasedTrailer, FwP!HalfErasedTrailer,
         Fw!Programmed, FwP!Programmed, Fw!Programmable, FwP!Programmable,
         Fw!HalfProgrammed, FwP!HalfProgrammed, Fw!Running, FwP!Running, Fw!Active,
         FwP!Active, Fw!BeginAllowed, FwP!BeginAllowed, Fw!Begin, FwP!Begin,
         Fw!StepPage, FwP!StepPage, Fw!ErasedAll, FwP!ErasedAll, Fw!Advance,
         FwP!Advance, Fw!Step, FwP!Step, Fw!WriteAllowed, FwP!WriteAllowed, Fw!Write,
         FwP!Write, Fw!SameData, FwP!SameData, Fw!WriteAgain, FwP!WriteAgain,
         Fw!HasMagic, FwP!HasMagic, Fw!Holds, FwP!Holds, Fw!DigestMatches,
         FwP!DigestMatches, Fw!SetPendingOk, FwP!SetPendingOk, Fw!HalfPending,
         FwP!HalfPending, Fw!FinishAllowed, FwP!FinishAllowed, Fw!Verified,
         FwP!Verified, Fw!FinishRefused, FwP!FinishRefused, Fw!Finish, FwP!Finish,
         Fw!Abort, FwP!Abort, Fw!ConfirmStart, FwP!ConfirmStart, Fw!ConfirmDone,
         FwP!ConfirmDone, Fw!ConfirmFails, FwP!ConfirmFails, Fw!PowerCut, FwP!PowerCut,
         Fw!Bootable, FwP!Bootable, Fw!Booted, FwP!Booted, Fw!BootTest, FwP!BootTest,
         Fw!BootReject, FwP!BootReject, Fw!BootRevert, FwP!BootRevert, Fw!BootPlain,
         FwP!BootPlain, Fw!Command, FwP!Command, Fw!Confirmation, FwP!Confirmation,
         Fw!Boot, FwP!Boot, Fw!Next, FwP!Next, Fw!updateVars, FwP!updateVars,
         Fw!flashVars, FwP!flashVars, Fw!bootVars, FwP!bootVars
<1> QED BY <1>1, <1>2, <1>3

LEMMA FirmwareStep ==
  ASSUME FwP!IInv, [Fw!Next]_(Fw!vars)
  PROVE  FwP!IInv'
<1>1. [FwP!Next]_(FwP!vars)
  BY SameFirmware
<1> QED BY <1>1, FirmwareConstants, FwP!IInvStep

(* What is used of it here.                                                *)
LEMMA FirmwareFacts ==
  ASSUME FwP!IInv
  PROVE  /\ mode \in {"app", "off"} /\ confirm \in {"wait", "writing", "done"}
         /\ state \in {"IDLE", "ERASING", "READY", "RECEIVING", "COMPLETE", "ERROR"}
         /\ next \in 0 .. Fw!ImageMax /\ size \in 0 .. Fw!ImageMax /\ next <= size
         /\ mode = "off" => state = "IDLE"
         /\ state # "IDLE" => confirm = "done" /\ hash \in Images
         /\ trailer = "good" => ~Fw!HasMagic(sec[0])
         /\ state = "COMPLETE" => trailer = "good" /\ Fw!DigestMatches
         /\ Fw!AckedStored /\ acked \in [0 .. (Fw!ImageMax - 1) -> Images \cup {None}]
         /\ Fw!Active => trailer = "unset"
<1>1. Fw!ImageMax = FwP!ImageMax /\ (Fw!Active <=> FwP!Active)
  BY DEF Fw!ImageMax, FwP!ImageMax, Fw!Active, FwP!Active
<1>2. /\ mode \in {"app", "off"} /\ confirm \in {"wait", "writing", "done"}
      /\ state \in {"IDLE", "ERASING", "READY", "RECEIVING", "COMPLETE", "ERROR"}
      /\ next \in 0 .. Fw!ImageMax /\ size \in 0 .. Fw!ImageMax
      /\ acked \in [0 .. (Fw!ImageMax - 1) -> Images \cup {None}]
  BY <1>1 DEF FwP!IInv, FwP!TypeOK, FwP!UpdateTypes, FwP!AckedTypes, FwP!States
<1>3. /\ next <= size
      /\ mode = "off" => state = "IDLE"
      /\ state # "IDLE" => confirm = "done" /\ hash \in Images
      /\ Fw!Active => trailer = "unset"
  BY <1>1 DEF FwP!IInv, FwP!PhaseInv
<1>4. trailer = "good" => ~Fw!HasMagic(sec[0])
  BY DEF FwP!IInv, FwP!PendingVerified, FwP!HasMagic, Fw!HasMagic
<1>5. state = "COMPLETE" => trailer = "good" /\ Fw!DigestMatches
  BY DEF FwP!IInv, FwP!CompleteMeansPending, FwP!DigestMatches, Fw!DigestMatches,
     FwP!Holds, Fw!Holds
<1>6. Fw!AckedStored
  BY DEF FwP!IInv, FwP!AckedInv, FwP!AckedStored, Fw!AckedStored
<1> QED BY <1>2, <1>3, <1>4, <1>5, <1>6

----------------------------------------------------------------------------
(* Types.                                                                  *)

(* What a run is at.                                                       *)
RunInv ==
  /\ Active => /\ run > 0 /\ file \in Files /\ attempt \in 1 .. MaxAttempts
               /\ offset <= Length[file]
  /\ phase = "WRITE" => offset < Length[file]

(* A run sends one HELLO, so the device grants not more sessions than      *)
(* there have been runs.                                                   *)
GrantInv ==
  /\ sessionGeneration <= run
  /\ Active /\ phase = "HELLO" /\ packets = 0 => sessionGeneration < run
  /\ request # None /\ request.op = "HELLO" => sessionGeneration < request.run

(* A device without power is not there.                                    *)
LinkInv == mode = "off" => link = "off"

SysInv ==
  /\ TypeOK /\ OwnInv /\ RunInv /\ GrantInv /\ LinkInv
  /\ FwP!IInv

(* A block is not empty and does not reach beyond the file.                *)
LEMMA ChunkResult ==
  ASSUME TypeOK, RunInv, phase = "WRITE"
  PROVE  /\ Length[file] \in 1 .. Fw!ImageMax /\ offset \in 0 .. (Length[file] - 1)
         /\ ChunkLength \in 1 .. ChunkMax /\ offset + ChunkLength <= Length[file]
<1>1. file \in Images
  BY FirmwareConstants DEF RunInv, Active
<1>2. Length[file] \in 1 .. Fw!ImageMax
  BY <1>1, FirmwareConstants
<1>3. offset \in Nat /\ offset < Length[file] /\ ChunkMax \in Nat \ {0} /\ Fw!ImageMax \in Nat
  BY FirmwareConstants DEF TypeOK, RunInv
<1> QED BY <1>2, <1>3 DEF ChunkLength

LEMMA MessageTypes ==
  ASSUME TypeOK, RunInv, Active
  PROVE  /\ Message \in Requests /\ Noise(Message) \in Requests
         /\ partial # None => MixedUp(partial) \in Requests /\ Noise(partial) \in Requests
<1>1. /\ phase \in Phases /\ id \in Nat /\ hostSession \in 0 .. MaxRuns
      /\ run \in 1 .. MaxRuns /\ file \in Files
  BY ClientAssumption DEF TypeOK, RunInv, Active
<1>2. /\ (IF phase = "WRITE" THEN offset ELSE 0) \in 0 .. (Fw!ImageMax - 1)
      /\ (IF phase = "WRITE" THEN ChunkLength ELSE 0) \in 0 .. ChunkMax
  <2>1. CASE phase = "WRITE"
    BY <2>1, ChunkResult, FirmwareConstants
  <2>2. CASE phase # "WRITE"
    <3>1. file \in Images
      BY <1>1, FirmwareConstants
    <3>2. Fw!ImageMax \in Nat \ {0} /\ ChunkMax \in Nat
      BY <3>1, FirmwareConstants
    <3> QED BY <2>2, <3>2
  <2> QED BY <2>1, <2>2
<1>3. Message \in Requests
  BY <1>1, <1>2 DEF Message, Requests
<1>4. ASSUME NEW m \in Requests PROVE MixedUp(m) \in Requests /\ Noise(m) \in Requests
  BY DEF MixedUp, Noise, Altered, Requests
<1> QED BY <1>3, <1>4 DEF TypeOK

(* The commands of the device and what becomes of its session.             *)
Lost == mode' = "off" /\ LoseDevice /\ undisturbed' = FALSE

Granted ==
  /\ request.op = "HELLO" /\ session = 0
  /\ sessionGeneration' = sessionGeneration + 1
  /\ session' = sessionGeneration' /\ lastRequestId' = request.id
  /\ UNCHANGED <<firmware, link, partial, undisturbed>>
  /\ response' = Answer("OK", session') /\ request' = None

Rejected ==
  /\ \E status \in {"REFUSED", "VERSION", "STALE"} : Refuse(status)
  /\ UNCHANGED <<session, lastRequestId>>
  /\ \/ request.op = "HELLO" /\ session # 0
     \/ request.op = "NOISE"
     \/ request.session # session
     \/ request.id <= lastRequestId

Statuses == {"OK", "BUSY", "FAILED", "REFUSED"}

Served ==
  /\ ServeCommand
  /\ mode' = "app" /\ lastRequestId' = request.id /\ UNCHANGED session
  /\ undisturbed' \in BOOLEAN /\ (undisturbed' => undisturbed)
  /\ \E status \in Statuses : Respond(status)

LEMMA ServeCases ==
  ASSUME SysInv, Serve
  PROVE  Lost \/ Granted \/ Rejected \/ Served
<1>1. mode \in {"app", "off"} /\ link = "up" /\ request # None
  BY FirmwareFacts DEF SysInv, Serve
<1>2. CASE ServeHello
  BY <1>2 DEF ServeHello, Granted, Rejected
<1>3. CASE ServeNoise
  BY <1>3 DEF ServeNoise, Rejected
<1>4. CASE ServeStale
  BY <1>4 DEF ServeStale, Rejected
<1>5. CASE ServeCommand
  <2> DEFINE Answered == /\ mode' = "app" /\ \E status \in Statuses : Respond(status)
                         /\ undisturbed' \in BOOLEAN /\ (undisturbed' => undisturbed)
  <2>1. mode = "app" /\ undisturbed \in BOOLEAN
    BY <1>1 DEF SysInv, LinkInv, TypeOK
  <2>2. ASSUME NEW status \in Statuses, Refuse(status) PROVE Answered
    BY <2>1, <2>2 DEF Refuse, firmware
  <2>0. OkUnlessError \in Statuses /\ {"OK", "BUSY", "REFUSED"} \subseteq Statuses
    BY DEF OkUnlessError, Statuses
  <2>3. Answered \/ Lost
    <3>1. CASE ServeBegin
      BY <2>1, <2>2, <2>0, <3>1 DEF ServeBegin, Result, Lost
    <3>2. CASE ServeStatus
      BY <2>1, <2>2, <2>0, <3>2 DEF ServeStatus, Result, Lost
    <3>3. CASE ServeWrite
      BY <2>1, <2>2, <2>0, <3>3 DEF ServeWrite, Result, Lost
    <3>4. CASE ServeFinish \/ ServeReboot
      BY <2>1, <2>2, <2>0, <3>4 DEF ServeFinish, ServeReboot, Result, Lost
    <3> QED BY <1>5, <3>1, <3>2, <3>3, <3>4 DEF ServeCommand
  <2> QED BY <1>5, <2>3 DEF Served, ServeCommand
<1> QED BY <1>2, <1>3, <1>4, <1>5 DEF Serve

(* Every step of the system is one of the firmware, or none.               *)
LEMMA FirmwareTakesStep ==
  ASSUME SysInv, [Next]_vars
  PROVE  [Fw!Next]_(Fw!vars)
<1>1. UNCHANGED firmware => UNCHANGED Fw!vars
  BY DEF firmware, Fw!vars, Fw!updateVars, Fw!flashVars, Fw!bootVars
<1>2. CASE SendPacket \/ Timeout \/ Stop \/ Reconfigure \/ Attach \/ UNCHANGED vars
  BY <1>1, <1>2 DEF SendPacket, Timeout, Stop, Reconfigure, Attach, vars
<1>3. ASSUME NEW f \in Files, Start(f) PROVE UNCHANGED Fw!vars
  BY <1>1, <1>3 DEF Start
<1>4. CASE Read
  BY <1>1, <1>4 DEF Read, Fw!Next
<1>5. CASE Confirm \/ Boot \/ Unplug
  BY <1>5 DEF Confirm, Boot, Unplug, Fw!Next
<1>6. CASE Serve
  <2>1. request \in Requests
    BY <1>6 DEF SysInv, TypeOK, Serve
  <2>2. /\ request.img \in Images /\ request.offset \in 0 .. Fw!ImageMax
        /\ request.length \in 0 .. ChunkMax /\ Length[request.img] \in 0 .. Fw!ImageMax
    BY <2>1, FirmwareConstants DEF Requests
  <2>3. ASSUME NEW status, Refuse(status) PROVE UNCHANGED Fw!vars
    BY <1>1, <2>3 DEF Refuse
  <2>4. CASE ServeHello \/ ServeNoise \/ ServeStale
    BY <1>1, <2>3, <2>4 DEF ServeHello, ServeNoise, ServeStale
  <2>5. CASE ServeBegin
    BY <2>2, <2>3, <2>5 DEF ServeBegin, Result, Fw!Next, Fw!Command
  <2>6. CASE ServeStatus
    BY <2>3, <2>6 DEF ServeStatus, Result, Fw!Next, Fw!Command
  <2>7. CASE ServeWrite
    BY <2>2, <2>3, <2>7 DEF ServeWrite, Result, Fw!Next, Fw!Command
  <2>8. CASE ServeFinish \/ ServeReboot
    BY <2>3, <2>8 DEF ServeFinish, ServeReboot, Result, Fw!Next, Fw!Command
  <2> QED BY <1>6, <2>4, <2>5, <2>6, <2>7, <2>8 DEF Serve, ServeCommand
<1> QED BY <1>2, <1>3, <1>4, <1>5, <1>6 DEF Next, ToolStep

KeptInv == TypeOK /\ RunInv /\ GrantInv /\ LinkInv

(* A new run, and the end of one.                                          *)
LEMMA StartTypes ==
  ASSUME SysInv, NEW f \in Files, Start(f)
  PROVE  KeptInv'
<1>1. /\ UNCHANGED <<link, session, sessionGeneration, lastRequestId, partial, request,
                     response, promised, mode, next>>
      /\ run' = run + 1 /\ run < MaxRuns /\ phase' = "HELLO" /\ packets' = 0 /\ file' = f
      /\ id' = 1 /\ hostSession' = 0 /\ attempt' = 1 /\ offset' = 0
      /\ undisturbed' = Undisturbed(f) /\ fresh' = FALSE
  BY DEF Start, device, firmware
<1>2. /\ run \in Nat /\ MaxRuns \in Nat /\ run' \in 1 .. MaxRuns
      /\ 1 \in 1 .. MaxAttempts /\ 0 \in 0 .. MaxRuns /\ 1 \in Nat
  BY <1>1, ClientAssumption DEF SysInv, TypeOK
<1>3. Length[f] \in 1 .. Fw!ImageMax /\ 0 \in 0 .. Fw!ImageMax
  BY FirmwareConstants
<1>4. undisturbed' \in BOOLEAN
  BY <1>1 DEF Undisturbed
<1>5. TypeOK'
  <2>1. /\ partial' \in Requests \cup {None} /\ request' \in Requests \cup {None}
        /\ response' \in Responses \cup {None}
        /\ link' \in {"off", "up", "deaf"} /\ session' \in 0 .. MaxRuns
        /\ sessionGeneration' \in 0 .. MaxRuns /\ lastRequestId' \in Nat
        /\ promised' \in Files \cup {None}
    BY <1>1 DEF SysInv, TypeOK
  <2>2. /\ run' \in 0 .. MaxRuns /\ phase' \in Phases \cup {"idle"} /\ packets' \in 0 .. 2
        /\ file' \in Files \cup {None} /\ id' \in Nat /\ hostSession' \in 0 .. MaxRuns
        /\ attempt' \in 0 .. MaxAttempts /\ offset' \in 0 .. Fw!ImageMax
        /\ packets' <= Parts(phase')
    BY <1>1, <1>2, <1>3 DEF Phases, Parts
  <2>3. fresh' \in BOOLEAN
    BY <1>1
  <2> QED BY <1>4, <2>1, <2>2, <2>3 DEF TypeOK, Parts
<1>6. RunInv'
  BY <1>1, <1>2, <1>3 DEF RunInv, Active
<1>7. GrantInv'
  BY <1>1, <1>2 DEF SysInv, GrantInv, OwnInv
<1>8. LinkInv'
  BY <1>1 DEF SysInv, LinkInv
<1> QED BY <1>5, <1>6, <1>7, <1>8 DEF KeptInv

LEMMA EndTypes ==
  ASSUME SysInv, Timeout \/ Stop
  PROVE  KeptInv'
<1>1. /\ UNCHANGED <<link, session, sessionGeneration, lastRequestId, partial, request,
                     response, promised, fresh, mode, run>>
      /\ phase' = "idle" /\ packets' = 0 /\ file' = None
      /\ id' = 0 /\ hostSession' = 0 /\ attempt' = 0 /\ offset' = 0
      /\ undisturbed' \in {undisturbed, FALSE}
  BY DEF Timeout, Stop, End, device, firmware
<1>2. /\ 0 \in 0 .. MaxRuns /\ 0 \in 0 .. MaxAttempts /\ 0 \in 0 .. Fw!ImageMax
  BY FirmwareConstants, ClientAssumption
<1>3. TypeOK'
  <2>1. /\ partial' \in Requests \cup {None} /\ request' \in Requests \cup {None}
        /\ response' \in Responses \cup {None}
        /\ link' \in {"off", "up", "deaf"} /\ session' \in 0 .. MaxRuns
        /\ sessionGeneration' \in 0 .. MaxRuns /\ lastRequestId' \in Nat
        /\ promised' \in Files \cup {None} /\ run' \in 0 .. MaxRuns
        /\ fresh' \in BOOLEAN /\ undisturbed' \in BOOLEAN
    BY <1>1 DEF SysInv, TypeOK
  <2> QED BY <1>1, <1>2, <2>1 DEF TypeOK, Phases, Active, Parts
<1>4. RunInv' /\ GrantInv' /\ LinkInv'
  BY <1>1 DEF SysInv, RunInv, GrantInv, LinkInv, Active
<1> QED BY <1>3, <1>4 DEF KeptInv

(* What a packet leaves in the device.                                     *)
LEMMA SendResult ==
  ASSUME SysInv, SendPacket
  PROVE  /\ link' \in {"up", "deaf"} /\ request = None /\ response = None /\ link = "up"
         /\ packets' = packets + 1 /\ packets < Parts(phase) /\ Active
         /\ UNCHANGED <<firmware, session, sessionGeneration, lastRequestId, response,
                        run, phase, file, progress, fresh, undisturbed, promised>>
         /\ \/ request' = None
            \/ request' = Message /\ packets + 1 = Parts(phase) /\ partial' = None
            \/ request' = Noise(Message)
            \/ /\ partial # None /\ request' \in {MixedUp(partial), Noise(partial)}
               /\ partial' = None
         /\ \/ partial' \in {None, partial, Noise(Message)}
            \/ partial' = Message /\ packets + 1 # Parts(phase) /\ request' = None
  BY DEF SendPacket, OutArmed, OwnPacket, OrphanPacket, ForeignPacket

LEMMA SendTypes ==
  ASSUME SysInv, SendPacket
  PROVE  KeptInv'
<1>1. /\ UNCHANGED <<firmware, session, sessionGeneration, lastRequestId, response,
                     run, phase, file, progress, fresh, undisturbed, promised>>
      /\ link' \in {"up", "deaf"} /\ packets' = packets + 1 /\ packets < Parts(phase)
      /\ Active /\ link = "up"
  BY SendResult
<1>2. request' \in Requests \cup {None} /\ partial' \in Requests \cup {None}
  <2>1. partial \in Requests \cup {None}
    BY DEF SysInv, TypeOK
  <2>2. /\ Message \in Requests /\ Noise(Message) \in Requests
        /\ partial # None => MixedUp(partial) \in Requests /\ Noise(partial) \in Requests
    BY <1>1, MessageTypes DEF SysInv
  <2>3. \/ request' \in {None, Message, Noise(Message)}
        \/ partial # None /\ request' \in {MixedUp(partial), Noise(partial)}
    BY SendResult
  <2>4. partial' \in {None, partial, Message, Noise(Message)}
    BY SendResult
  <2> QED BY <2>1, <2>2, <2>3, <2>4
<1>3. packets \in Nat /\ packets' \in 0 .. 2 /\ packets' <= Parts(phase)
  BY <1>1 DEF SysInv, TypeOK, Parts
<1>4. TypeOK'
  <2>1. response' \in Responses \cup {None}
    BY <1>1 DEF SysInv, TypeOK
  <2> QED BY <1>1, <1>2, <1>3, <2>1 DEF SysInv, TypeOK, progress, Active, Parts
<1>5. RunInv' /\ LinkInv'
  BY <1>1 DEF SysInv, RunInv, LinkInv, Active, progress, firmware, TypeOK
<1>6. GrantInv'
  <2>1. packets' # 0
    BY <1>1, <1>3
  <2>2. ASSUME request' # None, request'.op = "HELLO" PROVE sessionGeneration < request'.run
    <3>1. Noise(Message).op = "NOISE"
      BY DEF Noise, Altered
    <3>2. ASSUME partial # None PROVE MixedUp(partial).op # "HELLO" /\ Noise(partial).op # "HELLO"
      BY <3>2 DEF SysInv, OwnInv, PartialInv, MixedUp, Noise, Altered
    <3>3. request' = Message
      BY <2>2, <3>1, <3>2, SendResult
    <3>4. phase = "HELLO" /\ packets = 0 /\ request'.run = run
      BY <1>1, <1>3, <2>2, <3>3 DEF Message, Parts
    <3> QED BY <1>1, <3>4 DEF SysInv, GrantInv
  <2> QED BY <1>1, <2>1, <2>2 DEF SysInv, GrantInv, Active
<1> QED BY <1>4, <1>5, <1>6 DEF KeptInv

(* The tool goes on, or does not; the device may be lost.                  *)
LEMMA ReadTypes ==
  ASSUME SysInv, Read
  PROVE  KeptInv'
<1>1. /\ Active /\ packets = Parts(phase) /\ response # None
      /\ request = None /\ partial = None
  BY DEF Read, SysInv, OwnInv, OneMessage
<1>2. /\ \/ End
         \/ Correlated(response) /\ Acceptable(response) /\ Advance(response)
      /\ \/ mode' = "off" /\ LoseDevice
         \/ UNCHANGED <<mode, link, session, sessionGeneration, lastRequestId>>
      /\ request' = None /\ partial' = None /\ response' = None
      /\ UNCHANGED <<fresh, undisturbed, run>>
      /\ promised' \in {promised, file}
  BY <1>1 DEF Read, LoseDevice, NewConnection, Fw!PowerCut, Fw!PowerOff, firmware, End,
              Advance, GoOn
<1>3. /\ link' \in {"off", "up", "deaf"} /\ session' \in 0 .. MaxRuns
      /\ sessionGeneration' \in 0 .. MaxRuns /\ lastRequestId' \in Nat
      /\ sessionGeneration' <= run' /\ LinkInv'
  <2>1. /\ link \in {"off", "up", "deaf"} /\ session \in 0 .. MaxRuns
        /\ sessionGeneration \in 0 .. MaxRuns /\ lastRequestId \in Nat
        /\ sessionGeneration <= run /\ LinkInv /\ run \in Nat /\ 0 \in 0 .. MaxRuns
    BY ClientAssumption DEF SysInv, TypeOK, GrantInv, OwnInv
  <2>2. CASE mode' = "off" /\ LoseDevice
    BY <1>2, <2>1, <2>2 DEF LoseDevice, NewConnection, LinkInv
  <2>3. CASE UNCHANGED <<mode, link, session, sessionGeneration, lastRequestId>>
    BY <1>2, <2>1, <2>3 DEF LinkInv
  <2> QED BY <1>2, <2>2, <2>3
<1>4. /\ file \in Files /\ run \in 0 .. MaxRuns /\ run > 0 /\ id \in Nat
      /\ hostSession \in 0 .. MaxRuns
      /\ attempt \in 1 .. MaxAttempts /\ offset \in 0 .. Fw!ImageMax /\ offset <= Length[file]
      /\ fresh \in BOOLEAN /\ undisturbed \in BOOLEAN /\ promised \in Files \cup {None}
      /\ Length[file] \in 1 .. Fw!ImageMax /\ Fw!ImageMax \in Nat /\ MaxAttempts \in Nat
      /\ response.session \in 0 .. MaxRuns /\ response.next \in Nat
  BY <1>1, ClientAssumption, FirmwareConstants DEF SysInv, TypeOK, RunInv, Responses, Active
<1> DEFINE Ran ==
      /\ phase' \in (Phases \ {"HELLO"}) \cup {"idle"} /\ packets' = 0
      /\ file' \in Files \cup {None} /\ id' \in Nat /\ hostSession' \in 0 .. MaxRuns
      /\ attempt' \in 0 .. MaxAttempts /\ offset' \in 0 .. Fw!ImageMax
      /\ phase' # "idle" => /\ file' = file /\ attempt' \in 1 .. MaxAttempts
                            /\ offset' <= Length[file]
      /\ phase' = "WRITE" => offset' < Length[file]
<1>5. Ran
  <2>1. CASE End
    BY <1>4, <2>1, ClientAssumption DEF End
  <2>2. CASE /\ Correlated(response) /\ Acceptable(response) /\ Advance(response) /\ ~End
    <3>1. /\ packets' = 0 /\ id' = id + 1 /\ file' = file /\ id' \in Nat
      BY <1>4, <2>2 DEF Advance, GoOn
    <3>2. CASE phase \in {"HELLO", "BEGIN", "FINISH", "REBOOT"}
      <4>1. offset' = offset /\ phase' \in {"BEGIN", "STATUS", "REBOOT"}
        BY <2>2, <3>2 DEF Advance, GoOn
      <4>2. hostSession' \in {hostSession, response.session}
        BY <2>2, <3>2 DEF Advance
      <4>3. attempt' \in 1 .. MaxAttempts
        <5>1. attempt' = attempt
                \/ (phase = "BEGIN" /\ response.status # "OK" /\ attempt' = attempt + 1)
          BY <2>2, <3>2 DEF Advance
        <5>2. phase = "BEGIN" /\ response.status # "OK" => attempt < MaxAttempts
          BY <2>2 DEF Acceptable
        <5> QED BY <1>4, <5>1, <5>2
      <4> QED BY <1>4, <3>1, <4>1, <4>2, <4>3 DEF Phases
    <3>3. CASE phase = "STATUS"
      <4>1. /\ UNCHANGED <<hostSession, attempt>>
            /\ \/ phase' = "STATUS" /\ offset' = offset
               \/ /\ ResumeValid(response.next) /\ offset' = response.next
                  /\ phase' = IF response.next = Length[file] THEN "FINISH" ELSE "WRITE"
        BY <2>2, <3>3 DEF Advance, GoOn
      <4>2. CASE phase' = "STATUS" /\ offset' = offset
        BY <1>4, <3>1, <4>1, <4>2 DEF Phases
      <4>3. CASE /\ ResumeValid(response.next) /\ offset' = response.next
                 /\ phase' = IF response.next = Length[file] THEN "FINISH" ELSE "WRITE"
        <5>1. response.next <= Length[file]
          BY <4>3 DEF ResumeValid
        <5>2. offset' \in 0 .. Fw!ImageMax /\ offset' <= Length[file]
          BY <1>4, <4>3, <5>1
        <5>3. phase' \in {"FINISH", "WRITE"} /\ (phase' = "WRITE" => offset' < Length[file])
          BY <1>4, <4>3, <5>1
        <5> QED BY <1>4, <3>1, <4>1, <5>2, <5>3 DEF Phases
      <4> QED BY <4>1, <4>2, <4>3
    <3>4. CASE phase = "WRITE"
      <4>1. /\ UNCHANGED <<hostSession, attempt>> /\ offset' = offset + ChunkLength
            /\ phase' = IF LastChunk THEN "FINISH" ELSE "WRITE"
        BY <2>2, <3>4 DEF Advance, GoOn
      <4>2. ChunkLength \in Nat /\ offset + ChunkLength <= Length[file]
        BY <3>4, ChunkResult, FirmwareConstants DEF SysInv
      <4>3. offset' \in 0 .. Fw!ImageMax /\ offset' <= Length[file]
        BY <1>4, <4>1, <4>2
      <4>4. phase' \in {"FINISH", "WRITE"} /\ (phase' = "WRITE" => offset' < Length[file])
        BY <1>4, <4>1, <4>2, <4>3 DEF LastChunk
      <4> QED BY <1>4, <3>1, <4>1, <4>3, <4>4 DEF Phases
    <3> QED BY <1>1, <3>2, <3>3, <3>4 DEF Active, SysInv, TypeOK, Phases
  <2> QED BY <1>2, <2>1, <2>2
<1>6. TypeOK'
  BY <1>2, <1>3, <1>4, <1>5 DEF TypeOK, Active, Parts
<1>7. RunInv'
  BY <1>2, <1>4, <1>5 DEF RunInv, Active
<1>8. GrantInv'
  BY <1>2, <1>3, <1>5 DEF GrantInv, Phases
<1> QED BY <1>3, <1>6, <1>7, <1>8 DEF KeptInv

(* A request served.                                                       *)
LEMMA AnswerTypes ==
  ASSUME SysInv, Serve, NEW s \in 0 .. MaxRuns,
         NEW status \in {"OK", "BUSY", "FAILED", "REFUSED", "STALE", "VERSION"}
  PROVE  /\ Answer(status, s) \in Responses /\ Answer(status, s) # None
         /\ request \in Requests
<1>1. request \in Requests
  BY DEF Serve, SysInv, TypeOK
<1>2. FwP!IInv'
  BY FirmwareStep, FirmwareTakesStep DEF SysInv, Next
<1>3. next' \in 0 .. Fw!ImageMax /\ state' \in Fw!States
  <2>1. FwP!TypeOK' /\ FwP!ImageMax \in Nat
    BY <1>2, FirmwareConstants DEF FwP!IInv, FwP!SizesAssumption
  <2> QED BY <2>1 DEF FwP!TypeOK, FwP!UpdateTypes, FwP!States, Fw!States, FwP!ImageMax,
             Fw!ImageMax
<1>4. Answer(status, s) \in Responses
  BY <1>1, <1>3 DEF Answer, Requests, Responses
<1> QED BY <1>1, <1>4, NoneAssumption

LEMMA ServeTypes ==
  ASSUME SysInv, Serve
  PROVE  KeptInv'
<1>1. /\ UNCHANGED <<run, phase, packets, file, id, hostSession, attempt, offset,
                     fresh, promised>>
      /\ request # None /\ response = None /\ link = "up"
  BY DEF Serve, tool, progress
<1>2. request \in Requests /\ request.session \in 0 .. MaxRuns /\ request.id \in Nat
  BY <1>1 DEF SysInv, TypeOK, Requests
<1>3. mode' \in {"app", "off"}
  <2>1. FwP!IInv'
    BY FirmwareStep, FirmwareTakesStep DEF SysInv, Next
  <2> QED BY <2>1, FirmwareConstants DEF FwP!IInv, FwP!TypeOK, FwP!UpdateTypes
<1>4. SUFFICES
        /\ link' \in {"off", "up", "deaf"} /\ (mode' = "off" => link' = "off")
        /\ session' \in 0 .. MaxRuns /\ sessionGeneration' \in 0 .. MaxRuns
        /\ sessionGeneration' <= run
        /\ Active /\ phase = "HELLO" /\ packets = 0 => sessionGeneration' < run
        /\ lastRequestId' \in Nat /\ partial' \in {partial, None} /\ request' = None
        /\ undisturbed' \in BOOLEAN
        /\ response' \in Responses \cup {None}
  <2>1. TypeOK'
    <3>1. partial' \in Requests \cup {None} /\ request' \in Requests \cup {None}
      BY <1>4 DEF SysInv, TypeOK
    <3>2. /\ run' \in 0 .. MaxRuns /\ phase' \in Phases \cup {"idle"} /\ packets' \in 0 .. 2
          /\ file' \in Files \cup {None}
          /\ id' \in Nat /\ hostSession' \in 0 .. MaxRuns /\ attempt' \in 0 .. MaxAttempts
          /\ offset' \in 0 .. Fw!ImageMax
          /\ Active' => packets' <= Parts(phase')
          /\ fresh' \in BOOLEAN /\ promised' \in Files \cup {None}
      BY <1>1 DEF SysInv, TypeOK, Active
    <3> QED BY <1>4, <3>1, <3>2 DEF TypeOK, Parts, Active
  <2>2. RunInv'
    BY <1>1 DEF SysInv, RunInv, Active
  <2>3. GrantInv' /\ LinkInv'
    BY <1>1, <1>4 DEF GrantInv, LinkInv, Active
  <2> QED BY <2>1, <2>2, <2>3 DEF KeptInv
<1>5. /\ link \in {"off", "up", "deaf"} /\ session \in 0 .. MaxRuns
      /\ sessionGeneration \in 0 .. MaxRuns /\ lastRequestId \in Nat
      /\ sessionGeneration <= run /\ LinkInv /\ run \in 0 .. MaxRuns /\ 0 \in 0 .. MaxRuns
      /\ Active /\ phase = "HELLO" /\ packets = 0 => sessionGeneration < run
      /\ undisturbed \in BOOLEAN /\ MaxRuns \in Nat /\ mode # "off"
  BY <1>1, ClientAssumption DEF SysInv, TypeOK, GrantInv, LinkInv
<1>6. CASE Lost
  <2>1. /\ link' = "off" /\ sessionGeneration' = 0 /\ session' = 0 /\ lastRequestId' = 0
        /\ request' = None /\ partial' = None /\ response' = None /\ undisturbed' = FALSE
    BY <1>6 DEF Lost, LoseDevice, NewConnection
  <2>2. /\ sessionGeneration' <= run
        /\ Active /\ phase = "HELLO" /\ packets = 0 => sessionGeneration' < run
    BY <1>5, <2>1
  <2> QED BY <1>5, <2>1, <2>2
<1>7. CASE Granted
  <2>1. /\ sessionGeneration < request.run /\ request.run <= run /\ request.run \in Nat
        /\ Active /\ packets = 0 => request.run < run
    BY <1>1, <1>7 DEF Granted, SysInv, GrantInv, OwnInv, Known
  <2>2. /\ sessionGeneration' = sessionGeneration + 1 /\ session' = sessionGeneration'
        /\ lastRequestId' = request.id /\ UNCHANGED <<mode, link, partial, undisturbed>>
        /\ request' = None /\ response' = Answer("OK", session')
    BY <1>7 DEF Granted, firmware
  <2>3. session' \in 0 .. MaxRuns /\ sessionGeneration' <= run
    BY <1>5, <2>1, <2>2
  <2>4. response' \in Responses
    BY <2>2, <2>3, AnswerTypes
  <2> QED BY <1>2, <1>3, <1>5, <2>1, <2>2, <2>3, <2>4
<1>8. CASE Rejected \/ Served
  <2>1. /\ UNCHANGED <<session, link, sessionGeneration, partial>> /\ request' = None
        /\ lastRequestId' \in {lastRequestId, request.id}
        /\ mode' # "off" /\ undisturbed' \in BOOLEAN
    BY <1>5, <1>8 DEF Rejected, Served, Refuse, Respond, firmware
  <2>2. \E status \in {"OK", "BUSY", "FAILED", "REFUSED", "STALE", "VERSION"} :
          response' = Answer(status, request.session)
    BY <1>8 DEF Rejected, Served, Statuses, Refuse, Respond
  <2>3. response' \in Responses
    BY <1>2, <2>2, AnswerTypes
  <2> QED BY <1>2, <1>3, <1>5, <2>1, <2>3
<1> QED BY <1>6, <1>7, <1>8, ServeCases

(* The device on its own, and the plug.                                    *)
LEMMA DeviceTypes ==
  ASSUME SysInv, Confirm \/ Boot \/ Attach \/ Reconfigure \/ Unplug
  PROVE  KeptInv'
<1>1. UNCHANGED <<run, phase, packets, file, id, hostSession, attempt, offset>>
  BY DEF Confirm, Boot, Attach, Reconfigure, Unplug, tool, progress
<1>2. /\ link \in {"off", "up", "deaf"} /\ session \in 0 .. MaxRuns
      /\ sessionGeneration \in 0 .. MaxRuns /\ lastRequestId \in Nat
      /\ sessionGeneration <= run /\ LinkInv /\ run \in 0 .. MaxRuns /\ 0 \in 0 .. MaxRuns
      /\ Active /\ phase = "HELLO" /\ packets = 0 => sessionGeneration < run
      /\ mode \in {"app", "off"}
      /\ fresh \in BOOLEAN /\ undisturbed \in BOOLEAN /\ promised \in Files \cup {None}
  BY ClientAssumption, FirmwareFacts DEF SysInv, TypeOK, GrantInv
<1>3. LoseDevice => /\ link' = "off" /\ sessionGeneration' = 0 /\ session' = 0
                    /\ lastRequestId' = 0
                    /\ request' = None /\ partial' = None /\ response' = None
  BY DEF LoseDevice, NewConnection
<1>4. UNCHANGED device => UNCHANGED <<link, session, sessionGeneration, lastRequestId,
                                      partial, request, response>>
  BY DEF device
<1>5. /\ link' \in {"off", "up"} \cup {link} /\ (mode' = "off" => link' = "off")
      /\ session' \in {0, session} /\ sessionGeneration' \in {0, sessionGeneration}
      /\ lastRequestId' \in {0, lastRequestId}
      /\ fresh' \in BOOLEAN /\ undisturbed' \in BOOLEAN /\ promised' \in {None, promised}
      /\ \/ UNCHANGED <<partial, request, response>>
         \/ partial' = None /\ request' = None /\ response' = None
  <2>1. CASE Confirm
    BY <1>2, <1>3, <1>4, <2>1 DEF Confirm
  <2>2. CASE Boot
    <3>1. mode' = "app" /\ UNCHANGED <<fresh, undisturbed>> /\ promised' = None
      BY <2>2 DEF Boot, Fw!Boot, Fw!BootTest, Fw!BootReject, Fw!BootRevert, Fw!BootPlain,
                  Fw!Booted
    <3> QED BY <1>2, <1>4, <2>2, <3>1 DEF Boot
  <2>3. CASE Attach
    BY <1>2, <2>3 DEF Attach, firmware
  <2>4. CASE Reconfigure
    BY <1>2, <2>4 DEF Reconfigure, NewConnection, firmware, LinkInv
  <2>5. CASE Unplug
    BY <1>2, <1>3, <2>5 DEF Unplug
  <2> QED BY <2>1, <2>2, <2>3, <2>4, <2>5
<1>6. TypeOK'
  <2>1. /\ partial' \in Requests \cup {None} /\ request' \in Requests \cup {None}
        /\ response' \in Responses \cup {None}
    BY <1>5 DEF SysInv, TypeOK
  <2>2. /\ phase' \in Phases \cup {"idle"} /\ packets' \in 0 .. 2
        /\ file' \in Files \cup {None} /\ run' \in 0 .. MaxRuns
        /\ id' \in Nat /\ hostSession' \in 0 .. MaxRuns /\ attempt' \in 0 .. MaxAttempts
        /\ offset' \in 0 .. Fw!ImageMax /\ (Active' => packets' <= Parts(phase'))
    BY <1>1 DEF SysInv, TypeOK, Active
  <2> QED BY <1>2, <1>5, <2>1, <2>2 DEF TypeOK, Parts, Active
<1>7. RunInv'
  BY <1>1 DEF SysInv, RunInv, Active
<1>8. GrantInv' /\ LinkInv'
  <2>1. sessionGeneration' <= run' /\ sessionGeneration' <= sessionGeneration
    BY <1>1, <1>2, <1>5
  <2>2. Active' /\ phase' = "HELLO" /\ packets' = 0 => sessionGeneration' < run'
    BY <1>1, <1>2, <1>5 DEF Active
  <2>3. ASSUME request' # None, request'.op = "HELLO" PROVE sessionGeneration' < request'.run
    <3>1. request' = request /\ sessionGeneration < request.run /\ request.run \in Nat
      BY <1>5, <2>3 DEF SysInv, GrantInv, OwnInv, Known
    <3> QED BY <1>2, <1>5, <2>1, <3>1
  <2>4. LinkInv'
    BY <1>5 DEF SysInv, LinkInv
  <2> QED BY <2>1, <2>2, <2>3, <2>4 DEF GrantInv
<1> QED BY <1>6, <1>7, <1>8 DEF KeptInv

LEMMA SysInvInitially ==
  ASSUME Init
  PROVE  SysInv
<1>1. OwnInv
  BY OwnInvInitially
<1>2. FwP!IInv
  BY FirmwareConstants, SameFirmware, FwP!IInvInit DEF Init
<1>3. /\ 0 \in 0 .. MaxRuns /\ 0 \in 0 .. MaxAttempts /\ 0 \in 0 .. Fw!ImageMax
  BY FirmwareConstants, ClientAssumption
<1>4. TypeOK
  <2>1. /\ link = "up" /\ session = 0 /\ sessionGeneration = 0 /\ lastRequestId = 0
        /\ partial = None /\ request = None /\ response = None
        /\ run = 0 /\ phase = "idle" /\ packets = 0 /\ file = None
        /\ id = 0 /\ hostSession = 0 /\ attempt = 0 /\ offset = 0 /\ promised = None
    BY DEF Init
  <2>2. fresh \in BOOLEAN /\ undisturbed \in BOOLEAN
    BY DEF Init
  <2> QED BY <1>3, <2>1, <2>2 DEF TypeOK, Active
<1>5. RunInv /\ GrantInv
  BY DEF Init, RunInv, GrantInv, Active
<1>6. LinkInv
  BY DEF Init, LinkInv, Fw!Init
<1> QED BY <1>1, <1>2, <1>4, <1>5, <1>6 DEF SysInv

LEMMA SysInvStep ==
  ASSUME SysInv, [Next]_vars
  PROVE  SysInv'
<1>1. OwnInv' /\ FwP!IInv'
  BY OwnInvStep, FirmwareTakesStep, FirmwareStep DEF SysInv
<1>2. CASE UNCHANGED vars
  <2>1. /\ UNCHANGED <<mode, next, link, session, sessionGeneration, lastRequestId, partial,
                       request, response, run, phase, packets, file, id, hostSession,
                       attempt, offset, fresh, undisturbed, promised>>
    BY <1>2 DEF vars, firmware, device, tool, progress
  <2>2. TypeOK'
    BY <2>1 DEF SysInv, TypeOK, Active, Parts
  <2>3. RunInv' /\ GrantInv' /\ LinkInv'
    BY <2>1 DEF SysInv, RunInv, GrantInv, LinkInv, Active
  <2> QED BY <1>1, <2>2, <2>3 DEF SysInv
<1>3. CASE Next
  <2>1. KeptInv'
    BY <1>3, StartTypes, EndTypes, SendTypes, ReadTypes, ServeTypes, DeviceTypes
       DEF Next, ToolStep
  <2> QED BY <1>1, <2>1 DEF SysInv, KeptInv
<1> QED BY <1>2, <1>3

(* The tool never sends from behind the end of a file, its packets belong  *)
(* to a request, and the device, which grants a session per HELLO, needs   *)
(* no more numbers than there are runs.                                    *)
THEOREM SystemTypeCorrect == Spec => []TypeOK
<1>1. Init => SysInv
  BY SysInvInitially
<1>2. SysInv /\ [Next]_vars => SysInv'
  BY SysInvStep
<1>3. SysInv => TypeOK
  BY DEF SysInv
<1> QED BY <1>1, <1>2, <1>3, PTL DEF Spec

(* What the device does in the system is what FwUpdate says: the theorems  *)
(* about it hold whoever sends the commands.                               *)
THEOREM SystemIsUpdate == Spec => Fw!Spec
<1>1. Init => SysInv /\ Fw!Init
  BY SysInvInitially DEF Init
<1>2. SysInv /\ [Next]_vars => SysInv'
  BY SysInvStep
<1>3. SysInv /\ [Next]_vars => [Fw!Next]_(Fw!vars)
  BY FirmwareTakesStep
<1> QED BY <1>1, <1>2, <1>3, PTL DEF Spec, Fw!Spec

----------------------------------------------------------------------------
(* A reported update: from the user's file to what boots.                  *)

(* In the session of a run, after its FW_BEGIN, the announced image is the *)
(* run's file.                                                             *)
HashInv ==
  Active /\ phase \notin {"HELLO", "BEGIN"} /\ session = hostSession => hash = file

(* What an answer says still holds when it is read.                        *)
AnswerInv ==
  response # None /\ response.status = "OK" =>
    /\ response.op = "BEGIN" => hash = response.img
    /\ response.op = "REBOOT" => state = "COMPLETE" /\ response.session = session

(* The device never has an old request of the present run.                 *)
RequestInv ==
  Active /\ request # None /\ request.run = run => request.op \in {phase, "NOISE"}

PromisedInv ==
  promised # None => mode = "off" /\ trailer = "good" /\ Fw!Holds(promised)

PromiseInv == SysInv /\ HashInv /\ AnswerInv /\ RequestInv /\ PromisedInv

(* What a command that is answered leaves of the announced image, and what *)
(* the answer says of it.                                                  *)
LEMMA ServedResult ==
  ASSUME SysInv, Serve, Served
  PROVE  /\ UNCHANGED session /\ request.session = session
         /\ response'.op = request.op /\ response'.session = request.session
         /\ response'.img = request.img /\ request.op # "HELLO"
         /\ request.op # "BEGIN" => hash' = hash
         /\ request.op = "BEGIN" /\ response'.status = "OK" => hash' = request.img
         /\ request.op = "REBOOT" /\ response'.status = "OK" => state' = "COMPLETE"
<1>1. /\ ServeCommand /\ mode' = "app" /\ UNCHANGED session
      /\ request.op # "HELLO" /\ request.session = session
  BY DEF Served, ServeCommand
<1>2. ASSUME NEW status, Respond(status)
      PROVE  /\ response'.op = request.op /\ response'.session = request.session
             /\ response'.img = request.img /\ response'.status = status
  BY <1>2 DEF Respond, Answer
<1>3. /\ response'.op = request.op /\ response'.session = request.session
      /\ response'.img = request.img
  BY <1>2 DEF Served
<1>4. ASSUME NEW status, Refuse(status)
      PROVE  UNCHANGED <<hash, state>> /\ response'.status = status
  BY <1>2, <1>4 DEF Refuse, firmware
<1>5. ~Fw!PowerOff
  BY <1>1 DEF Fw!PowerOff
<1>6. CASE request.op = "BEGIN"
  <2>1. ServeBegin
    BY <1>1, <1>6 DEF ServeCommand
  <2>2. ASSUME Fw!Begin(Length[request.img], request.img) PROVE hash' = request.img
    BY <1>5, <2>2 DEF Fw!Begin
  <2>3. response'.status = "OK" => hash' = request.img
    BY <1>4, <2>1, <2>2 DEF ServeBegin, Result
  <2> QED BY <1>1, <1>3, <1>6, <2>3
<1>7. CASE request.op = "REBOOT"
  <2>1. Refuse(IF state = "COMPLETE" THEN "OK" ELSE "REFUSED")
    BY <1>1, <1>7 DEF ServeCommand, ServeReboot
  <2>2. UNCHANGED <<hash, state>> /\ (response'.status = "OK" => state = "COMPLETE")
    BY <1>4, <2>1
  <2> QED BY <1>1, <1>3, <1>7, <2>2
<1>8. CASE request.op \notin {"BEGIN", "REBOOT"}
  <2>1. CASE ServeStatus
    <3>1. Fw!Step => hash' = hash
      BY <1>5 DEF Fw!Step, Fw!FailOrPowerOff
    <3> QED BY <1>1, <1>3, <1>4, <1>8, <2>1, <3>1 DEF ServeStatus, Result
  <2>2. CASE ServeWrite
    <3>1. Fw!Write(request.offset, request.length, request.img) => hash' = hash
      BY <1>5 DEF Fw!Write, Fw!FailOrPowerOff
    <3>2. Fw!WriteAgain(request.offset, request.length, request.img) => hash' = hash
      BY DEF Fw!WriteAgain, Fw!updateVars
    <3> QED BY <1>1, <1>3, <1>4, <1>8, <2>2, <3>1, <3>2 DEF ServeWrite, Result
  <2>3. CASE ServeFinish
    <3>1. Fw!Finish \/ Fw!FinishRefused => hash' = hash
      BY <1>5 DEF Fw!Finish, Fw!FinishRefused, Fw!FailOrPowerOff
    <3> QED BY <1>1, <1>3, <1>4, <1>8, <2>3, <3>1 DEF ServeFinish, Result
  <2> QED BY <1>1, <1>8, <2>1, <2>2, <2>3 DEF ServeCommand
<1> QED BY <1>6, <1>7, <1>8

LEMMA ServePromise ==
  ASSUME PromiseInv, Serve
  PROVE  HashInv' /\ AnswerInv' /\ RequestInv' /\ PromisedInv'
<1>1. /\ UNCHANGED <<run, phase, packets, file, hostSession, promised>>
      /\ request # None /\ response = None /\ link = "up" /\ (Active' <=> Active)
  BY DEF Serve, tool, progress, Active
<1>2. promised = None
  BY <1>1 DEF PromiseInv, SysInv, LinkInv, PromisedInv
<1>3. request' = None
  BY ServeResult DEF PromiseInv, SysInv
<1>4. ASSUME Active, phase \notin {"HELLO", "BEGIN"}
      PROVE  hostSession # 0 /\ request.op \notin {"HELLO", "BEGIN"}
  BY <1>1, <1>4 DEF PromiseInv, SysInv, OwnInv, SessionInv, Known, RequestInv
<1>5. SUFFICES HashInv' /\ AnswerInv'
  BY <1>1, <1>2, <1>3 DEF RequestInv, PromisedInv
<1>6. CASE Lost
  BY <1>1, <1>4, <1>6 DEF Lost, LoseDevice, NewConnection, HashInv, AnswerInv
<1>7. CASE Granted
  <2>1. request.op = "HELLO" /\ response'.op = "HELLO"
    BY <1>7 DEF Granted, Answer
  <2> QED BY <1>1, <1>4, <2>1 DEF HashInv, AnswerInv
<1>8. CASE Rejected
  <2>1. /\ UNCHANGED <<session, hash>> /\ response'.status # "OK"
    BY <1>8 DEF Rejected, Refuse, Respond, Answer, firmware
  <2> QED BY <1>1, <2>1 DEF PromiseInv, HashInv, AnswerInv
<1>9. CASE Served
  <2>1. /\ UNCHANGED session /\ request.session = session
        /\ response'.op = request.op /\ response'.session = request.session
        /\ response'.img = request.img
        /\ request.op # "BEGIN" => hash' = hash
        /\ request.op = "BEGIN" /\ response'.status = "OK" => hash' = request.img
        /\ request.op = "REBOOT" /\ response'.status = "OK" => state' = "COMPLETE"
    BY <1>9, ServedResult DEF PromiseInv
  <2>2. HashInv'
    BY <1>1, <1>4, <2>1 DEF PromiseInv, HashInv
  <2>3. AnswerInv'
    BY <2>1 DEF AnswerInv
  <2> QED BY <2>2, <2>3
<1> QED BY <1>6, <1>7, <1>8, <1>9, ServeCases DEF PromiseInv

(* A success is reported when the answer to FW_REBOOT comes in the run's   *)
(* session: the image that is scheduled is then the run's file.            *)
LEMMA ReadPromise ==
  ASSUME PromiseInv, Read
  PROVE  HashInv' /\ AnswerInv' /\ RequestInv' /\ PromisedInv'
<1>1. /\ Active /\ packets = Parts(phase) /\ response # None
      /\ request = None /\ partial = None
  BY DEF Read, PromiseInv, SysInv, OwnInv, OneMessage
<1>2. request' = None /\ response' = None
  BY <1>1 DEF Read, LoseDevice, NewConnection
<1>3. /\ hostSession = 0 <=> phase = "HELLO"
      /\ FwP!IInv
  BY <1>1 DEF PromiseInv, SysInv, OwnInv, SessionInv
<1>4. HashInv'
  <2>1. CASE End
    BY <2>1 DEF End, HashInv, Active
  <2>2. CASE Correlated(response) /\ Acceptable(response) /\ Advance(response) /\ ~End
    <3>1. phase # "REBOOT" /\ response.op # "REBOOT"
      BY <2>2 DEF Advance, Correlated
    <3>2. UNCHANGED <<hash, session, file>>
      BY <2>2, <3>1 DEF Read, firmware, Advance, GoOn
    <3>3. phase = "HELLO" => phase' = "BEGIN"
      BY <2>2 DEF Advance, GoOn
    <3>4. phase = "BEGIN" => phase' = "BEGIN" \/ hash = file
      <4>1. SUFFICES ASSUME phase = "BEGIN", phase' # "BEGIN" PROVE hash = file
        OBVIOUS
      <4>2. response.status = "OK" /\ response.op = "BEGIN"
        BY <2>2, <4>1 DEF Advance, GoOn, Correlated
      <4>3. response.img = file
        BY <1>1, <2>2, AnswerFound DEF PromiseInv, SysInv
      <4> QED BY <1>1, <4>2, <4>3 DEF PromiseInv, AnswerInv
    <3>5. phase \notin {"HELLO", "BEGIN"} => UNCHANGED hostSession
      BY <2>2 DEF Advance
    <3> QED BY <1>1, <3>2, <3>3, <3>4, <3>5 DEF PromiseInv, HashInv
  <2> QED BY <2>1, <2>2 DEF Read
<1>5. PromisedInv'
  <2>1. CASE phase = "REBOOT" /\ Correlated(response) /\ Acceptable(response)
    <3>1. response.op = "REBOOT" /\ response.status = "OK" /\ response.session = hostSession
      BY <1>3, <2>1 DEF Correlated, Acceptable
    <3>2. state = "COMPLETE" /\ hash = file
      BY <1>1, <2>1, <3>1 DEF PromiseInv, AnswerInv, HashInv
    <3>3. trailer = "good" /\ Fw!Holds(file)
      BY <1>3, <3>2, FirmwareFacts DEF Fw!DigestMatches
    <3>4. promised' = file /\ mode' = "off" /\ UNCHANGED <<sec, trailer>>
      BY <2>1, <3>1 DEF Read, Fw!PowerCut, Fw!PowerOff, Fw!flashVars
    <3> QED BY <3>3, <3>4 DEF PromisedInv, Fw!Holds
  <2>2. CASE ~(phase = "REBOOT" /\ Correlated(response) /\ Acceptable(response))
    <3>1. promised' = promised
      BY <2>2 DEF Read
    <3>2. mode = "off" => UNCHANGED <<mode, sec, trailer>>
      BY DEF Read, Fw!PowerCut, Fw!Running, firmware
    <3> QED BY <3>1, <3>2 DEF PromiseInv, PromisedInv, Fw!Holds
  <2> QED BY <2>1, <2>2
<1> QED BY <1>2, <1>4, <1>5 DEF AnswerInv, RequestInv

LEMMA SendPromise ==
  ASSUME PromiseInv, SendPacket
  PROVE  HashInv' /\ AnswerInv' /\ RequestInv' /\ PromisedInv'
<1>1. /\ UNCHANGED <<hash, mode, sec, trailer, session, response, run, phase, file,
                     hostSession, promised>>
      /\ response = None /\ (Active' <=> Active)
  BY SendResult DEF PromiseInv, firmware, progress, Active
<1>2. /\ Message.op = phase /\ Noise(Message).op = "NOISE"
      /\ MixedUp(partial).op = partial.op /\ MixedUp(partial).run = partial.run
      /\ Noise(partial).op = "NOISE"
  BY DEF Message, Noise, MixedUp, Altered
<1>3. \/ request' \in {None, Message, Noise(Message)}
      \/ partial # None /\ request' \in {MixedUp(partial), Noise(partial)}
  BY SendResult DEF PromiseInv
<1>4. partial # None /\ Active /\ partial.run = run => partial.op \in {phase, "NOISE"}
  BY <1>2 DEF PromiseInv, SysInv, OwnInv, PartialInv
<1>5. RequestInv'
  BY <1>1, <1>2, <1>3, <1>4 DEF RequestInv
<1> QED BY <1>1, <1>5 DEF PromiseInv, HashInv, AnswerInv, PromisedInv, Fw!Holds

(* Every other step leaves the update alone, or loses the device, or boots.*)
LEMMA OtherPromise ==
  ASSUME PromiseInv,
         \/ \E f \in Files : Start(f)
         \/ Timeout \/ Stop \/ Confirm \/ Boot \/ Attach \/ Reconfigure \/ Unplug
         \/ UNCHANGED vars
  PROVE  HashInv' /\ AnswerInv' /\ RequestInv' /\ PromisedInv'
<1>1. Active => (hostSession = 0 <=> phase = "HELLO")
  BY DEF PromiseInv, SysInv, OwnInv, SessionInv
<1>2. ASSUME UNCHANGED <<hash, state, mode, sec, trailer, session, request, response,
                         promised>>
      PROVE  /\ AnswerInv' /\ PromisedInv'
             /\ phase' \in {"idle", "HELLO"} => HashInv'
             /\ phase' = "idle" => RequestInv'
             /\ UNCHANGED <<run, phase, file, hostSession>> => HashInv' /\ RequestInv'
  BY <1>2 DEF PromiseInv, HashInv, AnswerInv, RequestInv, PromisedInv, Fw!Holds, Active
<1>3. CASE \E f \in Files : Start(f)
  <2>1. /\ UNCHANGED <<hash, state, mode, sec, trailer, session, request, response,
                       promised>>
        /\ phase' = "HELLO" /\ run' = run + 1
    BY <1>3 DEF Start, firmware, device
  <2>2. request # None => request.run \in Nat /\ request.run <= run /\ run \in Nat
    BY DEF PromiseInv, SysInv, OwnInv, Known
  <2>3. RequestInv'
    BY <2>1, <2>2 DEF RequestInv
  <2> QED BY <1>2, <2>1, <2>3
<1>4. CASE Timeout \/ Stop
  <2>1. /\ UNCHANGED <<hash, state, mode, sec, trailer, session, request, response,
                       promised>>
        /\ phase' = "idle"
    BY <1>4 DEF Timeout, Stop, End, firmware, device
  <2> QED BY <1>2, <2>1
<1>5. CASE Attach \/ UNCHANGED vars
  <2>1. /\ UNCHANGED <<hash, state, mode, sec, trailer, session, request, response,
                       promised, run, phase, file, hostSession>>
    BY <1>5 DEF Attach, vars, firmware, device, tool, progress
  <2> QED BY <1>2, <2>1
<1>6. ASSUME UNCHANGED <<run, phase, file, hostSession, promised>>,
             session' = 0, request' = None, response' = None
      PROVE  HashInv' /\ AnswerInv' /\ RequestInv'
  BY <1>1, <1>6 DEF HashInv, AnswerInv, RequestInv, Active
<1>7. LoseDevice => session' = 0 /\ request' = None /\ response' = None
  BY DEF LoseDevice, NewConnection
<1>8. CASE Reconfigure
  <2>1. /\ UNCHANGED <<mode, sec, trailer, run, phase, file, hostSession, promised>>
        /\ session' = 0 /\ request' = None /\ response' = None
    BY <1>8 DEF Reconfigure, NewConnection, firmware, tool, progress
  <2> QED BY <1>6, <2>1 DEF PromiseInv, PromisedInv, Fw!Holds
<1>9. CASE Confirm \/ Unplug
  <2>1. UNCHANGED <<run, phase, file, hostSession, promised>> /\ mode = "app"
    BY <1>9 DEF Confirm, Unplug, Fw!Confirmation, Fw!ConfirmStart, Fw!ConfirmDone,
                Fw!ConfirmFails, Fw!PowerCut, Fw!Running, tool, progress
  <2>2. promised' = None
    BY <2>1 DEF PromiseInv, PromisedInv
  <2>3. LoseDevice \/ UNCHANGED <<hash, state, session, request, response>>
    BY <1>9 DEF Confirm, Unplug, Fw!Confirmation, Fw!ConfirmStart, Fw!ConfirmDone,
                Fw!ConfirmFails, Fw!PowerOff, Fw!updateVars, device
  <2>4. PromisedInv'
    BY <2>2 DEF PromisedInv
  <2>5. CASE UNCHANGED <<hash, state, session, request, response>>
    BY <2>1, <2>4, <2>5 DEF PromiseInv, HashInv, AnswerInv, RequestInv, Active
  <2> QED BY <1>6, <1>7, <2>1, <2>3, <2>4, <2>5
<1>10. CASE Boot
  <2>1. /\ UNCHANGED <<hash, state, session, request, response, run, phase, file,
                       hostSession>>
        /\ promised' = None
    BY <1>10 DEF Boot, Fw!Boot, Fw!BootTest, Fw!BootReject, Fw!BootRevert, Fw!BootPlain,
                 Fw!updateVars, device, tool, progress
  <2> QED BY <2>1 DEF PromiseInv, HashInv, AnswerInv, RequestInv, PromisedInv, Active
<1> QED BY <1>3, <1>4, <1>5, <1>8, <1>9, <1>10

LEMMA PromiseInvStep ==
  ASSUME PromiseInv, [Next]_vars
  PROVE  PromiseInv'
<1>1. SysInv'
  BY SysInvStep DEF PromiseInv
<1> QED BY <1>1, ServePromise, ReadPromise, SendPromise, OtherPromise
     DEF PromiseInv, Next, ToolStep

LEMMA PromiseInvInitially ==
  ASSUME Init
  PROVE  PromiseInv
<1>1. phase = "idle" /\ request = None /\ response = None /\ promised = None
  BY DEF Init
<1> QED BY <1>1, SysInvInitially
     DEF PromiseInv, HashInv, AnswerInv, RequestInv, PromisedInv, Active

(* Only the boot loader starts the device, and only with the image that    *)
(* was promised when that one is signed: the slot holds no other, and the  *)
(* spare page has no header for which it would be rejected.                *)
LEMMA PromisedBoots ==
  ASSUME PromiseInv, [Next]_vars, mode = "off", mode' = "app", promised \in SignedImages
  PROVE  primary' = promised /\ primaryState' = "test"
<1>1. Boot
  <2>1. link = "off" /\ mode' # mode
    BY DEF PromiseInv, SysInv, LinkInv
  <2>2. ASSUME UNCHANGED firmware PROVE FALSE
    BY <2>1, <2>2 DEF firmware
  <2>3. ~Read
    BY <2>1, <2>2 DEF Read, Fw!PowerCut, Fw!Running
  <2>4. ~Confirm /\ ~Unplug
    BY DEF Confirm, Unplug, Fw!Confirmation, Fw!ConfirmStart, Fw!ConfirmDone,
           Fw!ConfirmFails, Fw!PowerCut, Fw!Running
  <2>5. ~Serve
    BY <2>1 DEF Serve
  <2> QED BY <2>2, <2>3, <2>4, <2>5 DEF Next, ToolStep, Start, SendPacket, Timeout, Stop,
             Attach, Reconfigure, vars
<1>2. promised \in Images /\ promised # None
  BY FirmwareAssumption DEF Fw!ImagesAssumption
<1>3. trailer = "good" /\ Fw!Holds(promised) /\ ~Fw!HasMagic(sec[0])
  BY <1>2, FirmwareFacts DEF PromiseInv, SysInv, PromisedInv
<1>4. PICK i \in Images : Fw!BootTest(i)
  <2>1. Fw!Bootable(promised)
    BY <1>3 DEF Fw!Bootable
  <2> QED BY <1>1, <1>2, <1>3, <2>1 DEF Boot, Fw!Boot, Fw!BootReject, Fw!BootRevert,
             Fw!BootPlain
<1>5. i = promised
  <2>1. Length[i] \in Nat \ {0} /\ Length[promised] \in Nat \ {0}
    BY <1>2, FirmwareConstants
  <2>2. Fw!Holds(i)
    BY <1>4 DEF Fw!BootTest, Fw!Bootable
  <2>3. 0 \in 0 .. (Length[i] - 1) /\ 0 \in 0 .. (Length[promised] - 1)
    BY <2>1
  <2>4. sec[PageWords + 0] = <<i, 0>> /\ sec[PageWords + 0] = <<promised, 0>>
    BY <1>3, <2>2, <2>3 DEF Fw!Holds
  <2> QED BY <2>4
<1> QED BY <1>4, <1>5 DEF Fw!BootTest

(* What the tool reports as updated is what boots next, if it is signed:   *)
(* the answer to FW_REBOOT is of the run's session, in which no FW_BEGIN   *)
(* but the run's own was served, and power cut at any moment after it does *)
(* not take the update back.                                               *)
THEOREM ReportedUpdateBoots == Spec => PromiseKept
<1>1. Init => PromiseInv
  BY PromiseInvInitially
<1>2. PromiseInv /\ [Next]_vars => PromiseInv'
  BY PromiseInvStep
<1>3. PromiseInv /\ [Next]_vars =>
        [mode = "off" /\ mode' = "app" /\ promised \in SignedImages =>
           primary' = promised /\ primaryState' = "test"]_vars
  BY PromisedBoots
<1> QED BY <1>1, <1>2, <1>3, PTL DEF Spec, PromiseKept

----------------------------------------------------------------------------
(* A run that nothing disturbs.                                            *)

(* A device that is not there has nothing; one that is configured anew has *)
(* nothing of a run before.                                                *)
Forgotten ==
  /\ session = 0 /\ lastRequestId = 0
  /\ partial = None /\ request = None /\ response = None

FreshInv ==
  /\ link = "off" => Forgotten
  /\ fresh => ~Active /\ link \in {"off", "up"} /\ Forgotten

(* Blocks are stored one behind the other; only the last is shorter.       *)
AtBlock(n, length) == n = length \/ n % ChunkMax = 0

Piece(n, length) == IF length - n < ChunkMax THEN length - n ELSE ChunkMax

BlockInv(m) ==
  m # None /\ m.op = "WRITE" /\ m.session = session =>
    /\ m.offset % ChunkMax = 0 /\ m.offset < Length[hash]
    /\ m.length = Piece(m.offset, Length[hash])

BlocksInv ==
  /\ phase = "WRITE" => offset % ChunkMax = 0
  /\ BlockInv(partial) /\ BlockInv(request)

UpdateInv ==
  /\ state # "IDLE" => size = Length[hash]
  /\ state \in {"ERASING", "READY"} => next = 0
  /\ Fw!Active => AtBlock(next, Length[hash])

(* The exchange of one request: the packets, the request, the response.    *)
ExchangeInv ==
  /\ link = "up"
  /\ packets = 0 => partial = None /\ request = None /\ response = None
  /\ packets > 0 /\ packets < Parts(phase) =>
       partial = Message /\ request = None /\ response = None
  /\ packets = Parts(phase) =>
       /\ partial = None
       /\ request = IF response = None THEN Message ELSE None
  /\ response = None /\ phase = "HELLO" => session = 0
  /\ phase # "HELLO" => session = hostSession
  /\ response = None => lastRequestId < id
  /\ response # None => lastRequestId = id /\ Correlated(response) /\ Acceptable(response)
  /\ response # None /\ phase = "HELLO" => response.session = session /\ session # 0

(* The update in the device is the run's.                                  *)
OwnUpdate == hash = file /\ \A k \in 0 .. (next - 1) : acked[k] = file

(* The device is where the run believes it to be.                          *)
InStepInv ==
  LET asked == response = None
  IN /\ phase \in {"HELLO", "BEGIN"} => (Fw!Active => OwnUpdate)
     /\ phase = "BEGIN" /\ ~asked /\ response.status = "OK" => Fw!Active
     /\ phase = "STATUS" => Fw!Active /\ OwnUpdate
     /\ phase = "STATUS" /\ ~asked => response.state = state /\ response.next = next
     /\ phase = "WRITE" => /\ state \in {"READY", "RECEIVING"} /\ OwnUpdate
                           /\ next = IF asked THEN offset ELSE offset + ChunkLength
     /\ phase = "FINISH" /\ asked =>
          state = "RECEIVING" /\ OwnUpdate /\ next = Length[file]
     /\ phase = "FINISH" /\ ~asked => state = "COMPLETE"
     /\ phase = "REBOOT" => state = "COMPLETE"

UndisturbedInv == undisturbed /\ Active => ExchangeInv /\ InStepInv

SuccessInv == PromiseInv /\ FreshInv /\ BlocksInv /\ UpdateInv /\ UndisturbedInv

(* Behind a block comes the next.                                          *)
LEMMA NextBlock ==
  ASSUME NEW n \in Nat, NEW c \in Nat \ {0}, n % c = 0
  PROVE  (n + c) % c = 0
<1> DEFINE q == n \div c
           p == (n + c) \div c
           r == (n + c) % c
<1>1. q \in Nat /\ p \in Nat /\ r \in 0 .. (c - 1)
  OBVIOUS
<1>2. n = c * q /\ n + c = c * p + r
  OBVIOUS
<1> HIDE DEF q, p, r
<1>3. c * q + c = c * p + r
  BY <1>2
<1>4. PICK x \in Int : x = q + 1 - p
  BY <1>1
<1>5. c * x = r
  <2>1. c * (q + 1 - p) = c * q + c - c * p
    BY <1>1
  <2> QED BY <1>1, <1>3, <1>4, <2>1
<1>6. r = 0
  <2>1. CASE x >= 1
    <3>1. c * x >= c
      BY <2>1
    <3> QED BY <1>1, <1>5, <3>1
  <2>2. CASE x <= -1
    <3>1. c * x <= -c
      BY <2>2
    <3> QED BY <1>1, <1>5, <3>1
  <2>3. CASE x = 0
    BY <1>5, <2>3
  <2> QED BY <2>1, <2>2, <2>3
<1> QED BY <1>6 DEF r

(* A block that begins at the end of another ends at the end of one.       *)
LEMMA PieceEnds ==
  ASSUME NEW n \in Nat, NEW length \in Nat, n < length, n % ChunkMax = 0
  PROVE  AtBlock(n + Piece(n, length), length)
<1>1. ChunkMax \in Nat \ {0}
  BY FirmwareConstants
<1>2. (n + ChunkMax) % ChunkMax = 0
  BY <1>1, NextBlock
<1>3. CASE length - n < ChunkMax
  BY <1>3 DEF AtBlock, Piece
<1>4. CASE ~(length - n < ChunkMax)
  BY <1>2, <1>4 DEF AtBlock, Piece
<1> QED BY <1>3, <1>4

(* What the commands leave of an update.                                   *)
LEMMA BeginResult ==
  ASSUME NEW f \in Images, Fw!Begin(Length[f], f), mode' = "app"
  PROVE  /\ size' = Length[f] /\ hash' = f /\ next' = 0
         /\ state' \in {"ERASING", "ERROR"}
         /\ state' = "ERROR" => FlashFailed
BY DEF Fw!Begin, Fw!PowerOff, Fw!Fail, FlashFailed

LEMMA StepResult ==
  ASSUME Fw!Step, mode' = "app"
  PROVE  /\ UNCHANGED <<size, hash, next, acked>>
         /\ state' \in {"ERASING", "READY", "ERROR"} /\ state = "ERASING"
         /\ state' = "ERROR" => FlashFailed
BY DEF Fw!Step, Fw!FailOrPowerOff, Fw!PowerOff, Fw!Fail, FlashFailed

LEMMA WriteResult ==
  ASSUME NEW o, NEW n, NEW f, Fw!Write(o, n, f), mode' = "app"
  PROVE  /\ UNCHANGED <<size, hash>> /\ state \in {"READY", "RECEIVING"}
         /\ \/ /\ state' = "RECEIVING" /\ next' = next + n
               /\ acked' = [k \in DOMAIN acked |->
                              IF k \in o .. (o + n - 1) THEN f ELSE acked[k]]
            \/ state' = "ERROR" /\ FlashFailed
BY DEF Fw!Write, Fw!WriteAllowed, Fw!FailOrPowerOff, Fw!PowerOff, Fw!Fail, FlashFailed

LEMMA WriteAgainResult ==
  ASSUME NEW o, NEW n, NEW f, Fw!WriteAgain(o, n, f)
  PROVE  UNCHANGED <<size, hash, state, next>>
BY DEF Fw!WriteAgain, Fw!updateVars

LEMMA FinishResult ==
  ASSUME Fw!Finish \/ Fw!FinishRefused, mode' = "app"
  PROVE  /\ UNCHANGED <<size, hash>> /\ state' \in {"COMPLETE", "ERROR"}
         /\ state = "RECEIVING"
         /\ Fw!Finish => state' = "COMPLETE" \/ FlashFailed
BY DEF Fw!Finish, Fw!FinishRefused, Fw!FinishAllowed, Fw!FailOrPowerOff, Fw!PowerOff,
       Fw!Fail, FlashFailed

(* What is received ends at the end of a block, whoever has sent it.       *)
LEMMA UpdateKeeps ==
  ASSUME SuccessInv, [Next]_vars
  PROVE  UpdateInv'
<1>1. ASSUME UNCHANGED <<size, hash, state, next>> PROVE UpdateInv'
  BY <1>1 DEF SuccessInv, UpdateInv, Fw!Active
<1>2. ASSUME Fw!PowerOff PROVE UpdateInv'
  BY <1>2 DEF Fw!PowerOff, Fw!ResetUpdate, UpdateInv, Fw!Active
<1>3. CASE (\E f \in Files : Start(f)) \/ SendPacket \/ Timeout \/ Stop \/ Attach
             \/ Reconfigure \/ UNCHANGED vars
  BY <1>1, <1>3 DEF Start, SendPacket, Timeout, Stop, Attach, Reconfigure, vars, firmware
<1>4. CASE Read
  BY <1>1, <1>2, <1>4 DEF Read, Fw!PowerCut, firmware
<1>5. CASE Confirm \/ Unplug
  BY <1>1, <1>2, <1>5 DEF Confirm, Unplug, Fw!Confirmation, Fw!ConfirmStart,
     Fw!ConfirmDone, Fw!ConfirmFails, Fw!PowerCut, Fw!updateVars
<1>6. CASE Boot
  BY <1>1, <1>6 DEF Boot, Fw!Boot, Fw!BootTest, Fw!BootReject, Fw!BootRevert,
     Fw!BootPlain, Fw!updateVars
<1>7. CASE Serve
  <2>1. request # None /\ request \in Requests /\ request.img \in Images
    BY <1>7, FirmwareConstants DEF SuccessInv, PromiseInv, SysInv, TypeOK, Serve, Requests
  <2>2. CASE Lost
    <3>1. FwP!IInv'
      BY <1>7, FirmwareTakesStep, FirmwareStep DEF SuccessInv, PromiseInv, SysInv, Next
    <3>2. mode' = "off"
      BY <2>2 DEF Lost
    <3>3. state' = "IDLE"
      BY <3>1, <3>2 DEF FwP!IInv, FwP!PhaseInv
    <3> QED BY <3>3 DEF UpdateInv, Fw!Active
  <2>3. CASE Granted \/ Rejected
    BY <1>1, <2>3 DEF Granted, Rejected, Refuse, firmware
  <2>4. CASE Served
    <3>1. ServeCommand /\ mode' = "app" /\ request.session = session
      BY <2>4 DEF Served, ServeCommand
    <3>2. ASSUME NEW status, Refuse(status) PROVE UNCHANGED <<size, hash, state, next>>
      BY <3>2 DEF Refuse, firmware
    <3>3. ASSUME Fw!Begin(Length[request.img], request.img) PROVE UpdateInv'
      <4>1. ChunkMax \in Nat \ {0}
        BY FirmwareConstants
      <4>2. 0 % ChunkMax = 0
        BY <4>1
      <4>3. /\ size' = Length[hash'] /\ next' = 0 /\ state' \in {"ERASING", "ERROR"}
        BY <2>1, <3>1, <3>3, BeginResult
      <4> QED BY <4>2, <4>3 DEF UpdateInv, Fw!Active, AtBlock
    <3>4. ASSUME Fw!Step PROVE UpdateInv'
      <4>1. /\ UNCHANGED <<size, hash, next>> /\ state = "ERASING"
            /\ state' \in {"ERASING", "READY", "ERROR"}
        BY <3>1, <3>4, StepResult
      <4> QED BY <4>1 DEF SuccessInv, UpdateInv, Fw!Active
    <3>5. ASSUME request.op = "WRITE",
                 Fw!Write(request.offset, request.length, request.img)
          PROVE  UpdateInv'
      <4>1. /\ UNCHANGED <<size, hash>> /\ state # "IDLE"
            /\ \/ state' = "RECEIVING" /\ next' = next + request.length
               \/ state' = "ERROR"
        BY <3>1, <3>5, WriteResult
      <4>2. request.offset = next /\ next \in Nat /\ hash \in Images
        BY <3>5, <4>1, FirmwareFacts, FirmwareConstants
           DEF Fw!Write, SuccessInv, PromiseInv, SysInv
      <4>3. /\ next % ChunkMax = 0 /\ next < Length[hash]
            /\ request.length = Piece(next, Length[hash])
        BY <2>1, <3>1, <3>5, <4>2 DEF SuccessInv, BlocksInv, BlockInv
      <4>4. Length[hash] \in Nat
        BY <4>2, FirmwareConstants
      <4>5. AtBlock(next + request.length, Length[hash])
        BY <4>2, <4>3, <4>4, PieceEnds
      <4> QED BY <4>1, <4>5 DEF SuccessInv, UpdateInv, Fw!Active, AtBlock
    <3>6. ASSUME Fw!Finish \/ Fw!FinishRefused PROVE UpdateInv'
      <4>1. UNCHANGED <<size, hash>> /\ state' \in {"COMPLETE", "ERROR"} /\ state # "IDLE"
        BY <3>1, <3>6, FinishResult
      <4> QED BY <4>1 DEF SuccessInv, UpdateInv, Fw!Active
    <3>7. CASE ServeBegin
      BY <1>1, <3>2, <3>3, <3>7 DEF ServeBegin, Result
    <3>8. CASE ServeStatus
      BY <1>1, <3>2, <3>4, <3>8 DEF ServeStatus, Result
    <3>9. CASE request.op = "WRITE" /\ ServeWrite
      BY <1>1, <3>2, <3>5, <3>9, WriteAgainResult DEF ServeWrite, Result
    <3>10. CASE ServeFinish \/ ServeReboot
      BY <1>1, <3>2, <3>6, <3>10 DEF ServeFinish, ServeReboot, Result
    <3> QED BY <3>1, <3>7, <3>8, <3>9, <3>10 DEF ServeCommand
  <2> QED BY <1>7, <2>2, <2>3, <2>4, ServeCases DEF SuccessInv, PromiseInv
<1> QED BY <1>3, <1>4, <1>5, <1>6, <1>7 DEF Next, ToolStep

LEMMA BlocksKeep ==
  ASSUME SuccessInv, [Next]_vars
  PROVE  BlocksInv'
<1>1. ASSUME UNCHANGED <<hash, session, partial, request>>,
             phase' = "WRITE" => phase = "WRITE" /\ UNCHANGED offset
      PROVE  BlocksInv'
  BY <1>1 DEF SuccessInv, BlocksInv, BlockInv, Piece
<1>2. ASSUME partial' = None, request' = None,
             phase' = "WRITE" => phase = "WRITE" /\ UNCHANGED offset
      PROVE  BlocksInv'
  BY <1>2 DEF SuccessInv, BlocksInv, BlockInv
<1>3. CASE (\E f \in Files : Start(f)) \/ Timeout \/ Stop \/ Attach \/ UNCHANGED vars
  BY <1>1, <1>3 DEF Start, Timeout, Stop, End, Attach, vars, firmware, device, tool, progress
<1>4. CASE Reconfigure \/ Unplug
  BY <1>2, <1>4 DEF Reconfigure, Unplug, LoseDevice, NewConnection, tool, progress
<1>5. CASE Confirm
  <2>1. \/ UNCHANGED <<hash, session, partial, request>>
        \/ partial' = None /\ request' = None
    BY <1>5 DEF Confirm, Fw!Confirmation, Fw!ConfirmStart, Fw!ConfirmDone,
       Fw!ConfirmFails, Fw!PowerOff, Fw!updateVars, device, LoseDevice, NewConnection
  <2>2. UNCHANGED <<phase, offset>>
    BY <1>5 DEF Confirm, tool, progress
  <2> QED BY <1>1, <1>2, <2>1, <2>2
<1>6. CASE Boot
  BY <1>1, <1>6 DEF Boot, Fw!Boot, Fw!BootTest, Fw!BootReject, Fw!BootRevert,
     Fw!BootPlain, Fw!updateVars, device, tool, progress
<1>7. CASE Serve
  <2>1. request # None /\ request' = None /\ UNCHANGED tool
        /\ (partial' = None \/ UNCHANGED partial)
    BY <1>7, ServeResult DEF SuccessInv, PromiseInv, SysInv
  <2>2. partial = None
    BY <2>1 DEF SuccessInv, PromiseInv, SysInv, OwnInv, OneMessage
  <2> QED BY <1>2, <2>1, <2>2 DEF tool, progress
<1>8. CASE Read
  <2>1. request' = None /\ partial' = None
    BY <1>8 DEF Read, LoseDevice, NewConnection, SuccessInv, PromiseInv, SysInv, OwnInv,
                OneMessage
  <2>2. ASSUME phase' = "WRITE" PROVE offset' % ChunkMax = 0
    <3>1. Advance(response) /\ ~End
      BY <1>8, <2>2 DEF Read, End
    <3>2. CASE phase = "STATUS"
      <4>1. /\ ResumeValid(response.next) /\ response.next # Length[file]
            /\ offset' = response.next
        BY <2>2, <3>1, <3>2 DEF Advance, GoOn
      <4> QED BY <4>1 DEF ResumeValid
    <3>3. CASE phase = "WRITE"
      <4>1. offset' = offset + ChunkLength /\ ~LastChunk
        BY <2>2, <3>1, <3>3 DEF Advance, GoOn
      <4>2. offset % ChunkMax = 0 /\ offset \in Nat /\ ChunkMax \in Nat \ {0}
        BY <3>3, FirmwareConstants DEF SuccessInv, PromiseInv, SysInv, TypeOK, BlocksInv
      <4>3. Length[file] \in Nat /\ offset < Length[file]
        BY <3>3, ChunkResult, FirmwareConstants DEF SuccessInv, PromiseInv, SysInv
      <4>4. ChunkLength = ChunkMax
        BY <4>1, <4>2, <4>3 DEF LastChunk, ChunkLength
      <4> QED BY <4>1, <4>2, <4>4, NextBlock
    <3> QED BY <2>2, <3>1, <3>2, <3>3 DEF Advance, GoOn
  <2> QED BY <2>1, <2>2 DEF BlocksInv, BlockInv
<1>9. CASE SendPacket
  <2>1. /\ UNCHANGED <<hash, session, phase, offset>> /\ Active
    BY <1>9, SendResult DEF SuccessInv, PromiseInv, firmware, progress
  <2>2. /\ \/ request' \in {None, Message, Noise(Message), Noise(partial)}
           \/ partial # None /\ request' = MixedUp(partial)
        /\ partial' \in {None, partial, Message, Noise(Message)}
    BY <1>9, SendResult DEF SuccessInv, PromiseInv
  <2>3. BlockInv(Message)
    <3>1. SUFFICES ASSUME phase = "WRITE", hostSession = session
                   PROVE  /\ offset % ChunkMax = 0 /\ offset < Length[hash]
                          /\ ChunkLength = Piece(offset, Length[hash])
      BY DEF BlockInv, Message
    <3>2. hash = file
      BY <2>1, <3>1 DEF SuccessInv, PromiseInv, HashInv
    <3>3. offset < Length[file]
      BY <3>1 DEF SuccessInv, PromiseInv, SysInv, RunInv
    <3> QED BY <3>1, <3>2, <3>3 DEF SuccessInv, BlocksInv, ChunkLength, Piece
  <2>4. BlockInv(Noise(Message)) /\ BlockInv(Noise(partial))
    BY DEF BlockInv, Noise, Altered
  <2>5. partial # None => BlockInv(MixedUp(partial))
    <3>1. /\ MixedUp(partial).op = partial.op /\ MixedUp(partial).session = partial.session
          /\ MixedUp(partial).offset = partial.offset
          /\ MixedUp(partial).length = partial.length
      BY DEF MixedUp, Altered
    <3>2. BlockInv(partial)
      BY DEF SuccessInv, BlocksInv
    <3> QED BY <3>1, <3>2 DEF BlockInv
  <2>6. BlockInv(None) /\ BlockInv(partial)
    BY DEF SuccessInv, BlocksInv, BlockInv
  <2>7. PICK r : r = request' /\ BlockInv(r)
    BY <2>2, <2>3, <2>4, <2>5, <2>6
  <2>8. PICK p : p = partial' /\ BlockInv(p)
    BY <2>2, <2>3, <2>4, <2>6
  <2>9. BlockInv(request)' /\ BlockInv(partial)'
    BY <2>1, <2>7, <2>8 DEF BlockInv, Piece
  <2> QED BY <2>1, <2>9 DEF SuccessInv, BlocksInv
<1> QED BY <1>3, <1>4, <1>5, <1>6, <1>7, <1>8, <1>9 DEF Next, ToolStep

LEMMA FreshKeeps ==
  ASSUME SuccessInv, [Next]_vars
  PROVE  FreshInv'
<1>1. FreshInv /\ link \in {"off", "up", "deaf"}
  BY DEF SuccessInv, PromiseInv, SysInv, TypeOK
<1>2. LoseDevice => link' = "off" /\ Forgotten'
  BY DEF LoseDevice, NewConnection, Forgotten
<1>3. CASE \E f \in Files : Start(f)
  BY <1>1, <1>3 DEF Start, device, FreshInv, Forgotten
<1>4. CASE SendPacket
  <2>1. link = "up" /\ link' # "off" /\ Active /\ UNCHANGED fresh
    BY <1>4, SendResult DEF SuccessInv, PromiseInv
  <2> QED BY <1>1, <2>1 DEF FreshInv
<1>5. CASE Read
  <2>1. Active /\ response # None /\ UNCHANGED fresh
    BY <1>5 DEF Read
  <2>2. fresh' = FALSE /\ link # "off"
    BY <1>1, <2>1 DEF FreshInv, Forgotten, SuccessInv, PromiseInv, SysInv, TypeOK
  <2>3. LoseDevice \/ UNCHANGED link
    BY <1>5 DEF Read
  <2> QED BY <1>2, <2>2, <2>3 DEF FreshInv
<1>6. CASE Timeout \/ Stop
  <2>1. Active /\ UNCHANGED <<fresh, device>>
    BY <1>6 DEF Timeout, Stop
  <2> QED BY <1>1, <2>1 DEF FreshInv, Forgotten, device
<1>7. CASE Serve
  <2>1. link = "up" /\ request # None /\ UNCHANGED fresh
    BY <1>7 DEF Serve
  <2>2. LoseDevice \/ UNCHANGED link
    BY <1>7, ServeCases DEF SuccessInv, PromiseInv, Lost, Granted, Rejected, Refuse, Served,
       Respond
  <2> QED BY <1>1, <1>2, <2>1, <2>2 DEF FreshInv, Forgotten
<1>8. CASE Confirm \/ Boot \/ Unplug \/ UNCHANGED vars
  <2>1. /\ UNCHANGED <<fresh, phase>> /\ (LoseDevice \/ UNCHANGED device)
    BY <1>8 DEF Confirm, Boot, Unplug, vars, tool
  <2> QED BY <1>1, <1>2, <2>1 DEF FreshInv, Forgotten, Active, device
<1>9. CASE Attach
  BY <1>1, <1>9 DEF Attach, FreshInv, Forgotten, Active, tool
<1>10. CASE Reconfigure
  BY <1>10 DEF Reconfigure, NewConnection, FreshInv, Forgotten, Active, tool
<1> QED BY <1>3, <1>4, <1>5, <1>6, <1>7, <1>8, <1>9, <1>10 DEF Next, ToolStep

(* A run begins with a device that has nothing of others, or their update  *)
(* of the same file.                                                       *)
LEMMA StartInStep ==
  ASSUME SuccessInv, NEW f \in Files, Start(f)
  PROVE  UndisturbedInv'
<1>1. /\ UNCHANGED <<link, session, lastRequestId, partial, request, response, state,
                     hash, next, acked>>
      /\ phase' = "HELLO" /\ packets' = 0 /\ file' = f /\ id' = 1
      /\ undisturbed' = Undisturbed(f) /\ link # "off"
  BY DEF Start, device, firmware
<1>2. SUFFICES ASSUME Undisturbed(f) PROVE ExchangeInv' /\ InStepInv'
  BY <1>1 DEF UndisturbedInv
<1>3. link = "up" /\ Forgotten
  BY <1>1, <1>2 DEF Undisturbed, SuccessInv, FreshInv
<1>4. ExchangeInv'
  BY <1>1, <1>3 DEF ExchangeInv, Forgotten, Parts
<1>5. InStepInv'
  BY <1>1, <1>2 DEF InStepInv, Undisturbed, OwnUpdate, Fw!Active
<1> QED BY <1>4, <1>5

LEMMA SendInStep ==
  ASSUME SuccessInv, SendPacket
  PROVE  UndisturbedInv'
<1>1. /\ UNCHANGED <<state, hash, next, acked, session, lastRequestId, response,
                     run, phase, file, id, hostSession, attempt, offset, undisturbed>>
      /\ packets' = packets + 1 /\ packets < Parts(phase) /\ packets \in Nat
      /\ Active /\ response = None /\ request = None /\ link = "up"
  BY SendResult
     DEF SuccessInv, PromiseInv, SysInv, OwnInv, firmware, progress
<1>2. SUFFICES ASSUME undisturbed, ExchangeInv, InStepInv
               PROVE  ExchangeInv' /\ InStepInv'
  BY <1>1 DEF SuccessInv, UndisturbedInv
<1>3. Message \in Requests /\ Message # None
  BY <1>1, MessageTypes, NoneAssumption DEF SuccessInv, PromiseInv, SysInv
<1>4. partial = IF packets = 0 THEN None ELSE Message
  BY <1>1, <1>2 DEF ExchangeInv
<1>5. OwnPacket
  BY <1>3, <1>4 DEF SendPacket
<1>6. Message' = Message
  BY <1>1 DEF Message, ChunkLength
<1>7. ExchangeInv'
  <2>1. packets' # 0 /\ Parts(phase)' = Parts(phase)
    BY <1>1 DEF Parts
  <2>2. link' = "up"
    BY <1>1, <1>5 DEF OwnPacket
  <2>3. packets' = Parts(phase) => partial' = None /\ request' = Message
    BY <1>1, <1>5 DEF OwnPacket
  <2>4. packets' # Parts(phase) => partial' = Message /\ request' = None
    BY <1>1, <1>5 DEF OwnPacket
  <2>5. /\ phase = "HELLO" => session = 0
        /\ phase # "HELLO" => session = hostSession
        /\ lastRequestId < id
    BY <1>1, <1>2 DEF ExchangeInv
  <2> QED BY <1>1, <1>6, <2>1, <2>2, <2>3, <2>4, <2>5 DEF ExchangeInv
<1>8. InStepInv'
  BY <1>1, <1>2 DEF InStepInv, OwnUpdate, ChunkLength, Fw!Active
<1> QED BY <1>7, <1>8

(* A request of such a run is served as it was sent.                       *)
LEMMA ServeFinds ==
  ASSUME SuccessInv, Serve, Active, undisturbed
  PROVE  /\ ExchangeInv /\ InStepInv
         /\ packets = Parts(phase) /\ request = Message /\ response = None
         /\ phase \in Phases /\ file \in Files /\ attempt \in 1 .. MaxAttempts
<1>1. ExchangeInv /\ InStepInv /\ request # None /\ response = None
  BY DEF SuccessInv, UndisturbedInv, Serve
<1>2. packets \in Nat /\ packets <= Parts(phase) /\ Parts(phase) \in Nat
  BY DEF SuccessInv, PromiseInv, SysInv, OwnInv, TypeOK, Parts
<1>3. packets = Parts(phase)
  BY <1>1, <1>2 DEF ExchangeInv
<1>4. request = Message
  BY <1>1, <1>3 DEF ExchangeInv
<1> QED BY <1>1, <1>3, <1>4
     DEF SuccessInv, PromiseInv, SysInv, RunInv, TypeOK, Active, Phases

(* All blocks have been acknowledged: the data is that of the file, and it *)
(* begins with a header.                                                   *)
LEMMA OwnVerified ==
  ASSUME SuccessInv, file \in Files, OwnUpdate, state = "RECEIVING", next = Length[file]
  PROVE  Fw!FinishAllowed /\ Fw!Verified
<1>1. /\ file \in Images /\ file \in HeaderImages /\ file # None
      /\ Length[file] \in 1 .. Fw!ImageMax
  BY FirmwareConstants, ClientAssumption
<1>2. size = Length[file] /\ hash = file
  BY DEF SuccessInv, UpdateInv, OwnUpdate
<1>3. /\ Fw!AckedStored /\ acked \in [0 .. (Fw!ImageMax - 1) -> Images \cup {None}]
  BY FirmwareFacts DEF SuccessInv, PromiseInv, SysInv
<1>4. ASSUME NEW k \in 0 .. (Length[file] - 1) PROVE sec[PageWords + k] = <<file, k>>
  <2>1. acked[k] = file
    BY DEF OwnUpdate
  <2>2. k \in 0 .. (Fw!ImageMax - 1) /\ DOMAIN acked = 0 .. (Fw!ImageMax - 1)
    BY <1>1, <1>3, FirmwareConstants
  <2> QED BY <1>1, <1>3, <2>1, <2>2 DEF Fw!AckedStored
<1>5. Fw!Holds(file)
  BY <1>4 DEF Fw!Holds
<1>6. 0 \in 0 .. (Length[file] - 1) /\ PageWords + 0 = PageWords
  BY <1>1, FirmwareAssumption DEF Fw!SizesAssumption
<1>7. sec[PageWords] = <<file, 0>>
  BY <1>4, <1>6
<1>8. Fw!HasMagic(sec[PageWords])
  BY <1>1, <1>7 DEF Fw!HasMagic
<1> QED BY <1>2, <1>5, <1>8 DEF Fw!FinishAllowed, Fw!Verified, Fw!DigestMatches

(* An answer the run takes.                                                *)
LEMMA AnswerInStep ==
  ASSUME SuccessInv, Serve, Active, undisturbed,
         NEW status, NEW s \in 0 .. MaxRuns, response' = Answer(status, s),
         \/ status = "OK"
         \/ status = "BUSY" /\ phase = "BEGIN" /\ attempt < MaxAttempts,
         request' = None, UNCHANGED <<link, partial>>, lastRequestId' = id, session' = s,
         phase = "HELLO" => s # 0,
         phase # "HELLO" => s = session
  PROVE  /\ ExchangeInv' /\ response' # None
         /\ response'.status = status /\ response'.state = state' /\ response'.next = next'
<1>1. /\ UNCHANGED <<phase, packets, file, id, hostSession, attempt, offset, run>>
      /\ (Active' <=> Active) /\ link = "up"
  BY DEF Serve, tool, progress, Active
<1>2. /\ ExchangeInv /\ packets = Parts(phase) /\ request = Message /\ partial = None
      /\ phase \in Phases
  BY ServeFinds DEF ExchangeInv
<1>3. response' # None
  BY AnswerTypes DEF SuccessInv, PromiseInv
<1>4. /\ response'.op = phase /\ response'.id = id /\ response'.session = s
      /\ response'.status = status /\ response'.state = state' /\ response'.next = next'
  BY <1>2 DEF Answer, Message
<1>5. hostSession = 0 <=> phase = "HELLO"
  BY DEF SuccessInv, PromiseInv, SysInv, OwnInv, SessionInv
<1>6. phase # "HELLO" => session = hostSession
  BY <1>2 DEF ExchangeInv
<1>7. Correlated(response)' /\ Acceptable(response)'
  BY <1>1, <1>4, <1>5, <1>6 DEF Correlated, Acceptable
<1>8. packets' = Parts(phase)' /\ packets' # 0 /\ Parts(phase)' \in Nat /\ packets' \in Nat
  BY <1>1, <1>2 DEF Parts
<1>9. ExchangeInv'
  <2>1. link' = "up" /\ partial' = None /\ lastRequestId' = id'
    BY <1>1, <1>2
  <2>2. phase' # "HELLO" => session' = hostSession'
    BY <1>1, <1>6
  <2>3. phase' = "HELLO" => response'.session = session' /\ session' # 0
    BY <1>1, <1>4
  <2> QED BY <1>3, <1>7, <1>8, <2>1, <2>2, <2>3 DEF ExchangeInv
<1> QED BY <1>3, <1>4, <1>9

LEMMA ServeInStep ==
  ASSUME SuccessInv, Serve
  PROVE  UndisturbedInv'
<1>1. /\ UNCHANGED <<phase, packets, file, id, hostSession, attempt, offset, run>>
      /\ (Active' <=> Active) /\ link = "up"
  BY DEF Serve, tool, progress, Active
<1>2. SUFFICES ASSUME undisturbed', Active PROVE ExchangeInv' /\ InStepInv'
  BY <1>1 DEF UndisturbedInv
<1>3. Granted \/ Rejected \/ Served
  BY <1>2, ServeCases DEF Lost, SuccessInv, PromiseInv
<1>4. undisturbed
  BY <1>2, <1>3 DEF Granted, Rejected, Refuse, Served
<1>5. /\ ExchangeInv /\ InStepInv /\ SysInv
      /\ packets = Parts(phase) /\ request = Message /\ response = None
      /\ phase \in Phases /\ file \in Files /\ attempt \in 1 .. MaxAttempts
      /\ request.op = phase /\ request.id = id /\ request.session = hostSession
      /\ request.img = file /\ file \in Images
  BY <1>2, <1>4, ServeFinds, FirmwareConstants DEF Message, SuccessInv, PromiseInv
<1>6. /\ lastRequestId < id /\ (phase = "HELLO" => session = 0 /\ hostSession = 0)
      /\ phase # "HELLO" => session = hostSession
      /\ session \in 0 .. MaxRuns /\ id \in Nat /\ lastRequestId \in Nat
      /\ sessionGeneration \in 0 .. MaxRuns
  BY <1>2, <1>5 DEF ExchangeInv, SysInv, OwnInv, SessionInv, TypeOK
<1>7. ~Rejected
  BY <1>5, <1>6 DEF Rejected, Phases
<1>8. CASE Granted
  <2>1. phase = "HELLO" /\ UNCHANGED <<state, hash, next, acked>>
    BY <1>5, <1>8 DEF Granted, firmware
  <2>2. session' \in 0 .. MaxRuns /\ session' # 0
    <3>1. KeptInv'
      BY <1>5, ServeTypes
    <3> QED BY <1>6, <1>8, <3>1 DEF KeptInv, TypeOK, Granted
  <2>3. ExchangeInv'
    BY <1>2, <1>4, <1>5, <1>8, <2>1, <2>2, AnswerInStep DEF Granted
  <2>4. InStepInv'
    BY <1>1, <1>5, <2>1 DEF InStepInv, OwnUpdate, Fw!Active
  <2> QED BY <2>3, <2>4
<1>9. CASE Served
  <2>1. /\ ServeCommand /\ mode' = "app" /\ lastRequestId' = id /\ UNCHANGED session
        /\ phase # "HELLO" /\ request.session = session
    BY <1>5, <1>9 DEF Served, ServeCommand
  <2>2. ASSUME NEW status, Respond(status),
               \/ status = "OK"
               \/ status = "BUSY" /\ phase = "BEGIN" /\ attempt < MaxAttempts
        PROVE  /\ ExchangeInv' /\ response' # None
               /\ response'.status = status /\ response'.state = state'
               /\ response'.next = next'
    BY <1>2, <1>4, <1>6, <2>1, <2>2, AnswerInStep DEF Respond
  <2>3. ASSUME NEW status, Refuse(status),
               \/ status = "OK"
               \/ status = "BUSY" /\ phase = "BEGIN" /\ attempt < MaxAttempts
        PROVE  /\ ExchangeInv' /\ response' # None
               /\ response'.status = status /\ response'.state = state'
               /\ response'.next = next' /\ UNCHANGED <<state, hash, next, acked>>
    BY <2>2, <2>3 DEF Refuse, firmware
  <2>4. ASSUME NEW command \in BOOLEAN, NEW status, Result(command, status)
        PROVE  command /\ Respond(status) /\ ~FlashFailed
    BY <1>2, <2>1, <2>4 DEF Result
  <2>5. CASE phase = "BEGIN"
    <3>1. ServeBegin
      BY <1>5, <2>1, <2>5 DEF ServeCommand
    <3>2. CASE confirm # "done"
      <4>1. Refuse("BUSY") /\ attempt < MaxAttempts
        BY <1>5, <3>1, <3>2, ClientAssumption DEF ServeBegin
      <4>2. /\ ExchangeInv' /\ response' # None /\ response'.status = "BUSY"
            /\ UNCHANGED <<state, hash, next, acked>>
        BY <2>3, <2>5, <4>1
      <4> QED BY <1>1, <1>5, <2>5, <4>2 DEF InStepInv, OwnUpdate, Fw!Active
    <3>3. CASE confirm = "done" /\ Fw!Active
      <4>1. OwnUpdate
        BY <1>5, <2>5, <3>3 DEF InStepInv
      <4>2. Refuse("OK")
        BY <1>5, <3>1, <3>3, <4>1 DEF ServeBegin, OwnUpdate
      <4>3. ExchangeInv' /\ response' # None /\ UNCHANGED <<state, hash, next, acked>>
        BY <2>3, <4>2
      <4> QED BY <1>1, <2>5, <3>3, <4>1, <4>3 DEF InStepInv, OwnUpdate, Fw!Active
    <3>4. CASE confirm = "done" /\ ~Fw!Active
      <4>1. /\ Fw!Begin(Length[file], file) /\ Respond(OkUnlessError) /\ ~FlashFailed
        BY <1>2, <1>5, <2>1, <3>1, <3>4 DEF ServeBegin, Result
      <4>2. state' = "ERASING" /\ hash' = file /\ next' = 0
        BY <1>5, <2>1, <4>1, BeginResult
      <4>3. Respond("OK")
        BY <4>1, <4>2 DEF OkUnlessError
      <4>4. ExchangeInv' /\ response' # None
        BY <2>2, <4>3
      <4> QED BY <1>1, <2>5, <4>2, <4>4 DEF InStepInv, OwnUpdate, Fw!Active
    <3> QED BY <3>2, <3>3, <3>4
  <2>6. CASE phase = "STATUS"
    <3>1. ServeStatus /\ OwnUpdate /\ Fw!Active
      BY <1>5, <2>1, <2>6 DEF ServeCommand, InStepInv
    <3>2. CASE state = "ERASING"
      <4>1. Fw!Step /\ Respond("OK") /\ ~FlashFailed
        BY <1>2, <2>1, <3>1, <3>2 DEF ServeStatus, Result
      <4>2. state' \in {"ERASING", "READY"} /\ UNCHANGED <<hash, next, acked>>
        BY <2>1, <4>1, StepResult
      <4>3. /\ ExchangeInv' /\ response' # None
            /\ response'.state = state' /\ response'.next = next'
        BY <2>2, <4>1
      <4> QED BY <1>1, <2>6, <3>1, <4>2, <4>3 DEF InStepInv, OwnUpdate, Fw!Active
    <3>3. CASE state # "ERASING"
      <4>1. Refuse("OK")
        BY <3>1, <3>3 DEF ServeStatus
      <4>2. /\ ExchangeInv' /\ response' # None
            /\ response'.state = state' /\ response'.next = next'
            /\ UNCHANGED <<state, hash, next, acked>>
        BY <2>3, <4>1
      <4> QED BY <1>1, <2>6, <3>1, <4>2 DEF InStepInv, OwnUpdate, Fw!Active
    <3> QED BY <3>2, <3>3
  <2>7. CASE phase = "WRITE"
    <3>1. /\ ServeWrite /\ OwnUpdate /\ state \in {"READY", "RECEIVING"} /\ next = offset
          /\ request.offset = offset /\ request.length = ChunkLength
      BY <1>5, <2>1, <2>7 DEF ServeCommand, InStepInv, Message
    <3>2. /\ size = Length[file] /\ ChunkLength \in 1 .. ChunkMax
          /\ offset + ChunkLength <= Length[file] /\ Length[file] \in 1 .. Fw!ImageMax
          /\ offset \in 0 .. (Length[file] - 1)
      BY <1>5, <2>7, <3>1, ChunkResult
         DEF SysInv, SuccessInv, UpdateInv, OwnUpdate
    <3>3. Fw!WriteAllowed(request.offset, request.length)
      BY <3>1, <3>2, FirmwareConstants DEF Fw!WriteAllowed
    <3>4. /\ Fw!Write(offset, ChunkLength, file) /\ Respond(OkUnlessError) /\ ~FlashFailed
      <4>1. ~(request.offset > next) /\ state # "ERASING" /\ request.offset = next
        BY <3>1, <3>2
      <4> QED BY <1>2, <1>5, <2>1, <3>1, <3>3, <4>1 DEF ServeWrite, Result
    <3>5. /\ state' = "RECEIVING" /\ hash' = hash /\ next' = next + ChunkLength
          /\ acked' = [k \in DOMAIN acked |->
                         IF k \in offset .. (offset + ChunkLength - 1) THEN file
                                                                        ELSE acked[k]]
      BY <2>1, <3>4, WriteResult
    <3>6. Respond("OK")
      BY <3>4, <3>5 DEF OkUnlessError
    <3>7. ExchangeInv' /\ response' # None
      BY <2>2, <3>6
    <3>8. \A k \in 0 .. (next' - 1) : acked'[k] = file
      <4>1. DOMAIN acked = 0 .. (Fw!ImageMax - 1)
        BY <1>5, FirmwareFacts DEF SysInv
      <4>2. SUFFICES ASSUME NEW k \in 0 .. (next' - 1) PROVE acked'[k] = file
        OBVIOUS
      <4>3. k \in DOMAIN acked /\ (k < next \/ k \in offset .. (offset + ChunkLength - 1))
        BY <3>1, <3>2, <3>5, <4>1, FirmwareConstants
      <4>4. k < next => acked[k] = file
        BY <3>1, <3>2 DEF OwnUpdate
      <4> QED BY <3>5, <4>3, <4>4
    <3>9. ChunkLength' = ChunkLength
      BY <1>1 DEF ChunkLength
    <3>10. OwnUpdate'
      BY <1>1, <3>1, <3>5, <3>8 DEF OwnUpdate
    <3> QED BY <1>1, <2>7, <3>1, <3>5, <3>7, <3>9, <3>10 DEF InStepInv
  <2>8. CASE phase = "FINISH"
    <3>1. ServeFinish /\ OwnUpdate /\ state = "RECEIVING" /\ next = Length[file]
      BY <1>5, <2>1, <2>8 DEF ServeCommand, InStepInv
    <3>2. Fw!FinishAllowed /\ Fw!Verified
      BY <1>5, <3>1, OwnVerified
    <3>3. Fw!Finish /\ Respond(OkUnlessError) /\ ~FlashFailed
      BY <1>2, <2>1, <3>1, <3>2 DEF ServeFinish, Result, Fw!FinishRefused
    <3>4. state' = "COMPLETE"
      BY <2>1, <3>3, FinishResult
    <3>5. Respond("OK")
      BY <3>3, <3>4 DEF OkUnlessError
    <3>6. ExchangeInv' /\ response' # None
      BY <2>2, <3>5
    <3> QED BY <1>1, <2>8, <3>4, <3>6 DEF InStepInv
  <2>9. CASE phase = "REBOOT"
    <3>1. state = "COMPLETE" /\ Refuse("OK")
      BY <1>5, <2>1, <2>9 DEF ServeCommand, ServeReboot, InStepInv
    <3>2. ExchangeInv' /\ UNCHANGED state
      BY <2>3, <3>1
    <3> QED BY <1>1, <2>9, <3>1, <3>2 DEF InStepInv
  <2> QED BY <1>5, <2>1, <2>5, <2>6, <2>7, <2>8, <2>9 DEF Phases
<1> QED BY <1>3, <1>7, <1>8, <1>9

(* The response to such a run is one it goes on with; only the last ends   *)
(* the run.                                                                *)
LEMMA ReadFinds ==
  ASSUME SuccessInv, Read, undisturbed
  PROVE  /\ ExchangeInv /\ InStepInv /\ Advance(response) /\ packets = Parts(phase)
         /\ Correlated(response) /\ Acceptable(response) /\ response # None
         /\ phase \in Phases /\ partial = None /\ request = None
         /\ phase = "STATUS" => /\ response.state = state /\ response.next = next
                                /\ Fw!Active
                                /\ state # "ERASING" => ResumeValid(next)
<1>1. /\ ExchangeInv /\ InStepInv /\ packets = Parts(phase) /\ response # None
      /\ phase \in Phases
  BY DEF Read, SuccessInv, UndisturbedInv, PromiseInv, SysInv, TypeOK, Active
<1>2. /\ Correlated(response) /\ Acceptable(response) /\ partial = None /\ request = None
  BY <1>1 DEF ExchangeInv
<1>3. Advance(response)
  BY <1>2 DEF Read
<1>4. ASSUME phase = "STATUS"
      PROVE  /\ response.state = state /\ response.next = next /\ Fw!Active
             /\ ResumeValid(next)
  <2>1. response.state = state /\ response.next = next /\ Fw!Active /\ hash = file
    BY <1>1, <1>4 DEF InStepInv, OwnUpdate
  <2>2. AtBlock(next, Length[file]) /\ size = Length[file]
    BY <2>1 DEF SuccessInv, UpdateInv, Fw!Active
  <2>3. next <= size
    BY FirmwareFacts DEF SuccessInv, PromiseInv, SysInv
  <2> QED BY <2>1, <2>2, <2>3 DEF ResumeValid, AtBlock
<1> QED BY <1>1, <1>2, <1>3, <1>4

LEMMA ReadInStep ==
  ASSUME SuccessInv, Read
  PROVE  UndisturbedInv'
<1>1. SUFFICES ASSUME undisturbed, phase' # "idle" PROVE ExchangeInv' /\ InStepInv'
  BY DEF UndisturbedInv, Read, Active
<1>2. /\ ExchangeInv /\ InStepInv /\ Advance(response) /\ packets = Parts(phase)
      /\ Correlated(response) /\ Acceptable(response) /\ response # None
      /\ phase \in Phases /\ partial = None /\ request = None
      /\ phase = "STATUS" => /\ response.state = state /\ response.next = next
                             /\ Fw!Active
                             /\ state # "ERASING" => ResumeValid(next)
  BY <1>1, ReadFinds
<1>3. response.op = phase /\ phase # "REBOOT" /\ ~End
  BY <1>1, <1>2 DEF Correlated, Advance, End
<1>4. /\ UNCHANGED <<state, hash, next, acked, link, session, lastRequestId, partial,
                     request>>
      /\ response' = None
  BY <1>3 DEF Read, firmware
<1>5. packets' = 0 /\ id' = id + 1 /\ file' = file /\ phase' \in Phases \ {"HELLO"}
  BY <1>2, <1>3 DEF Advance, GoOn, Phases
<1>6. /\ id \in Nat /\ next \in Nat /\ Length[file] \in Nat \ {0} /\ file \in Files
      /\ state = "READY" => next = 0
  <2>1. id \in Nat /\ next \in Nat
    BY FirmwareFacts DEF SuccessInv, PromiseInv, SysInv, OwnInv
  <2>2. file \in Files
    BY DEF SuccessInv, PromiseInv, SysInv, RunInv, Read
  <2> QED BY <2>1, <2>2, FirmwareConstants DEF SuccessInv, UpdateInv
<1>7. ExchangeInv'
  <2>1. lastRequestId' < id'
    BY <1>2, <1>4, <1>5, <1>6 DEF ExchangeInv
  <2>2. session' = hostSession'
    <3>1. phase = "HELLO" => hostSession' = response.session /\ session = response.session
      BY <1>2 DEF Advance, ExchangeInv
    <3>2. phase # "HELLO" => hostSession' = hostSession /\ session = hostSession
      BY <1>2, <1>3 DEF Advance, ExchangeInv
    <3> QED BY <1>4, <3>1, <3>2
  <2>3. link' = "up"
    BY <1>2, <1>4 DEF ExchangeInv
  <2>4. Parts(phase)' # 0
    BY DEF Parts
  <2> QED BY <1>2, <1>4, <1>5, <2>1, <2>2, <2>3, <2>4 DEF ExchangeInv
<1>8. OwnUpdate => OwnUpdate'
  BY <1>4, <1>5 DEF OwnUpdate
<1>9. CASE phase = "HELLO"
  <2>1. phase' = "BEGIN" /\ (Fw!Active => OwnUpdate)
    BY <1>2, <1>9 DEF Advance, GoOn, InStepInv
  <2> QED BY <1>4, <1>7, <1>8, <2>1 DEF InStepInv, Fw!Active
<1>10. CASE phase = "BEGIN"
  <2>1. /\ Fw!Active => OwnUpdate
        /\ phase' = "BEGIN" \/ (phase' = "STATUS" /\ Fw!Active)
    BY <1>2, <1>10 DEF Advance, GoOn, InStepInv
  <2> QED BY <1>4, <1>7, <1>8, <2>1 DEF InStepInv, Fw!Active
<1>11. CASE phase = "STATUS"
  <2>1. OwnUpdate /\ Fw!Active
    BY <1>2, <1>11 DEF InStepInv
  <2>2. CASE state = "ERASING"
    <3>1. phase' = "STATUS"
      BY <1>2, <1>3, <1>11, <2>2 DEF Advance, GoOn
    <3> QED BY <1>4, <1>7, <1>8, <2>1, <3>1 DEF InStepInv, Fw!Active
  <2>3. CASE state # "ERASING"
    <3>1. /\ state \in {"READY", "RECEIVING"} /\ offset' = next
          /\ phase' = IF next = Length[file] THEN "FINISH" ELSE "WRITE"
      BY <1>2, <1>3, <1>11, <2>1, <2>3 DEF Advance, GoOn, Fw!Active
    <3> QED BY <1>4, <1>5, <1>6, <1>7, <1>8, <2>1, <3>1 DEF InStepInv
  <2> QED BY <2>2, <2>3
<1>12. CASE phase = "WRITE"
  <2>1. /\ OwnUpdate /\ state \in {"READY", "RECEIVING"} /\ next = offset + ChunkLength
    BY <1>2, <1>12 DEF InStepInv
  <2>2. /\ offset' = offset + ChunkLength
        /\ phase' = IF offset + ChunkLength = Length[file] THEN "FINISH" ELSE "WRITE"
    BY <1>2, <1>12 DEF Advance, GoOn, LastChunk
  <2> QED BY <1>4, <1>5, <1>6, <1>7, <1>8, <2>1, <2>2 DEF InStepInv
<1>13. CASE phase = "FINISH"
  <2>1. phase' = "REBOOT" /\ state = "COMPLETE"
    BY <1>2, <1>13 DEF Advance, GoOn, InStepInv
  <2> QED BY <1>4, <1>7, <2>1 DEF InStepInv
<1> QED BY <1>2, <1>3, <1>9, <1>10, <1>11, <1>12, <1>13 DEF Phases

LEMMA OtherInStep ==
  ASSUME SuccessInv,
         \/ Timeout \/ Stop \/ Confirm \/ Boot \/ Attach \/ Reconfigure \/ Unplug
         \/ UNCHANGED vars
  PROVE  UndisturbedInv'
<1>1. CASE Timeout \/ Stop \/ Attach
  BY <1>1 DEF Timeout, Stop, End, Attach, tool, UndisturbedInv, Active
<1>2. CASE Reconfigure \/ Unplug
  BY <1>2 DEF Reconfigure, Unplug, UndisturbedInv
<1>3. CASE Confirm \/ Boot \/ UNCHANGED vars
  <2>1. \/ undisturbed' = FALSE
        \/ /\ UNCHANGED <<state, hash, next, acked, undisturbed>>
           /\ UNCHANGED device
    BY <1>3 DEF Confirm, Fw!Confirmation, Fw!ConfirmStart, Fw!ConfirmDone,
       Fw!ConfirmFails, Fw!PowerOff, Boot, Fw!Boot, Fw!BootTest, Fw!BootReject,
       Fw!BootRevert, Fw!BootPlain, Fw!updateVars, vars, firmware
  <2>2. UNCHANGED <<run, phase, packets, file, id, hostSession, attempt, offset>>
    BY <1>3 DEF Confirm, Boot, vars, tool, progress
  <2>3. SUFFICES ASSUME UNCHANGED <<state, hash, next, acked, undisturbed>>,
                        UNCHANGED device, undisturbed, Active
                 PROVE  ExchangeInv' /\ InStepInv'
    BY <2>1, <2>2 DEF UndisturbedInv, Active
  <2>4. ExchangeInv /\ InStepInv
    BY <2>3 DEF SuccessInv, UndisturbedInv
  <2>5. Message' = Message /\ ChunkLength' = ChunkLength
    BY <2>2 DEF Message, ChunkLength
  <2>6. UNCHANGED <<link, session, lastRequestId, partial, request, response>>
    BY <2>3 DEF device
  <2>7. ExchangeInv'
    BY <2>2, <2>4, <2>5, <2>6 DEF ExchangeInv, Parts, Correlated, Acceptable
  <2>8. InStepInv'
    BY <2>2, <2>3, <2>4, <2>5, <2>6 DEF InStepInv, OwnUpdate, Fw!Active
  <2> QED BY <2>7, <2>8
<1> QED BY <1>1, <1>2, <1>3

LEMMA SuccessInvStep ==
  ASSUME SuccessInv, [Next]_vars
  PROVE  SuccessInv'
<1>1. PromiseInv'
  BY PromiseInvStep DEF SuccessInv
<1>2. UndisturbedInv'
  BY StartInStep, SendInStep, ServeInStep, ReadInStep, OtherInStep DEF Next, ToolStep
<1> QED BY <1>1, <1>2, UpdateKeeps, BlocksKeep, FreshKeeps DEF SuccessInv

LEMMA SuccessInvInitially ==
  ASSUME Init
  PROVE  SuccessInv
<1>1. PromiseInv
  BY PromiseInvInitially
<1>2. /\ link = "up" /\ session = 0 /\ lastRequestId = 0
      /\ partial = None /\ request = None /\ response = None
      /\ phase = "idle" /\ undisturbed = FALSE /\ state = "IDLE"
  BY DEF Init, Fw!Init
<1> QED BY <1>1, <1>2 DEF SuccessInv, FreshInv, Forgotten, Active, BlocksInv, BlockInv,
     UpdateInv, Fw!Active, UndisturbedInv

(* Such a run does not run into its deadline: the device takes its packets *)
(* and has its request until it has answered.                              *)
LEMMA NoTimeout ==
  ASSUME SuccessInv, undisturbed
  PROVE  ~Timeout
<1>1. SUFFICES ASSUME Active, NothingComes PROVE FALSE
  BY DEF Timeout
<1>2. ExchangeInv /\ packets \in Nat
  BY <1>1 DEF SuccessInv, UndisturbedInv, PromiseInv, SysInv, OwnInv
<1>3. CASE packets < Parts(phase)
  <2>1. ~OutArmed
    BY <1>1, <1>3 DEF NothingComes
  <2> QED BY <1>2, <1>3, <2>1 DEF ExchangeInv, OutArmed
<1>4. CASE ~(packets < Parts(phase))
  <2>1. packets = Parts(phase)
    BY <1>1, <1>2, <1>4 DEF SuccessInv, PromiseInv, SysInv, TypeOK, Parts
  <2>2. Message # None
    BY <1>1, MessageTypes, NoneAssumption DEF SuccessInv, PromiseInv, SysInv
  <2>3. response = None /\ (request = None \/ link # "up")
    BY <1>1, <1>4 DEF NothingComes
  <2> QED BY <1>2, <2>1, <2>2, <2>3 DEF ExchangeInv
<1> QED BY <1>3, <1>4

LEMMA UndisturbedReports ==
  ASSUME SuccessInv, [Next]_vars, undisturbed, Active, undisturbed', phase' = "idle"
  PROVE  promised' = file
<1>1. phase # "idle"
  BY DEF Active
<1>2. Read
  BY <1>1, NoTimeout DEF Next, ToolStep, Start, SendPacket, Stop, Serve, Confirm, Boot,
     Attach, Reconfigure, Unplug, tool, vars
<1>3. /\ Advance(response) /\ Correlated(response) /\ Acceptable(response)
      /\ phase = "STATUS" => /\ response.state = state /\ response.next = next
                             /\ Fw!Active
                             /\ state # "ERASING" => ResumeValid(next)
  BY <1>2, ReadFinds
<1>4. phase = "REBOOT"
  <2>1. phase # "STATUS"
    <3>1. SUFFICES ASSUME phase = "STATUS" PROVE FALSE
      OBVIOUS
    <3>2. \/ response.state \notin {"ERASING", "READY", "RECEIVING"}
          \/ response.state # "ERASING" /\ ~ResumeValid(response.next)
      BY <1>3, <3>1 DEF Advance, GoOn
    <3> QED BY <1>3, <3>1, <3>2 DEF Fw!Active
  <2> QED BY <1>3, <2>1 DEF Advance, GoOn
<1> QED BY <1>2, <1>3, <1>4 DEF Read

(* A run that finds the device configured anew, and that nobody disturbs,  *)
(* ends with the file's update reported: every request finds the device    *)
(* where the run believes it to be, what blocks are there are the file's   *)
(* and end where a block ends, and so the digest matches.                  *)
THEOREM UndisturbedRunSucceeds == Spec => UndisturbedSucceeds
<1>1. Init => SuccessInv
  BY SuccessInvInitially
<1>2. SuccessInv /\ [Next]_vars => SuccessInv'
  BY SuccessInvStep
<1>3. SuccessInv /\ [Next]_vars =>
        [undisturbed /\ Active /\ undisturbed' /\ phase' = "idle" => promised' = file]_vars
  BY UndisturbedReports
<1> QED BY <1>1, <1>2, <1>3, PTL DEF Spec, UndisturbedSucceeds
=============================================================================
