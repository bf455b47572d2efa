----------------------------- MODULE MCXcanUsb -----------------------------
(* Small hosts for XcanUsb.  A cell stands for several bytes: a version is *)
(* readable after 1 cell, a header after 3, a packet holds 4 and the       *)
(* request buffer 7.  Sessions wrap at 3, so the ids are 1, 2, 1, ...      *)
EXTENDS XcanUsb

MCSessionMod == 3
MCPacketSize == 4

V2(op, id, sess, len) ==
  [version |-> 2, length |-> len, valid |-> TRUE, op |-> op, id |-> id, session |-> sess]

V1 == [version |-> 1, length |-> 4, valid |-> TRUE, op |-> "V1", id |-> 0, session |-> 0]

Hello == V2("HELLO", 1, 0, 3)

Slice(m, first, last) == [i \in 1 .. (last - first + 1) |-> Wire(m)[first + i - 1]]

Minimum(a, b) == IF a < b THEN a ELSE b

(* Whole messages cut at the packet size, as the host tool cuts them.      *)
Cuts(m) ==
  { Slice(m, f, Minimum(f + MCPacketSize - 1, m.length)) :
      f \in {n \in 1 .. m.length : n % MCPacketSize = 1} }

(* Framing: a v1 record, a two-packet command, a message cut inside and at *)
(* the end of its header, an empty packet, a message the decoder refuses,  *)
(* one longer than the buffer, one of an unknown version, an event.        *)
TwoPackets == V2("FW_BEGIN", 2, 1, 6)
Undecodable == [V2("OTHER", 1, 0, 3) EXCEPT !.valid = FALSE]
TooLong == V2("OTHER", 1, 0, 9)
UnknownVersion == [V1 EXCEPT !.version = 3]
Event == V2("EVENT", 0, 1, 3)

FramingMessages == {V1, Hello, TwoPackets, Undecodable, TooLong, UnknownVersion, Event}
FramingPackets ==
  UNION { Cuts(m) : m \in FramingMessages }
    \cup { <<>>, Slice(TwoPackets, 1, 2), Slice(TwoPackets, 3, 6) }

(* Commands: an update from begin to reboot, an old id, a stale session.   *)
CommandMessages ==
  { Hello, V2("FW_BEGIN", 2, 1, 6), V2("FW_FINISH", 2, 1, 3),
    V2("FW_REBOOT", 3, 1, 3), V2("FW_BEGIN", 4, 1, 3), V2("FW_REBOOT", 2, 2, 3) }
CommandPackets == UNION { Cuts(m) : m \in CommandMessages }

(* Both: the update of two packets above, finished, rebooted, and a stale  *)
(* session.                                                                *)
LaterCommands == {m \in CommandMessages : m.op \in {"FW_FINISH", "FW_REBOOT"}}
AllMessages == FramingMessages \cup LaterCommands
AllPackets == FramingPackets \cup UNION { Cuts(m) : m \in LaterCommands }
=============================================================================
