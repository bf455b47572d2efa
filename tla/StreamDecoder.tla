---------------------------- MODULE StreamDecoder ----------------------------
(***************************************************************************)
(* The decoder of a byte stream (xcan_v2_feed, and Decoder of the host     *)
(* tool): bytes come in pieces that know nothing of messages; a message is *)
(* returned as soon as it is complete, and the first error is final.       *)
(*                                                                         *)
(* A header is two bytes here, a mark and the length of the payload; what  *)
(* else the code asks of a header or of a payload is whether it is valid.  *)
(***************************************************************************)
EXTENDS Naturals, Sequences

CONSTANTS
  Mark,        \* first byte of a valid header
  Reserved,    \* a byte no valid payload contains
  MaxPayload,
  MaxBytes,    \* bound: length of the stream
  MaxPiece     \* bound: bytes handed over in one piece

ASSUME DecoderAssumption ==
  /\ MaxPayload \in Nat /\ MaxBytes \in Nat /\ MaxPiece \in Nat \ {0}
  /\ Mark \in Nat /\ Reserved \in Nat

HeaderLen == 2
Byte == 0 .. (MaxPayload + 1)

VARIABLES
  stream,   \* what the other side sends, cut off anywhere
  piece,    \* bytes of the present piece that are not consumed
  consumed, \* bytes consumed of all pieces
  bytes,    \* bytes of the message that is not complete (d->bytes, d->used)
  failed,
  messages, \* those returned
  verdict   \* of finish: "none", "clean", "truncated"

vars == <<stream, piece, consumed, bytes, failed, messages, verdict>>

Streams == UNION {[1 .. n -> Byte] : n \in 0 .. MaxBytes}

Init ==
  /\ stream \in Streams
  /\ piece = 0 /\ consumed = 0 /\ bytes = <<>>
  /\ failed = FALSE /\ messages = <<>> /\ verdict = "none"

(* header, and xcan_v2_decode of a whole message.                          *)
ValidHeader(b) == b[1] = Mark /\ b[2] <= MaxPayload
ValidMessage(b) == ValidHeader(b) /\ \A k \in (HeaderLen + 1) .. Len(b) : b[k] # Reserved

(* A piece of the stream is handed over when the one before is consumed.   *)
Hand(n) ==
  /\ verdict = "none" /\ ~failed /\ piece = 0
  /\ n <= Len(stream) - consumed
  /\ piece' = n
  /\ UNCHANGED <<stream, consumed, bytes, failed, messages, verdict>>

(* Mutation of Target: the length is asked one byte late.                  *)
TargetLate == IF Len(bytes) > HeaderLen THEN HeaderLen + bytes[2] ELSE HeaderLen

(* How long the message is, as far as known.                               *)
Target == IF Len(bytes) >= HeaderLen THEN HeaderLen + bytes[2] ELSE HeaderLen

(* Mutation of Take: whatever there is.                                    *)
TakeAll == piece

Take == IF Target - Len(bytes) < piece THEN Target - Len(bytes) ELSE piece

HeaderRead(b) == Len(b) >= HeaderLen
AllRead(b) == HeaderRead(b) /\ Len(b) = HeaderLen + b[2]

(* Mutation of Bad: the payload is not looked at.                          *)
BadHeader(b) == HeaderRead(b) /\ ~ValidHeader(b)

Bad(b) == HeaderRead(b) /\ (~ValidHeader(b) \/ (AllRead(b) /\ ~ValidMessage(b)))

Judge(b) ==
  /\ failed' = Bad(b)
  /\ messages' = IF AllRead(b) /\ ~Bad(b) THEN Append(messages, b) ELSE messages
  /\ bytes' = IF AllRead(b) /\ ~Bad(b) THEN <<>> ELSE b

(* One turn of xcan_v2_feed's loop.  After a message the function returns, *)
(* and the caller hands over the rest again.                               *)
Feed ==
  /\ verdict = "none" /\ ~failed /\ piece > 0
  /\ consumed' = consumed + Take /\ piece' = piece - Take
  /\ Judge(bytes \o SubSeq(stream, consumed + 1, consumed + Take))
  /\ UNCHANGED <<stream, verdict>>

Complete == bytes = <<>>

(* xcan_v2_finish, at the end of the stream.                               *)
Finish ==
  /\ verdict = "none"
  /\ failed \/ (piece = 0 /\ consumed = Len(stream))
  /\ failed' = (failed \/ ~Complete)
  /\ verdict' = IF failed' THEN "truncated" ELSE "clean"
  /\ UNCHANGED <<stream, piece, consumed, bytes, messages>>

Done == verdict # "none" /\ UNCHANGED vars

Next == (\E n \in 1 .. MaxPiece : Hand(n)) \/ Feed \/ Finish \/ Done

Spec == Init /\ [][Next]_vars

FairSpec == Spec /\ WF_vars(Next)

----------------------------------------------------------------------------
(* Reference: the messages in a stream, with no decoder.                   *)

Slice(from, to) == SubSeq(stream, from + 1, to)

HeaderWithin(p, upTo) == p + HeaderLen <= upTo

(* The message that begins at each position ends where its header says.    *)
Ends(p) == p + HeaderLen + stream[p + 2]

(* Of the bytes up to some position, what follows p cannot be a message.   *)
Broken(p, upTo) ==
  /\ HeaderWithin(p, upTo)
  /\ \/ ~ValidHeader(Slice(p, p + HeaderLen))
     \/ Ends(p) <= upTo /\ ~ValidMessage(Slice(p, Ends(p)))

(* It may become one, or is one and ends later.                            *)
Partial(p, upTo) == HeaderWithin(p, upTo) /\ ~Broken(p, upTo) => upTo < Ends(p)

(* These messages lie one behind the other between these boundaries.       *)
Boundaries(cuts) ==
  /\ cuts[1] = 0
  /\ \A k \in 1 .. Len(messages) :
       /\ HeaderWithin(cuts[k], cuts[k + 1]) /\ cuts[k + 1] = Ends(cuts[k])
       /\ messages[k] = Slice(cuts[k], cuts[k + 1]) /\ ValidMessage(messages[k])

----------------------------------------------------------------------------
(* Properties.                                                             *)

(* Every variable keeps its type; the message never outgrows its buffer,   *)
(* whatever length a header claims (protocol_v2.c:180).                    *)
TypeOK ==
  /\ stream \in Streams
  /\ piece \in 0 .. MaxPiece /\ consumed \in 0 .. MaxBytes
  /\ bytes \in Seq(Byte) /\ Len(bytes) <= HeaderLen + MaxPayload
  /\ failed \in BOOLEAN
  /\ verdict \in {"none", "clean", "truncated"}

(* However the stream is cut into pieces, the decoder has returned the     *)
(* messages of what it consumed, holds the rest, and has failed exactly    *)
(* when there is no way to go on; its end is clean exactly when the stream *)
(* is a sequence of whole, valid messages (protocol_v2.c:175, 195,         *)
(* protocol_v2.rs:247).                                                    *)
CutIndependent ==
  \E cuts \in [1 .. (Len(messages) + 1) -> 0 .. consumed] :
    LET rest == cuts[Len(messages) + 1]
    IN /\ Boundaries(cuts)
       /\ bytes = Slice(rest, consumed) /\ Partial(rest, consumed)
       /\ verdict = "none" => failed = Broken(rest, consumed)
       /\ verdict = "clean" => ~Broken(rest, consumed) /\ rest = Len(stream)
       /\ verdict = "truncated" => Broken(rest, consumed) \/ rest < Len(stream)

(* The loop ends on every input (protocol_v2.c:175).                       *)
Terminates == <>(verdict # "none")
=============================================================================
