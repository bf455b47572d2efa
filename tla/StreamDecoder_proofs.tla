------------------------ MODULE StreamDecoder_proofs ------------------------
(***************************************************************************)
(* Theorems about the stream decoder of StreamDecoder.tla, for streams and *)
(* payloads of every length and every way to cut a stream into pieces.     *)
(***************************************************************************)
EXTENDS StreamDecoder, SequenceTheorems, TLAPS

(* While the decoder has not failed, it waits for at least one byte: of    *)
(* the header, or of a payload whose length it has accepted.               *)
WaitsInv ==
  /\ stream \in Streams /\ failed \in BOOLEAN
  /\ verdict \in {"none", "clean", "truncated"}
  /\ piece \in 0 .. MaxPiece /\ consumed \in Nat /\ consumed + piece <= Len(stream)
  /\ bytes \in Seq(Byte) /\ Len(bytes) <= HeaderLen + MaxPayload
  /\ ~failed => \/ Len(bytes) < HeaderLen
                \/ ValidHeader(bytes) /\ Len(bytes) < HeaderLen + bytes[2]

(* A stream is a sequence of bytes, not longer than the bound.             *)
LEMMA StreamIsBytes ==
  ASSUME NEW s \in Streams
  PROVE  s \in Seq(Byte) /\ Len(s) \in Nat /\ Len(s) <= MaxBytes
<1>1. PICK n \in 0 .. MaxBytes : s \in [1 .. n -> Byte]
  BY DEF Streams
<1>2. n \in Nat /\ n <= MaxBytes
  BY DecoderAssumption
<1>3. s \in Seq(Byte) /\ Len(s) = n
  BY <1>1, <1>2
<1> QED BY <1>2, <1>3

(* An accepted header asks for no more than the buffer holds.              *)
LEMMA TargetResult ==
  ASSUME WaitsInv, ~failed
  PROVE  /\ Target \in Nat /\ Len(bytes) < Target /\ Target <= HeaderLen + MaxPayload
         /\ Len(bytes) \in Nat
         /\ Len(bytes) < HeaderLen => Target = HeaderLen
         /\ Len(bytes) >= HeaderLen => ValidHeader(bytes) /\ Target = HeaderLen + bytes[2]
<1>1. Len(bytes) \in Nat /\ MaxPayload \in Nat /\ HeaderLen = 2
  BY LenProperties, DecoderAssumption DEF WaitsInv, HeaderLen
<1>2. CASE Len(bytes) < HeaderLen
  BY <1>1, <1>2 DEF Target
<1>3. CASE Len(bytes) >= HeaderLen
  <2>1. bytes[2] \in Byte
    BY <1>1, <1>3, ElementOfSeq DEF WaitsInv
  <2>2. bytes[2] \in Nat /\ bytes[2] <= MaxPayload
    BY <1>1, <1>3, <2>1 DEF WaitsInv, ValidHeader, Byte
  <2> QED BY <1>1, <1>3, <2>2 DEF Target, WaitsInv
<1> QED BY <1>1, <1>2, <1>3

(* A turn takes at least one byte of the piece, and not more than the      *)
(* message lacks.                                                          *)
LEMMA FeedTakes ==
  ASSUME WaitsInv, Feed
  PROVE  LET b == bytes \o SubSeq(stream, consumed + 1, consumed + Take)
         IN /\ Take \in 1 .. piece /\ b \in Seq(Byte)
            /\ Len(b) = Len(bytes) + Take /\ Len(b) <= Target
            /\ \A k \in 1 .. Len(bytes) : b[k] = bytes[k]
<1> DEFINE taken == SubSeq(stream, consumed + 1, consumed + Take)
           b == bytes \o taken
<1>1. /\ ~failed /\ piece \in Nat /\ piece > 0 /\ consumed \in Nat
      /\ consumed + piece <= Len(stream)
      /\ stream \in Seq(Byte) /\ Len(stream) \in Nat /\ bytes \in Seq(Byte)
  BY StreamIsBytes, DecoderAssumption DEF Feed, WaitsInv
<1>2. Target \in Nat /\ Len(bytes) \in Nat /\ Len(bytes) < Target
  BY <1>1, TargetResult
<1>3. Take \in 1 .. piece /\ Len(bytes) + Take <= Target
  BY <1>1, <1>2 DEF Take
<1>4. taken \in Seq(Byte) /\ Len(taken) = Take
  <2> DEFINE m == consumed + 1
             n == consumed + Take
  <2>1. m \in Int /\ n \in Int /\ m <= n /\ n - m + 1 = Take /\ 1 <= m /\ n <= Len(stream)
    BY <1>1, <1>3
  <2>2. \A k \in m .. n : stream[k] \in Byte
    BY <1>1, <2>1, ElementOfSeq
  <2> HIDE DEF m, n
  <2>3. SubSeq(stream, m, n) \in Seq(Byte) /\ Len(SubSeq(stream, m, n)) = n - m + 1
    BY <2>1, <2>2, SubSeqProperties
  <2> QED BY <2>1, <2>3 DEF m, n
<1> HIDE DEF taken
<1>5. /\ b \in Seq(Byte) /\ Len(b) = Len(bytes) + Len(taken)
      /\ \A k \in 1 .. (Len(bytes) + Len(taken)) :
           b[k] = IF k <= Len(bytes) THEN bytes[k] ELSE taken[k - Len(bytes)]
  BY <1>1, <1>4, ConcatProperties
<1>6. \A k \in 1 .. Len(bytes) : b[k] = bytes[k]
  BY <1>2, <1>3, <1>4, <1>5
<1>7. Len(b) = Len(bytes) + Take /\ Len(b) <= Target
  BY <1>3, <1>4, <1>5
<1> QED BY <1>3, <1>5, <1>6, <1>7 DEF taken

(* What a turn leaves behind waits for a byte again, or the decoder has    *)
(* failed.                                                                 *)
LEMMA FeedStep ==
  ASSUME WaitsInv, Feed
  PROVE  WaitsInv'
<1> DEFINE b == bytes \o SubSeq(stream, consumed + 1, consumed + Take)
<1>1. /\ Take \in 1 .. piece /\ b \in Seq(Byte)
      /\ Len(b) = Len(bytes) + Take /\ Len(b) <= Target
      /\ \A k \in 1 .. Len(bytes) : b[k] = bytes[k]
  BY FeedTakes
<1>2. /\ Judge(b) /\ consumed' = consumed + Take /\ piece' = piece - Take
      /\ UNCHANGED <<stream, verdict>> /\ ~failed
  BY DEF Feed
<1> HIDE DEF b
<1>3. /\ Target \in Nat /\ Len(bytes) < Target /\ Target <= HeaderLen + MaxPayload
      /\ Len(bytes) \in Nat
      /\ Len(bytes) < HeaderLen => Target = HeaderLen
      /\ Len(bytes) >= HeaderLen => ValidHeader(bytes) /\ Target = HeaderLen + bytes[2]
  BY <1>2, TargetResult
<1>4. HeaderLen = 2 /\ MaxPayload \in Nat /\ Len(b) \in Nat
  BY <1>1, LenProperties, DecoderAssumption DEF HeaderLen
<1>5. /\ stream' \in Streams /\ verdict' \in {"none", "clean", "truncated"}
      /\ piece' \in 0 .. MaxPiece /\ consumed' \in Nat
      /\ consumed' + piece' <= Len(stream')
  <2>1. /\ piece \in Nat /\ piece <= MaxPiece /\ consumed \in Nat /\ MaxPiece \in Nat
        /\ consumed + piece <= Len(stream)
    BY DecoderAssumption DEF WaitsInv
  <2>2. consumed' + piece' = consumed + piece
    BY <1>1, <1>2, <2>1
  <2> QED BY <1>1, <1>2, <2>1, <2>2 DEF WaitsInv
<1>6. failed' \in BOOLEAN /\ (failed' <=> Bad(b))
  BY <1>2 DEF Judge, Bad
<1>7. bytes' \in {b, <<>>}
  BY <1>2 DEF Judge
<1>8. bytes' \in Seq(Byte) /\ Len(bytes') <= HeaderLen + MaxPayload
  <2>1. CASE bytes' = b
    BY <1>1, <1>3, <1>4, <2>1
  <2>2. CASE bytes' = <<>>
    <3>1. bytes' \in Seq(Byte) /\ Len(bytes') = 0
      BY <2>2, EmptySeq
    <3> QED BY <1>4, <3>1
  <2> QED BY <1>7, <2>1, <2>2
<1>9. ASSUME ~Bad(b)
      PROVE  \/ Len(bytes') < HeaderLen
             \/ ValidHeader(bytes') /\ Len(bytes') < HeaderLen + bytes'[2]
  <2>1. CASE AllRead(b)
    <3>1. bytes' = <<>>
      BY <1>2, <1>9, <2>1 DEF Judge
    <3>2. Len(bytes') = 0
      BY <3>1, EmptySeq
    <3> QED BY <1>4, <3>2
  <2>2. CASE ~AllRead(b) /\ Len(b) < HeaderLen
    BY <1>2, <2>2 DEF Judge
  <2>3. CASE ~AllRead(b) /\ Len(b) >= HeaderLen
    <3>1. bytes' = b
      BY <1>2, <2>3 DEF Judge
    <3>2. ValidHeader(b) /\ Len(b) # HeaderLen + b[2]
      BY <1>9, <2>3 DEF Bad, AllRead, HeaderRead
    <3>3. b[2] \in Nat
      <4>1. b[2] \in Byte
        BY <1>1, <1>4, <2>3, ElementOfSeq
      <4> QED BY <1>4, <4>1 DEF Byte
    <3>4. Len(b) <= HeaderLen + b[2]
      <4>1. CASE Len(bytes) < HeaderLen
        BY <1>1, <1>3, <1>4, <3>3, <4>1
      <4>2. CASE Len(bytes) >= HeaderLen
        <5>1. b[2] = bytes[2]
          BY <1>1, <1>3, <1>4, <4>2
        <5> QED BY <1>1, <1>3, <4>2, <5>1
      <4> QED BY <1>3, <1>4, <4>1, <4>2
    <3> QED BY <1>4, <3>1, <3>2, <3>3, <3>4
  <2> QED BY <1>4, <2>1, <2>2, <2>3
<1> QED BY <1>5, <1>6, <1>8, <1>9 DEF WaitsInv

(* The caller's steps leave the message alone.                             *)
LEMMA WaitsStep ==
  ASSUME WaitsInv, [Next]_vars
  PROVE  WaitsInv'
<1>1. ASSUME NEW n \in 1 .. MaxPiece, Hand(n) PROVE WaitsInv'
  <2>1. /\ piece' = n /\ n <= Len(stream) - consumed
        /\ UNCHANGED <<stream, consumed, bytes, failed, messages, verdict>>
    BY <1>1 DEF Hand
  <2>2. Len(stream) \in Nat /\ MaxPiece \in Nat
    BY StreamIsBytes, DecoderAssumption DEF WaitsInv
  <2>3. piece' \in 0 .. MaxPiece /\ consumed' + piece' <= Len(stream')
    BY <2>1, <2>2 DEF WaitsInv
  <2> QED BY <2>1, <2>3 DEF WaitsInv
<1>2. CASE Finish
  <2>1. /\ UNCHANGED <<stream, piece, consumed, bytes>>
        /\ failed' \in BOOLEAN /\ (failed => failed')
        /\ verdict' \in {"none", "clean", "truncated"}
    BY <1>2 DEF Finish
  <2> QED BY <2>1 DEF WaitsInv
<1>3. CASE UNCHANGED vars
  BY <1>3 DEF vars, WaitsInv
<1> QED BY <1>1, <1>2, <1>3, FeedStep DEF Next, Done

(* Nothing is read yet.                                                    *)
LEMMA WaitsInitially == ASSUME Init PROVE WaitsInv
<1>1. bytes = <<>> /\ bytes \in Seq(Byte) /\ Len(bytes) = 0
  BY EmptySeq DEF Init
<1>2. Len(stream) \in Nat
  BY StreamIsBytes DEF Init
<1>3. /\ stream \in Streams /\ piece = 0 /\ consumed = 0 /\ failed = FALSE
      /\ verdict = "none"
  BY DEF Init
<1>4. MaxPiece \in Nat /\ MaxPayload \in Nat /\ HeaderLen = 2
  BY DecoderAssumption DEF HeaderLen
<1>5. piece \in 0 .. MaxPiece /\ consumed \in Nat /\ consumed + piece <= Len(stream)
  BY <1>2, <1>3, <1>4
<1>6. Len(bytes) < HeaderLen /\ Len(bytes) <= HeaderLen + MaxPayload
  BY <1>1, <1>4
<1> QED BY <1>1, <1>3, <1>5, <1>6 DEF WaitsInv

(* The message in the decoder never outgrows its buffer, whatever length a *)
(* header claims and however the stream is cut: the header is judged       *)
(* before a byte of its payload is taken.                                  *)
THEOREM DecoderStaysInBuffer == Spec => []TypeOK
<1>1. Init => WaitsInv
  BY WaitsInitially
<1>2. WaitsInv /\ [Next]_vars => WaitsInv'
  BY WaitsStep
<1>3. ASSUME WaitsInv PROVE TypeOK
  <2>1. Len(stream) \in Nat /\ Len(stream) <= MaxBytes /\ MaxBytes \in Nat
    BY <1>3, StreamIsBytes, DecoderAssumption DEF WaitsInv
  <2>2. consumed \in 0 .. MaxBytes
    BY <1>3, <2>1, DecoderAssumption DEF WaitsInv
  <2> QED BY <1>3, <2>2 DEF WaitsInv, TypeOK
<1> QED BY <1>1, <1>2, <1>3, PTL DEF Spec

----------------------------------------------------------------------------
(* However the stream is cut: the decoder against the reference.           *)

(* A slice of the stream, byte by byte.                                    *)
LEMMA SliceResult ==
  ASSUME stream \in Seq(Byte), NEW p \in 0 .. Len(stream), NEW q \in p .. Len(stream)
  PROVE  /\ Slice(p, q) \in Seq(Byte) /\ Len(Slice(p, q)) = q - p
         /\ \A k \in 1 .. (q - p) : Slice(p, q)[k] = stream[p + k]
<1>1. /\ Len(stream) \in Nat /\ p \in Int /\ p + 1 \in Int /\ q \in Int
      /\ 1 <= p + 1 /\ p <= q /\ q <= Len(stream)
  BY LenProperties
<1>2. \A k \in (p + 1) .. q : stream[k] \in Byte
  BY <1>1, ElementOfSeq
<1>3. /\ Slice(p, q) \in Seq(Byte)
      /\ Len(Slice(p, q)) = IF p + 1 <= q THEN q - (p + 1) + 1 ELSE 0
      /\ \A k \in 1 .. (q - (p + 1) + 1) : Slice(p, q)[k] = stream[(p + 1) + k - 1]
  BY <1>1, <1>2, SubSeqProperties DEF Slice
<1>4. q - (p + 1) + 1 = q - p /\ Len(Slice(p, q)) = q - p
  BY <1>1, <1>3
<1>5. \A k \in 1 .. (q - p) : (p + 1) + k - 1 = p + k
  BY <1>1
<1> QED BY <1>3, <1>4, <1>5

(* The decoder judges the bytes since a boundary as the reference does, as *)
(* long as they are not more than one message.                             *)
LEMMA JudgeResult ==
  ASSUME stream \in Seq(Byte), NEW p \in 0 .. Len(stream), NEW q \in p .. Len(stream),
         HeaderWithin(p, q) /\ ValidHeader(Slice(p, q)) => q <= Ends(p)
  PROVE  /\ AllRead(Slice(p, q)) <=> HeaderWithin(p, q) /\ q = Ends(p)
         /\ Bad(Slice(p, q)) <=> Broken(p, q)
<1> DEFINE b == Slice(p, q)
<1>1. /\ b \in Seq(Byte) /\ Len(b) = q - p
      /\ \A k \in 1 .. (q - p) : b[k] = stream[p + k]
  BY SliceResult
<1>2. HeaderLen = 2 /\ Len(stream) \in Nat /\ p \in Nat /\ q \in Nat /\ q <= Len(stream)
  BY LenProperties DEF HeaderLen
<1>3. HeaderRead(b) <=> HeaderWithin(p, q)
  <2> HIDE DEF b
  <2> QED BY <1>1, <1>2 DEF HeaderRead, HeaderWithin
<1>4. CASE ~HeaderWithin(p, q)
  BY <1>3, <1>4 DEF AllRead, Bad, Broken
<1>5. CASE HeaderWithin(p, q)
  <2> DEFINE h == Slice(p, p + HeaderLen)
  <2>1. p + HeaderLen \in p .. Len(stream) /\ 2 <= q - p
    BY <1>2, <1>5 DEF HeaderWithin
  <2>2. h[1] = stream[p + 1] /\ h[2] = stream[p + 2]
    <3>1. \A k \in 1 .. ((p + HeaderLen) - p) : h[k] = stream[p + k]
      BY <2>1, SliceResult
    <3>2. 1 \in 1 .. ((p + HeaderLen) - p) /\ 2 \in 1 .. ((p + HeaderLen) - p)
      BY <1>2
    <3> QED BY <3>1, <3>2
  <2>3. b[1] = stream[p + 1] /\ b[2] = stream[p + 2] /\ stream[p + 2] \in Nat
    <3>1. b[1] = stream[p + 1] /\ b[2] = stream[p + 2]
      BY <1>1, <1>2, <2>1
    <3>2. stream[p + 2] \in Byte
      BY <1>2, <2>1, ElementOfSeq
    <3> QED BY <3>1, <3>2, DecoderAssumption DEF Byte
  <2>4. ValidHeader(b) <=> ValidHeader(h)
    BY <2>2, <2>3 DEF ValidHeader
  <2>5. AllRead(b) <=> q = Ends(p)
    <3>1. Len(b) = HeaderLen + b[2] <=> q = p + HeaderLen + stream[p + 2]
      <4>1. Len(b) = q - p
        BY <1>1
      <4>2. b[2] = stream[p + 2]
        BY <2>3
      <4> DEFINE d == stream[p + 2]
      <4>3. d \in Nat
        BY <2>3
      <4> HIDE DEF b, d
      <4>4. Len(b) = 2 + d <=> q = p + 2 + d
        BY <1>2, <4>1, <4>3
      <4> QED BY <1>2, <4>2, <4>4 DEF d
    <3> QED BY <1>3, <1>5, <3>1 DEF AllRead, Ends
  <2>6. CASE ~ValidHeader(b)
    BY <1>3, <1>5, <2>4, <2>5, <2>6 DEF Bad, Broken
  <2>7. CASE ValidHeader(b)
    <3>1. Ends(p) <= q <=> q = Ends(p)
      BY <1>2, <1>5, <2>3, <2>7 DEF Ends
    <3> QED BY <1>3, <1>5, <2>4, <2>5, <2>7, <3>1 DEF Bad, Broken
  <2> QED BY <1>5, <2>5, <2>6, <2>7
<1> QED BY <1>4, <1>5

(* A turn takes the stream up to the end of a message, at most.            *)
LEMMA FeedTakesSlice ==
  ASSUME WaitsInv, Feed, NEW p \in 0 .. consumed, bytes = Slice(p, consumed)
  PROVE  LET b == bytes \o SubSeq(stream, consumed + 1, consumed + Take)
         IN /\ consumed' \in p .. Len(stream) /\ consumed <= consumed'
            /\ stream \in Seq(Byte) /\ Len(stream) \in Nat /\ consumed \in Nat
            /\ b = Slice(p, consumed') /\ Judge(b)
            /\ AllRead(b) <=> HeaderWithin(p, consumed') /\ consumed' = Ends(p)
            /\ Bad(b) <=> Broken(p, consumed')
            /\ HeaderWithin(p, consumed') /\ ValidHeader(b) => consumed' <= Ends(p)
<1> DEFINE b == bytes \o SubSeq(stream, consumed + 1, consumed + Take)
<1>1. /\ Take \in 1 .. piece /\ b \in Seq(Byte)
      /\ Len(b) = Len(bytes) + Take /\ Len(b) <= Target
  BY FeedTakes
<1>2. /\ stream \in Seq(Byte) /\ Len(stream) \in Nat /\ consumed \in Nat /\ piece \in Nat
      /\ consumed + piece <= Len(stream) /\ ~failed
      /\ consumed' = consumed + Take /\ Judge(b)
  BY StreamIsBytes, DecoderAssumption DEF WaitsInv, Feed
<1>3. /\ consumed' \in p .. Len(stream) /\ consumed <= consumed'
      /\ consumed' \in consumed .. Len(stream)
  BY <1>1, <1>2
<1>4. b = Slice(p, consumed')
  <2>1. p + 1 \in 1 .. (Len(stream) + 1) /\ consumed \in (p + 1) - 1 .. Len(stream)
    BY <1>2, <1>3
  <2>2. SubSeq(stream, p + 1, consumed) \o SubSeq(stream, consumed + 1, consumed')
          = SubSeq(stream, p + 1, consumed')
    BY <1>2, <1>3, <2>1, ConcatAdjacentSubSeq
  <2> QED BY <1>2, <2>2 DEF Slice
<1>5. p \in 0 .. Len(stream)
  BY <1>2, <1>3
<1>6. HeaderWithin(p, consumed') /\ ValidHeader(b) => consumed' <= Ends(p)
  <2> SUFFICES ASSUME HeaderWithin(p, consumed') PROVE consumed' <= Ends(p)
    OBVIOUS
  <2>1. Len(b) = consumed' - p
    BY <1>3, <1>4, <1>2, <1>5, SliceResult
  <2>2. HeaderLen = 2 /\ p \in Nat /\ p + 2 <= consumed'
    BY DEF HeaderLen, HeaderWithin
  <2>3. stream[p + 2] \in Nat
    <3>1. stream[p + 2] \in Byte
      BY <1>2, <1>3, <2>2, ElementOfSeq
    <3> QED BY <3>1, DecoderAssumption DEF Byte
  <2>4. /\ Target \in Nat /\ Len(bytes) \in Nat
        /\ Len(bytes) < HeaderLen => Target = HeaderLen
        /\ Len(bytes) >= HeaderLen => Target = HeaderLen + bytes[2]
    BY <1>2, TargetResult
  <2>5. Target <= HeaderLen + stream[p + 2]
    <3>1. CASE Len(bytes) < HeaderLen
      BY <2>2, <2>3, <2>4, <3>1
    <3>2. CASE Len(bytes) >= HeaderLen
      <4>1. consumed \in p .. Len(stream)
        BY <1>2, <1>3
      <4>2. /\ Len(bytes) = consumed - p
            /\ \A k \in 1 .. (consumed - p) : bytes[k] = stream[p + k]
        BY <1>2, <1>5, <4>1, SliceResult
      <4>3. 2 \in 1 .. (consumed - p)
        BY <1>2, <2>2, <3>2, <4>2
      <4>4. bytes[2] = stream[p + 2]
        BY <4>2, <4>3
      <4> QED BY <2>2, <2>3, <2>4, <3>2, <4>4
    <3> QED BY <2>2, <2>4, <3>1, <3>2
  <2> HIDE DEF b
  <2> QED BY <1>1, <1>2, <1>3, <2>1, <2>2, <2>3, <2>4, <2>5 DEF Ends
<1>7. /\ AllRead(b) <=> HeaderWithin(p, consumed') /\ consumed' = Ends(p)
      /\ Bad(b) <=> Broken(p, consumed')
  BY <1>2, <1>3, <1>4, <1>5, <1>6, JudgeResult
<1> QED BY <1>2, <1>3, <1>4, <1>6, <1>7

(* The decoder against the reference, for one choice of the boundaries.    *)
Agrees(cuts) ==
  LET rest == cuts[Len(messages) + 1]
  IN /\ Boundaries(cuts)
     /\ bytes = Slice(rest, consumed) /\ Partial(rest, consumed)
     /\ verdict = "none" => failed = Broken(rest, consumed)
     /\ verdict = "clean" => ~Broken(rest, consumed) /\ rest = Len(stream)
     /\ verdict = "truncated" => Broken(rest, consumed) \/ rest < Len(stream)

AgreesInv ==
  /\ WaitsInv /\ messages \in Seq(Seq(Byte))
  /\ \E cuts \in [1 .. (Len(messages) + 1) -> 0 .. consumed] : Agrees(cuts)

(* A turn that completes a message adds a boundary; any other turn moves   *)
(* none.                                                                   *)
LEMMA FeedAgrees ==
  ASSUME AgreesInv, Feed
  PROVE  AgreesInv'
<1> DEFINE b == bytes \o SubSeq(stream, consumed + 1, consumed + Take)
           n == Len(messages)
<1>1. PICK cuts \in [1 .. (n + 1) -> 0 .. consumed] : Agrees(cuts)
  BY DEF AgreesInv
<1>2. n \in Nat /\ messages \in Seq(Seq(Byte)) /\ WaitsInv
  BY LenProperties DEF AgreesInv
<1>3. PICK p \in 0 .. consumed : p = cuts[n + 1]
  BY <1>1, <1>2
<1>4. /\ Boundaries(cuts) /\ bytes = Slice(p, consumed)
  BY <1>1, <1>3 DEF Agrees
<1>5. ~failed /\ verdict = "none" /\ stream' = stream /\ verdict' = verdict
  BY DEF Feed
<1>6. /\ consumed' \in p .. Len(stream) /\ consumed <= consumed'
      /\ stream \in Seq(Byte) /\ Len(stream) \in Nat /\ consumed \in Nat
      /\ b = Slice(p, consumed') /\ Judge(b)
      /\ AllRead(b) <=> HeaderWithin(p, consumed') /\ consumed' = Ends(p)
      /\ Bad(b) <=> Broken(p, consumed')
      /\ HeaderWithin(p, consumed') /\ ValidHeader(b) => consumed' <= Ends(p)
  BY <1>2, <1>3, <1>4, FeedTakesSlice
<1>7. WaitsInv'
  BY <1>2, FeedStep
<1>8. b \in Seq(Byte) /\ p \in Nat
  BY <1>2, <1>3, <1>6, FeedTakes
<1>9. PICK m \in Nat : m = consumed'
  BY <1>3, <1>6
<1>10. PICK j \in Nat : j = Len(messages)
  BY <1>2
<1>11. /\ p = cuts[j + 1] /\ cuts \in [1 .. (j + 1) -> 0 .. m]
       /\ m \in p .. Len(stream) /\ b = Slice(p, m)
       /\ AllRead(b) <=> HeaderWithin(p, m) /\ m = Ends(p)
       /\ Bad(b) <=> Broken(p, m)
       /\ HeaderWithin(p, m) /\ ValidHeader(b) => m <= Ends(p)
  <2>1. consumed <= m /\ consumed \in Nat
    BY <1>6, <1>9
  <2>2. cuts \in [1 .. (j + 1) -> 0 .. m]
    BY <1>1, <1>10, <2>1
  <2> HIDE DEF b
  <2> QED BY <1>3, <1>6, <1>9, <1>10, <2>2
<1> HIDE DEF b
(* The reference reads of the state only the stream.                       *)
<1>12. /\ Slice(p, m) = Slice(p, m)' /\ Slice(m, m) = Slice(m, m)'
       /\ Partial(p, m) <=> Partial(p, m)'
       /\ Broken(p, m) <=> Broken(p, m)'
       /\ Broken(m, m) <=> Broken(m, m)'
  BY <1>5 DEF Partial, Broken, HeaderWithin, Ends, Slice, ValidMessage, ValidHeader
<1>13. CASE AllRead(b) /\ ~Bad(b)
  <2>1. messages' = Append(messages, b) /\ bytes' = <<>> /\ (failed' <=> FALSE)
    BY <1>6, <1>13 DEF Judge, Bad
  <2>2. /\ messages' \in Seq(Seq(Byte)) /\ Len(messages') = j + 1
        /\ \A k \in 1 .. j : messages'[k] = messages[k]
        /\ messages'[j + 1] = b
    BY <1>2, <1>8, <1>10, <2>1, AppendProperties
  <2>3. PICK more \in [1 .. (j + 2) -> 0 .. m] :
          (\A k \in 1 .. (j + 1) : more[k] = cuts[k]) /\ more[j + 2] = m
    <3> DEFINE c == [k \in 1 .. (j + 2) |-> IF k <= j + 1 THEN cuts[k] ELSE m]
    <3>1. \A k \in 1 .. (j + 2) : k <= j + 1 => cuts[k] \in 0 .. m
      BY <1>11
    <3>2. c \in [1 .. (j + 2) -> 0 .. m]
      BY <3>1
    <3>3. (\A k \in 1 .. (j + 1) : c[k] = cuts[k]) /\ c[j + 2] = m
      OBVIOUS
    <3> QED BY <3>2, <3>3
  <2>4. more[1] = cuts[1] /\ more[j + 1] = p
    BY <1>11, <2>3
  <2>5. HeaderWithin(p, m) /\ m = Ends(p) /\ ~Broken(p, m)
    BY <1>11, <1>13
  <2>6. ValidMessage(b)
    BY <1>13 DEF Bad, AllRead
  <2>7. \A k \in 1 .. (j + 1) :
          /\ HeaderWithin(more[k], more[k + 1]) /\ more[k + 1] = Ends(more[k])
          /\ messages'[k] = Slice(more[k], more[k + 1]) /\ ValidMessage(messages'[k])
    <3> TAKE k \in 1 .. (j + 1)
    <3>1. CASE k \in 1 .. j
      <4>1. more[k] = cuts[k] /\ more[k + 1] = cuts[k + 1] /\ messages'[k] = messages[k]
        <5>1. k \in 1 .. (j + 1) /\ k + 1 \in 1 .. (j + 1)
          BY <3>1
        <5> QED BY <2>2, <2>3, <3>1, <5>1
      <4> QED BY <1>4, <1>10, <3>1, <4>1 DEF Boundaries
    <3>2. CASE k = j + 1
      <4>1. k + 1 = j + 2
        BY <3>2
      <4> QED BY <1>11, <2>2, <2>3, <2>4, <2>5, <2>6, <3>2, <4>1
    <3> QED BY <3>1, <3>2
  <2>8. Boundaries(more)'
    <3>1. cuts[1] = 0 /\ Len(messages') = j + 1
      BY <1>4, <2>2 DEF Boundaries
    <3> QED BY <1>5, <2>4, <2>7, <3>1
            DEF Boundaries, HeaderWithin, Ends, Slice, ValidMessage, ValidHeader
  <2>9. Slice(m, m) = <<>> /\ ~HeaderWithin(m, m) /\ ~Broken(m, m)
    <3>1. m \in Int /\ m + 1 \in Int /\ m < m + 1
      OBVIOUS
    <3>2. Slice(m, m) = <<>>
      BY <3>1, SubSeqEmpty DEF Slice
    <3> QED BY <3>2 DEF HeaderWithin, Broken, HeaderLen
  <2>10. Agrees(more)'
    <3>1. more[Len(messages') + 1] = m
      BY <2>2, <2>3
    <3>2. bytes' = Slice(m, m)' /\ Partial(m, m)' /\ failed' = Broken(m, m)'
      BY <1>12, <2>1, <2>9 DEF Partial, Broken
    <3>3. verdict' = "none" /\ consumed' = m
      BY <1>5, <1>9
    <3> QED BY <2>8, <3>1, <3>2, <3>3 DEF Agrees
  <2>11. more \in [1 .. (Len(messages') + 1) -> 0 .. consumed']
    BY <1>9, <2>2, <2>3
  <2> QED BY <1>7, <2>2, <2>10, <2>11 DEF AgreesInv
<1>14. CASE ~(AllRead(b) /\ ~Bad(b))
  <2>1. messages' = messages /\ bytes' = b /\ (failed' <=> Bad(b)) /\ failed' \in BOOLEAN
    BY <1>6, <1>14 DEF Judge, Bad
  <2>2. cuts \in [1 .. (Len(messages') + 1) -> 0 .. consumed']
    BY <1>9, <1>10, <1>11, <2>1
  <2>3. Boundaries(cuts)'
    BY <1>4, <1>5, <2>1 DEF Boundaries, HeaderWithin, Ends, Slice, ValidMessage, ValidHeader
  <2>4. Partial(p, m)
    <3> SUFFICES ASSUME HeaderWithin(p, m), ~Broken(p, m)
                 PROVE  m < Ends(p)
      BY DEF Partial
    <3>1. ~Bad(b) /\ ~AllRead(b) /\ m # Ends(p)
      BY <1>11, <1>14
    <3>2. Len(b) = m - p
      <4>1. p \in 0 .. Len(stream) /\ m \in p .. Len(stream)
        BY <1>6, <1>8, <1>11
      <4> QED BY <1>6, <1>11, <4>1, SliceResult
    <3>3. ValidHeader(b)
      BY <1>8, <3>1, <3>2 DEF Bad, HeaderRead, HeaderWithin, HeaderLen
    <3>4. Ends(p) \in Nat
      <4>1. p + 2 \in 1 .. Len(stream)
        BY <1>6, <1>8, <1>11 DEF HeaderWithin, HeaderLen
      <4>2. stream[p + 2] \in Byte
        BY <1>6, <4>1, ElementOfSeq
      <4> QED BY <1>8, <4>2, DecoderAssumption DEF Ends, Byte, HeaderLen
    <3> QED BY <1>11, <3>1, <3>3, <3>4
  <2>5. Agrees(cuts)'
    <3>1. cuts[Len(messages') + 1] = p /\ consumed' = m /\ verdict' = "none"
      BY <1>5, <1>9, <1>10, <1>11, <2>1
    <3>2. bytes' = Slice(p, m)' /\ Partial(p, m)' /\ failed' = Broken(p, m)'
      BY <1>11, <1>12, <2>1, <2>4 DEF Broken
    <3> QED BY <2>3, <3>1, <3>2 DEF Agrees
  <2> QED BY <1>2, <1>7, <2>1, <2>2, <2>5 DEF AgreesInv
<1> QED BY <1>13, <1>14

(* At the end, a message that is not complete is an error.                 *)
LEMMA FinishAgrees ==
  ASSUME AgreesInv, Finish
  PROVE  AgreesInv'
<1> DEFINE n == Len(messages)
<1>1. PICK cuts \in [1 .. (n + 1) -> 0 .. consumed] : Agrees(cuts)
  BY DEF AgreesInv
<1> DEFINE p == cuts[n + 1]
<1>2. n \in Nat /\ messages \in Seq(Seq(Byte)) /\ WaitsInv
  BY LenProperties DEF AgreesInv
<1>3. /\ UNCHANGED <<stream, piece, consumed, bytes, messages>>
      /\ verdict = "none" /\ failed \in BOOLEAN
      /\ failed \/ (piece = 0 /\ consumed = Len(stream))
      /\ verdict' = IF failed \/ bytes # <<>> THEN "truncated" ELSE "clean"
  BY <1>2 DEF Finish, Complete, WaitsInv
<1>4. /\ p \in 0 .. consumed /\ consumed \in Nat /\ stream \in Seq(Byte)
      /\ Len(stream) \in Nat /\ consumed <= Len(stream)
  <2>1. p \in 0 .. consumed
    BY <1>1, <1>2
  <2>2. stream \in Seq(Byte) /\ Len(stream) \in Nat
    BY <1>2, StreamIsBytes DEF WaitsInv
  <2>3. /\ consumed \in Nat /\ piece \in 0 .. MaxPiece /\ MaxPiece \in Nat
        /\ consumed + piece <= Len(stream)
    BY <1>2, DecoderAssumption DEF WaitsInv
  <2>4. consumed <= Len(stream)
    BY <2>2, <2>3
  <2> QED BY <2>1, <2>2, <2>3, <2>4
<1>5. /\ bytes = Slice(p, consumed) /\ failed = Broken(p, consumed)
  BY <1>1, <1>3 DEF Agrees
<1>6. bytes = <<>> <=> p = consumed
  <2>1. p \in 0 .. Len(stream) /\ consumed \in p .. Len(stream)
    BY <1>4
  <2>2. Slice(p, consumed) \in Seq(Byte) /\ Len(Slice(p, consumed)) = consumed - p
    <3> HIDE DEF p
    <3> QED BY <1>4, <2>1, SliceResult
  <2>3. bytes = <<>> <=> Len(bytes) = 0
    BY <1>5, <2>2, EmptySeq
  <2> QED BY <1>4, <1>5, <2>2, <2>3
<1>7. /\ verdict' = "clean" => ~Broken(p, consumed) /\ p = Len(stream)
      /\ verdict' = "truncated" => Broken(p, consumed) \/ p < Len(stream)
      /\ verdict' # "none"
  <2>1. CASE failed \/ bytes # <<>>
    BY <1>3, <1>4, <1>5, <1>6, <2>1 DEF Broken
  <2>2. CASE ~failed /\ bytes = <<>>
    BY <1>3, <1>4, <1>5, <1>6, <2>2 DEF Broken
  <2> QED BY <2>1, <2>2
<1>8. Agrees(cuts)'
  <2>1. Boundaries(cuts)' /\ Partial(cuts[Len(messages) + 1], consumed)'
    BY <1>1, <1>3 DEF Agrees, Boundaries, Partial, Broken, HeaderWithin, Ends, Slice,
                      ValidMessage, ValidHeader
  <2>2. bytes' = Slice(cuts[Len(messages) + 1], consumed)'
    BY <1>3, <1>5 DEF Slice
  <2>3. /\ Broken(p, consumed) <=> Broken(cuts[Len(messages) + 1], consumed)'
        /\ p = cuts[Len(messages') + 1] /\ stream' = stream
    BY <1>3 DEF Broken, HeaderWithin, Ends, Slice, ValidMessage, ValidHeader
  <2> QED BY <1>7, <2>1, <2>2, <2>3 DEF Agrees
<1>9. WaitsInv'
  BY <1>2, WaitsStep DEF Next
<1> QED BY <1>2, <1>3, <1>8, <1>9 DEF AgreesInv

(* The other steps change nothing that the decoder and the reference read. *)
LEMMA AgreesStep ==
  ASSUME AgreesInv, [Next]_vars
  PROVE  AgreesInv'
<1>1. ASSUME UNCHANGED <<stream, consumed, bytes, failed, messages, verdict>>
      PROVE  AgreesInv'
  <2>1. PICK cuts \in [1 .. (Len(messages) + 1) -> 0 .. consumed] : Agrees(cuts)
    BY DEF AgreesInv
  <2>2. Agrees(cuts)'
    BY <1>1, <2>1 DEF Agrees, Boundaries, Partial, Broken, HeaderWithin, Ends, Slice,
                      ValidMessage, ValidHeader
  <2>3. WaitsInv'
    BY WaitsStep DEF AgreesInv
  <2>4. /\ messages' \in Seq(Seq(Byte))
        /\ cuts \in [1 .. (Len(messages') + 1) -> 0 .. consumed']
    BY <1>1, <2>1 DEF AgreesInv
  <2> QED BY <2>2, <2>3, <2>4 DEF AgreesInv
<1>2. ASSUME NEW k \in 1 .. MaxPiece, Hand(k) PROVE AgreesInv'
  BY <1>1, <1>2 DEF Hand
<1>3. CASE UNCHANGED vars
  BY <1>1, <1>3 DEF vars
<1> QED BY <1>2, <1>3, FeedAgrees, FinishAgrees DEF Next, Done

(* Whatever the stream and however it is cut into pieces, the decoder      *)
(* returns the messages of the stream and fails where, and only where, no  *)
(* message can follow.                                                     *)
THEOREM CutDoesNotMatter == Spec => []CutIndependent
<1>1. ASSUME Init PROVE AgreesInv
  <2> DEFINE cuts == [k \in 1 .. 1 |-> 0]
  <2>1. /\ messages = <<>> /\ Len(messages) = 0 /\ messages \in Seq(Seq(Byte))
    BY <1>1, EmptySeq DEF Init
  <2>2. cuts \in [1 .. (Len(messages) + 1) -> 0 .. consumed] /\ cuts[Len(messages) + 1] = 0
    BY <1>1, <2>1 DEF Init
  <2>3. cuts[1] = 0 /\ \A k \in 1 .. Len(messages) : FALSE
    BY <2>1
  <2>4. /\ consumed = 0 /\ failed = FALSE /\ verdict = "none" /\ bytes = <<>>
    BY <1>1 DEF Init
  <2>5. Slice(0, 0) = <<>>
    BY SubSeqEmpty DEF Slice
  <2>6. ~HeaderWithin(0, 0)
    BY DEF HeaderWithin, HeaderLen
  <2> HIDE DEF cuts
  <2>7. Agrees(cuts)
    BY <2>2, <2>3, <2>4, <2>5, <2>6 DEF Agrees, Boundaries, Partial, Broken
  <2> QED BY <1>1, <2>1, <2>2, <2>7, WaitsInitially DEF AgreesInv
<1>2. AgreesInv /\ [Next]_vars => AgreesInv'
  BY AgreesStep
<1>3. AgreesInv => CutIndependent
  BY DEF AgreesInv, Agrees, CutIndependent
<1> QED BY <1>1, <1>2, <1>3, PTL DEF Spec
=============================================================================
