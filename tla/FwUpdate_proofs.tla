--------------------------- MODULE FwUpdate_proofs ---------------------------
(***************************************************************************)
(* Theorems about the firmware update of FwUpdate.tla, for every size of   *)
(* the slot and its pages, every set of images and every way in which a    *)
(* flash operation may fail there.                                         *)
(***************************************************************************)
EXTENDS FwUpdate, Integers, TLAPS

(* What the RAM state says while commands run.                             *)
PhaseInv ==
  /\ mode = "off" => state = "IDLE" /\ confirm = "wait"
  /\ state # "IDLE" => confirm = "done" /\ hash \in Images
  /\ confirm = "done" => primaryState # "test"
  /\ state = "ERASING" => eraseOffset \in 1 .. (Pages - 1)
  /\ Active => trailer = "unset"
  /\ next <= size

(* What is erased while an update is received.                             *)
ErasedInv ==
  /\ state = "ERASING" =>
       \A w \in Slot : w < (eraseOffset - 1) * PageWords => sec[w] = Blank
  /\ state \in {"READY", "RECEIVING"} =>
       \A w \in Slot : w < PageWords \/ w >= PageWords + next => sec[w] = Blank

(* What the host has been told concerns the present update.                *)
AckedInv ==
  /\ AckedStored
  /\ state \in {"IDLE", "ERASING"} => acked = NoneAcked
  /\ Active => \A k \in DOMAIN acked : acked[k] # None => k < next

(* The invariants the properties follow from.                              *)
IInv == /\ TypeOK /\ PhaseInv /\ RollbackIntact /\ ErasedInv
        /\ PendingVerified /\ CompleteMeansPending /\ AckedInv

----------------------------------------------------------------------------
(* The geometry of the slot.                                               *)

(* The doublewords of an image lie in the slot, from page 1 on.            *)
LEMMA Geometry ==
  /\ ImageMax \in Nat
  /\ \A k \in 0 .. (ImageMax - 1) : PageWords + k \in Slot /\ k \in Slot
  /\ 0 \in Slot
  /\ \A i \in Images : Length[i] \in 1 .. ImageMax
<1>1. ImageMax \in Nat /\ PageWords \in Nat \ {0} /\ Pages \in Nat
  BY SizesAssumption
<1>2. (Pages - 1) * PageWords = ImageMax + PageWords
  BY <1>1 DEF ImageMax
<1>3. \A i \in Images : Length[i] \in 1 .. ImageMax
  BY ImagesAssumption
<1> QED BY <1>1, <1>2, <1>3 DEF Slot

(* Erasing page p extends an erased prefix of p pages by one page.         *)
LEMMA ErasedPrefix ==
  ASSUME NEW p \in 0 .. (Pages - 2), sec \in [Slot -> Word],
         \A w \in Slot : w < p * PageWords => sec[w] = Blank
  PROVE  \A w \in Slot : w < (p + 1) * PageWords => Erased(p)[w] = Blank
<1>1. p \in Nat /\ p * PageWords \in Nat /\ PageWords \in Nat
      /\ (p + 1) * PageWords \in Nat
  BY SizesAssumption
<1>2. \A w \in Slot : w \in Nat
  BY DEF Slot
<1> DEFINE a == p * PageWords
           b == (p + 1) * PageWords
<1>3. SUFFICES ASSUME NEW w \in Slot, w < b
               PROVE  Erased(p)[w] = Blank
  OBVIOUS
<1>4. a \in Nat /\ b \in Nat /\ w \in Nat
  BY <1>1, <1>2
<1> HIDE DEF a, b
<1>5. w < a \/ w \in a .. (b - 1)
  BY <1>3, <1>4
<1>6. PageOf(p) = a .. (b - 1)
  BY DEF PageOf, a, b
<1>7. Erased(p)[w] = IF w \in PageOf(p) THEN Blank ELSE sec[w]
  BY DEF Erased
<1>8. w < a => sec[w] = Blank
  BY <1>3 DEF a
<1> QED BY <1>5, <1>6, <1>7, <1>8

(* An erase gives the flash a value of its type.                           *)
LEMMA EraseTypes ==
  ASSUME sec \in [Slot -> Word], NEW p
  PROVE  /\ Erased(p) \in [Slot -> Word]
         /\ \A s \in HalfErased(p) : s \in [Slot -> Word]
<1>1. Blank \in Word /\ Garbage \in Word
  BY DEF Blank, Garbage, Word
<1> QED BY <1>1 DEF Erased, HalfErased

(* Programming changes nothing before its offset, nothing after its end,   *)
(* and leaves the data in between.                                         *)
LEMMA ProgramResult ==
  ASSUME sec \in [Slot -> Word], NEW img \in Images, NEW offset \in Nat, NEW n \in Nat,
         offset + n <= ImageMax
  PROVE  /\ Programmed(offset, img, n) \in [Slot -> Word]
         /\ \A w \in Slot : w < PageWords + offset \/ w >= PageWords + offset + n =>
              Programmed(offset, img, n)[w] = sec[w]
         /\ \A k \in offset .. (offset + n - 1) :
              Programmed(offset, img, n)[PageWords + k] = <<img, k>>
<1>1. PageWords \in Nat /\ ImageMax \in Nat
  BY Geometry, SizesAssumption
<1>2. \A w \in Slot : w \in Nat
  BY DEF Slot
<1>3. \A w \in (PageWords + offset) .. (PageWords + offset + n - 1) :
        <<img, w - PageWords>> \in Word
  BY <1>1 DEF Word
<1>4. Programmed(offset, img, n) \in [Slot -> Word]
  BY <1>3 DEF Programmed
<1>5. \A w \in Slot : w < PageWords + offset \/ w >= PageWords + offset + n =>
        Programmed(offset, img, n)[w] = sec[w]
  BY <1>1, <1>2 DEF Programmed
<1>6. ASSUME NEW k \in offset .. (offset + n - 1)
      PROVE  Programmed(offset, img, n)[PageWords + k] = <<img, k>>
  <2>1. PageWords + k \in Slot
    BY <1>1, Geometry
  <2>2. PageWords + k \in (PageWords + offset) .. (PageWords + offset + n - 1)
        /\ (PageWords + k) - PageWords = k
    BY <1>1
  <2> QED BY <2>1, <2>2 DEF Programmed
<1> QED BY <1>4, <1>5, <1>6

(* A program operation that stops half way changes nothing before its      *)
(* offset.                                                                 *)
LEMMA HalfProgramResult ==
  ASSUME sec \in [Slot -> Word], NEW img \in Images, NEW offset \in Nat,
         NEW length \in Nat, offset + length <= ImageMax,
         NEW s \in HalfProgrammed(offset, img, length)
  PROVE  /\ s \in [Slot -> Word]
         /\ \A w \in Slot : w < PageWords + offset => s[w] = sec[w]
<1>1. PICK n \in 0 .. (length - 1) :
        \/ s = Programmed(offset, img, n)
        \/ s = [Programmed(offset, img, n) EXCEPT ![PageWords + offset + n] = Garbage]
  BY DEF HalfProgrammed
<1>2. n \in Nat /\ offset + n <= ImageMax /\ PageWords \in Nat
  BY Geometry, SizesAssumption
<1>3. /\ Programmed(offset, img, n) \in [Slot -> Word]
      /\ \A w \in Slot : w < PageWords + offset => Programmed(offset, img, n)[w] = sec[w]
  BY <1>2, ProgramResult
<1>4. Garbage \in Word
  BY DEF Garbage, Word
<1>5. \A w \in Slot : w \in Nat
  BY DEF Slot
<1> QED BY <1>1, <1>2, <1>3, <1>4, <1>5

----------------------------------------------------------------------------
(* How commands end when something goes wrong.                             *)

(* Power off forgets the update, whatever happened to the flash.           *)
LEMMA PowerOffResult ==
  ASSUME PowerOff
  PROVE  /\ UpdateTypes' /\ AckedTypes' /\ PhaseInv' /\ ErasedInv'
         /\ CompleteMeansPending' /\ AckedInv'
<1>1. /\ mode' = "off" /\ confirm' = "wait" /\ state' = "IDLE" /\ error' = "NONE"
      /\ size' = 0 /\ hash' = None /\ next' = 0 /\ eraseOffset' = 0
      /\ acked' = NoneAcked
  BY DEF PowerOff, ResetUpdate
<1>2. UpdateTypes'
  BY <1>1, Geometry, SizesAssumption DEF UpdateTypes, States, Errors
<1>3. AckedTypes'
  BY <1>1 DEF AckedTypes, NoneAcked
<1>4. PhaseInv'
  BY <1>1 DEF PhaseInv, Active
<1>5. ErasedInv' /\ CompleteMeansPending'
  BY <1>1 DEF ErasedInv, CompleteMeansPending
<1>6. AckedInv'
  BY <1>1 DEF AckedInv, AckedStored, NoneAcked, Active
<1> QED BY <1>2, <1>3, <1>4, <1>5, <1>6

(* A command that fails leaves the update in ERROR.                        *)
LEMMA FailResult ==
  ASSUME IInv, Running, state # "IDLE", NEW e \in Errors, Fail(e),
         UNCHANGED <<mode, confirm, size, hash, next, eraseOffset, acked, primaryState>>
  PROVE  /\ UpdateTypes' /\ AckedTypes' /\ PhaseInv' /\ ErasedInv'
         /\ CompleteMeansPending' /\ RollbackIntact'
         /\ AckedStored' => AckedInv'
<1>1. state' = "ERROR" /\ error' = e
  BY DEF Fail
<1>2. UpdateTypes'
  BY <1>1 DEF IInv, TypeOK, UpdateTypes, States
<1>3. AckedTypes'
  BY DEF IInv, TypeOK, AckedTypes
<1>4. PhaseInv'
  BY <1>1 DEF IInv, PhaseInv, Running, Active
<1>5. ErasedInv' /\ CompleteMeansPending'
  BY <1>1 DEF ErasedInv, CompleteMeansPending
<1>6. RollbackIntact'
  BY DEF IInv, PhaseInv, RollbackIntact
<1>7. AckedStored' => AckedInv'
  BY <1>1 DEF AckedInv, Active
<1> QED BY <1>2, <1>3, <1>4, <1>5, <1>6, <1>7

(* Without a scheduled image nothing is required of the slot.              *)
LEMMA NotPending ==
  ASSUME trailer' # "good"
  PROVE  PendingVerified'
BY DEF PendingVerified

(* An untouched slot with an untouched trailer stays as good as it was.    *)
LEMMA PendingKept ==
  ASSUME PendingVerified, sec' = sec, trailer' = "good" => trailer = "good"
  PROVE  PendingVerified'
BY DEF PendingVerified, Holds, HasMagic

----------------------------------------------------------------------------
(* The commands.                                                           *)

(* FW_BEGIN takes the trailer away before anything else.                   *)
LEMMA BeginStep ==
  ASSUME IInv, NEW sz \in 0 .. ImageMax, NEW h \in Images, Begin(sz, h)
  PROVE  IInv'
<1>1. confirm = "done" /\ mode = "app" /\ primaryState # "test"
  BY DEF Begin, BeginAllowed, Running, IInv, PhaseInv
<1>2. UNCHANGED <<sec, primary, primaryState, backup>>
  BY DEF Begin, bootVars
<1>3. BootTypes' /\ RollbackIntact'
  BY <1>1, <1>2 DEF IInv, TypeOK, BootTypes, RollbackIntact
<1>4. /\ trailer' \in {"unset", "bad", "good"}
      /\ trailer' = "good" => trailer = "good"
  BY DEF Begin, HalfErasedTrailer, IInv, TypeOK, FlashTypes
<1>5. FlashTypes'
  BY <1>2, <1>4 DEF IInv, TypeOK, FlashTypes
<1>6. PendingVerified'
  BY <1>2, <1>4, PendingKept DEF IInv
<1>7. CASE PowerOff
  BY <1>3, <1>5, <1>6, <1>7, PowerOffResult DEF IInv, TypeOK
<1>8. CASE /\ state' \in {"ERASING", "ERROR"} /\ error' \in {"NONE", "IO"}
           /\ size' = sz /\ hash' = h /\ next' = 0
           /\ eraseOffset' \in {0, 1} /\ acked' = NoneAcked
           /\ state' = "ERASING" => eraseOffset' = 1 /\ trailer' = "unset"
           /\ UNCHANGED <<mode, confirm>>
  <2>1. UpdateTypes'
    BY <1>1, <1>8, Geometry, SizesAssumption
       DEF IInv, TypeOK, UpdateTypes, States, Errors
  <2>2. AckedTypes' /\ AckedInv'
    BY <1>8 DEF AckedTypes, AckedInv, AckedStored, NoneAcked, Active
  <2>3. PhaseInv'
    BY <1>1, <1>2, <1>8, SizesAssumption DEF PhaseInv, Active
  <2>4. ErasedInv'
    <3>1. \A w \in Slot : ~(w < (1 - 1) * PageWords)
      BY SizesAssumption DEF Slot
    <3> QED BY <1>8, <3>1 DEF ErasedInv
  <2>5. CompleteMeansPending'
    BY <1>8 DEF CompleteMeansPending
  <2> QED BY <1>3, <1>5, <1>6, <2>1, <2>2, <2>3, <2>4, <2>5 DEF IInv, TypeOK
<1> QED BY <1>7, <1>8 DEF Begin, Fail

(* FW_STATUS erases a page, which extends the erased part of the slot.     *)
LEMMA StepStep ==
  ASSUME IInv, Step
  PROVE  IInv'
<1>1. /\ state = "ERASING" /\ mode = "app" /\ confirm = "done" /\ hash \in Images
      /\ primaryState # "test" /\ trailer = "unset" /\ acked = NoneAcked
      /\ eraseOffset \in 1 .. (Pages - 1)
  BY DEF Step, Running, Active, IInv, PhaseInv, AckedInv
<1>2. UNCHANGED <<trailer, primary, primaryState, backup>>
  BY DEF Step, bootVars
<1>3. BootTypes' /\ RollbackIntact' /\ PendingVerified'
  BY <1>1, <1>2 DEF IInv, TypeOK, BootTypes, RollbackIntact, PendingVerified
<1>4. FlashTypes'
  <2>1. sec' \in [Slot -> Word]
    BY EraseTypes DEF Step, IInv, TypeOK, FlashTypes
  <2> QED BY <1>2, <2>1 DEF IInv, TypeOK, FlashTypes
<1>5. CASE PowerOff
  BY <1>3, <1>4, <1>5, PowerOffResult DEF IInv, TypeOK
<1>6. CASE /\ Fail("IO")
           /\ UNCHANGED <<mode, confirm, size, hash, next, eraseOffset, acked>>
  <2>1. AckedStored'
    BY <1>1, <1>6 DEF AckedStored, NoneAcked
  <2> QED BY <1>1, <1>2, <1>3, <1>4, <1>6, <2>1, FailResult
       DEF IInv, TypeOK, Running, Errors
<1>7. CASE /\ sec' = Erased(StepPage)
           /\ eraseOffset' = Advance(eraseOffset)
           /\ state' = IF ErasedAll(Advance(eraseOffset)) THEN "READY" ELSE state
           /\ UNCHANGED <<mode, confirm, error, size, hash, next, acked>>
  <2>1. /\ eraseOffset' = eraseOffset + 1 /\ StepPage = eraseOffset - 1
        /\ StepPage \in 0 .. (Pages - 2) /\ StepPage + 1 = eraseOffset
        /\ state' = IF eraseOffset + 1 = Pages THEN "READY" ELSE "ERASING"
    BY <1>1, <1>7, SizesAssumption DEF StepPage, Advance, ErasedAll
  <2>2. UpdateTypes'
    BY <1>1, <1>7, <2>1, SizesAssumption DEF IInv, TypeOK, UpdateTypes, States
  <2>3. AckedTypes' /\ AckedInv'
    BY <1>1, <1>7, <2>1 DEF IInv, TypeOK, AckedTypes, AckedInv, AckedStored, NoneAcked,
       Active
  <2>4. PhaseInv'
    BY <1>1, <1>2, <1>7, <2>1, SizesAssumption DEF IInv, PhaseInv, Active
  <2>5. ErasedInv'
    <3>1. \A w \in Slot : w < StepPage * PageWords => sec[w] = Blank
      BY <1>1, <2>1 DEF IInv, ErasedInv
    <3>2. sec \in [Slot -> Word]
      BY DEF IInv, TypeOK, FlashTypes
    <3>3. \A w \in Slot : w < (StepPage + 1) * PageWords => sec'[w] = Blank
      BY <1>7, <2>1, <3>1, <3>2, ErasedPrefix
    <3>4. eraseOffset' - 1 = StepPage + 1
      BY <1>1, <2>1
    <3>5. CASE state' = "ERASING"
      BY <3>3, <3>4, <3>5 DEF ErasedInv
    <3>6. CASE state' = "READY"
      <4>1. StepPage + 1 = Pages - 1
        BY <1>1, <2>1, <3>6, SizesAssumption
      <4>2. \A w \in Slot : w < (StepPage + 1) * PageWords
        BY <4>1, SizesAssumption DEF Slot
      <4> QED BY <3>3, <3>6, <4>2 DEF ErasedInv
    <3> QED BY <2>1, <3>5, <3>6
  <2>6. CompleteMeansPending'
    BY <2>1 DEF CompleteMeansPending
  <2> QED BY <1>3, <1>4, <2>2, <2>3, <2>4, <2>5, <2>6 DEF IInv, TypeOK
<1> QED BY <1>5, <1>6, <1>7 DEF Step, FailOrPowerOff

(* FW_WRITE programs what follows the data received.                       *)
LEMMA WriteStep ==
  ASSUME IInv, NEW offset \in 0 .. ImageMax, NEW length \in 0 .. ChunkMax,
         NEW img \in Images, Write(offset, length, img)
  PROVE  IInv'
<1>1. /\ state \in {"READY", "RECEIVING"} /\ mode = "app" /\ confirm = "done"
      /\ hash \in Images /\ primaryState # "test" /\ trailer = "unset"
      /\ offset = next /\ 1 <= length /\ offset + length <= size
  BY DEF Write, WriteAllowed, Running, Active, IInv, PhaseInv
<1>2. UNCHANGED <<trailer, primary, primaryState, backup>>
  BY DEF Write, bootVars
<1>3. BootTypes' /\ RollbackIntact' /\ PendingVerified'
  BY <1>1, <1>2 DEF IInv, TypeOK, BootTypes, RollbackIntact, PendingVerified
<1>4. /\ sec \in [Slot -> Word] /\ acked \in [0 .. (ImageMax - 1) -> Images \cup {None}]
      /\ size \in 0 .. ImageMax /\ ImageMax \in Nat /\ PageWords \in Nat
      /\ next \in Nat /\ offset \in Nat /\ length \in Nat /\ offset + length <= ImageMax
  BY <1>1, Geometry, SizesAssumption DEF IInv, TypeOK, FlashTypes, UpdateTypes, AckedTypes
<1>5. /\ \A k \in 0 .. (ImageMax - 1) : acked[k] # None =>
            k < next /\ sec[PageWords + k] = <<acked[k], k>>
      /\ DOMAIN acked = 0 .. (ImageMax - 1)
  BY <1>1, <1>4 DEF IInv, AckedInv, AckedStored, Active
<1>6. CASE sec' \in HalfProgrammed(offset, img, length) /\ FailOrPowerOff("IO")
  <2>1. /\ sec' \in [Slot -> Word]
        /\ \A w \in Slot : w < PageWords + offset => sec'[w] = sec[w]
    BY <1>4, <1>6, HalfProgramResult
  <2>2. FlashTypes'
    BY <1>2, <2>1 DEF IInv, TypeOK, FlashTypes
  <2>3. CASE PowerOff
    BY <1>3, <2>2, <2>3, PowerOffResult DEF IInv, TypeOK
  <2>4. CASE /\ Fail("IO")
             /\ UNCHANGED <<mode, confirm, size, hash, next, eraseOffset, acked>>
    <3>1. AckedStored'
      <4>1. ASSUME NEW k \in 0 .. (ImageMax - 1), acked[k] # None
            PROVE  sec'[PageWords + k] = <<acked[k], k>>
        <5>1. PageWords + k \in Slot /\ PageWords + k < PageWords + offset
          BY <1>1, <1>4, <1>5, <4>1, Geometry
        <5> QED BY <1>5, <2>1, <4>1, <5>1
      <4> QED BY <1>5, <2>4, <4>1 DEF AckedStored
    <3> QED BY <1>1, <1>2, <1>3, <2>2, <2>4, <3>1, FailResult
         DEF IInv, TypeOK, Running, Errors
  <2> QED BY <1>6, <2>3, <2>4 DEF FailOrPowerOff
<1>7. CASE /\ sec' = Programmed(offset, img, length)
           /\ next' = next + length /\ state' = "RECEIVING"
           /\ acked' = [k \in DOMAIN acked |->
                 IF k \in offset .. (offset + length - 1) THEN img ELSE acked[k]]
           /\ UNCHANGED <<mode, confirm, error, size, hash, eraseOffset>>
  <2>1. /\ sec' \in [Slot -> Word]
        /\ \A w \in Slot : w < PageWords + offset \/ w >= PageWords + offset + length =>
             sec'[w] = sec[w]
        /\ \A k \in offset .. (offset + length - 1) : sec'[PageWords + k] = <<img, k>>
    <3>1. /\ Programmed(offset, img, length) \in [Slot -> Word]
          /\ \A w \in Slot : w < PageWords + offset \/ w >= PageWords + offset + length =>
               Programmed(offset, img, length)[w] = sec[w]
          /\ \A k \in offset .. (offset + length - 1) :
               Programmed(offset, img, length)[PageWords + k] = <<img, k>>
      BY <1>4, ProgramResult
    <3> QED BY <1>7, <3>1
  <2>2. UpdateTypes' /\ FlashTypes' /\ AckedTypes'
    BY <1>1, <1>2, <1>4, <1>5, <1>7, <2>1
       DEF IInv, TypeOK, UpdateTypes, FlashTypes, AckedTypes, States
  <2>3. PhaseInv'
    BY <1>1, <1>2, <1>4, <1>7 DEF IInv, PhaseInv, Active
  <2>4. ErasedInv'
    <3>1. \A w \in Slot : w < PageWords \/ w >= PageWords + next => sec[w] = Blank
      BY <1>1 DEF IInv, ErasedInv
    <3>2. ASSUME NEW w \in Slot, w < PageWords \/ w >= PageWords + next'
          PROVE  sec'[w] = Blank
      <4>1. w \in Nat
        BY DEF Slot
      <4>2. w < PageWords + offset \/ w >= PageWords + offset + length
        BY <1>1, <1>4, <1>7, <3>2, <4>1
      <4>3. w < PageWords \/ w >= PageWords + next
        BY <1>1, <1>4, <1>7, <3>2, <4>1
      <4> QED BY <2>1, <3>1, <4>2, <4>3
    <3> QED BY <1>7, <3>2 DEF ErasedInv
  <2>5. CompleteMeansPending'
    BY <1>7 DEF CompleteMeansPending
  <2>6. AckedInv'
    <3>1. ASSUME NEW k \in 0 .. (ImageMax - 1), acked'[k] # None
          PROVE  sec'[PageWords + k] = <<acked'[k], k>> /\ k < next'
      <4>1. CASE k \in offset .. (offset + length - 1)
        <5>1. acked'[k] = img
          BY <1>5, <1>7, <4>1
        <5>2. sec'[PageWords + k] = <<img, k>>
          BY <2>1, <4>1
        <5>3. k < next'
          BY <1>1, <1>4, <1>7, <4>1
        <5> QED BY <5>1, <5>2, <5>3
      <4>2. CASE k \notin offset .. (offset + length - 1)
        <5>1. acked'[k] = acked[k]
          BY <1>5, <1>7, <4>2
        <5>2. k < next /\ PageWords + k \in Slot
          BY <1>5, <3>1, <5>1, Geometry
        <5>3. sec'[PageWords + k] = sec[PageWords + k]
          BY <1>1, <1>4, <2>1, <5>2
        <5> QED BY <1>4, <1>5, <1>7, <3>1, <5>1, <5>2, <5>3
      <4> QED BY <4>1, <4>2
    <3>2. DOMAIN acked' = 0 .. (ImageMax - 1)
      BY <1>5, <1>7
    <3> QED BY <1>7, <3>1, <3>2 DEF AckedInv, AckedStored
  <2> QED BY <1>3, <2>2, <2>3, <2>4, <2>5, <2>6 DEF IInv, TypeOK
<1> QED BY <1>6, <1>7 DEF Write

(* A repeated block is acknowledged when it is what is stored.             *)
LEMMA WriteAgainStep ==
  ASSUME IInv, NEW offset \in 0 .. ImageMax, NEW length \in 0 .. ChunkMax,
         NEW img \in Images, WriteAgain(offset, length, img)
  PROVE  IInv'
<1>1. UNCHANGED <<mode, state, error, size, hash, next, eraseOffset, confirm, sec, trailer,
                  primary, primaryState, backup>>
  BY DEF WriteAgain, updateVars, flashVars, bootVars
<1>2. /\ UpdateTypes' /\ FlashTypes' /\ BootTypes'
  BY <1>1 DEF IInv, TypeOK, UpdateTypes, FlashTypes, BootTypes
<1>3. PhaseInv' /\ RollbackIntact' /\ ErasedInv'
  BY <1>1 DEF IInv, PhaseInv, Active, RollbackIntact, ErasedInv
<1>4. PendingVerified'
  BY <1>1, PendingKept DEF IInv
<1>5. /\ state \in {"READY", "RECEIVING"} /\ SameData(offset, length, img)
      /\ acked' = [k \in DOMAIN acked |->
                     IF k \in offset .. (offset + length - 1) THEN img ELSE acked[k]]
  BY DEF WriteAgain, WriteAllowed
<1>6. CompleteMeansPending'
  BY <1>1, <1>5 DEF CompleteMeansPending
<1>7. AckedTypes'
  BY <1>5 DEF IInv, TypeOK, AckedTypes
<1>8. AckedInv'
  <2>1. DOMAIN acked = 0 .. (ImageMax - 1) /\ DOMAIN acked' = DOMAIN acked
        /\ next \in Nat /\ ImageMax \in Nat /\ length \in Nat
    BY <1>5, Geometry, SizesAssumption DEF IInv, TypeOK, AckedTypes, UpdateTypes
  <2>2. ASSUME NEW k \in DOMAIN acked, acked'[k] # None
        PROVE  sec[PageWords + k] = <<acked'[k], k>> /\ k < next
    <3>1. CASE k \in offset .. (offset + length - 1)
      BY <1>5, <2>1, <3>1 DEF SameData
    <3>2. CASE k \notin offset .. (offset + length - 1)
      BY <1>5, <2>1, <2>2, <3>2 DEF IInv, AckedInv, AckedStored, Active
    <3> QED BY <3>1, <3>2
  <2> QED BY <1>1, <1>5, <2>1, <2>2 DEF AckedInv, AckedStored, Active
<1> QED BY <1>2, <1>3, <1>4, <1>6, <1>7, <1>8 DEF IInv, TypeOK

(* FW_FINISH schedules what it has verified, even when it reports an error. *)
LEMMA FinishStep ==
  ASSUME IInv, Finish
  PROVE  IInv'
<1>1. /\ state = "RECEIVING" /\ mode = "app" /\ confirm = "done" /\ hash \in Images
      /\ primaryState # "test" /\ trailer = "unset" /\ Verified
  BY DEF Finish, FinishAllowed, Running, Active, IInv, PhaseInv
<1>2. UNCHANGED <<sec, primary, primaryState, backup>>
  BY DEF Finish, bootVars
<1>3. BootTypes' /\ RollbackIntact'
  BY <1>1, <1>2 DEF IInv, TypeOK, BootTypes, RollbackIntact
<1>4. trailer' \in {"unset", "bad", "good"}
  BY <1>1 DEF Finish, HalfPending
<1>5. FlashTypes'
  BY <1>2, <1>4 DEF IInv, TypeOK, FlashTypes
<1>6. Holds(hash) /\ size = Length[hash] /\ HasMagic(sec[PageWords])
  BY <1>1 DEF Verified, DigestMatches
<1>7. hash \in HeaderImages
  <2>1. Length[hash] \in Nat \ {0} /\ PageWords \in Nat
    BY <1>1, Geometry, SizesAssumption
  <2>2. 0 \in 0 .. (Length[hash] - 1) /\ PageWords + 0 = PageWords
    BY <2>1
  <2>3. sec[PageWords + 0] = <<hash, 0>>
    BY <1>6, <2>2 DEF Holds
  <2> QED BY <1>6, <2>2, <2>3 DEF HasMagic
<1>8. ~HasMagic(sec[0])
  <2>1. 0 < PageWords /\ 0 \in Slot
    BY Geometry, SizesAssumption
  <2>2. sec[0] = Blank
    BY <1>1, <2>1 DEF IInv, ErasedInv
  <2> QED BY <2>2, ImagesAssumption DEF HasMagic, Blank
<1>9. PendingVerified'
  BY <1>2, <1>6, <1>7, <1>8 DEF PendingVerified, Holds, HasMagic
<1>10. CASE PowerOff
  BY <1>3, <1>5, <1>9, <1>10, PowerOffResult DEF IInv, TypeOK
<1>11. AckedStored /\ (UNCHANGED acked => AckedStored')
  BY <1>2 DEF IInv, AckedInv, AckedStored
<1>12. CASE /\ Fail("PENDING")
            /\ UNCHANGED <<mode, confirm, size, hash, next, eraseOffset, acked>>
  BY <1>1, <1>2, <1>3, <1>5, <1>9, <1>11, <1>12, FailResult
     DEF IInv, TypeOK, Running, Errors
<1>13. CASE /\ trailer' = "good" /\ state' = "COMPLETE" /\ error' = "NONE"
            /\ UNCHANGED <<mode, size, hash, next, eraseOffset, confirm, acked>>
  <2>1. UpdateTypes' /\ AckedTypes'
    BY <1>13 DEF IInv, TypeOK, UpdateTypes, AckedTypes, States, Errors
  <2>2. PhaseInv' /\ ErasedInv'
    BY <1>1, <1>2, <1>13 DEF IInv, PhaseInv, ErasedInv, Active
  <2>3. CompleteMeansPending'
    BY <1>2, <1>6, <1>13 DEF CompleteMeansPending, DigestMatches, Holds
  <2>4. AckedInv'
    BY <1>11, <1>13 DEF AckedInv, Active
  <2> QED BY <1>3, <1>5, <1>9, <2>1, <2>2, <2>3, <2>4 DEF IInv, TypeOK
<1> QED BY <1>10, <1>12, <1>13 DEF Finish, FailOrPowerOff

(* FW_FINISH refuses data that is not the announced image.                 *)
LEMMA FinishRefusedStep ==
  ASSUME IInv, FinishRefused
  PROVE  IInv'
<1>1. UNCHANGED <<mode, size, hash, next, eraseOffset, confirm, sec, trailer, primary,
                  primaryState, backup, acked>>
  BY DEF FinishRefused, flashVars, bootVars
<1>2. PICK e \in {"HASH", "MAGIC"} : Fail(e)
  BY DEF FinishRefused
<1>3. state # "IDLE" /\ Running /\ e \in Errors
  BY DEF FinishRefused, FinishAllowed, Errors
<1>4. FlashTypes' /\ BootTypes'
  BY <1>1 DEF IInv, TypeOK, FlashTypes, BootTypes
<1>5. PendingVerified'
  BY <1>1, PendingKept DEF IInv
<1>6. AckedStored'
  BY <1>1 DEF IInv, AckedInv, AckedStored
<1> QED BY <1>1, <1>2, <1>3, <1>4, <1>5, <1>6, FailResult DEF IInv, TypeOK

(* FW_ABORT clears the RAM and leaves the flash alone.                     *)
LEMMA AbortStep ==
  ASSUME IInv, Abort
  PROVE  IInv'
<1>1. UNCHANGED <<mode, confirm, sec, trailer, primary, primaryState, backup>>
  BY DEF Abort, flashVars, bootVars
<1>2. /\ state' = "IDLE" /\ error' = "NONE" /\ size' = 0 /\ hash' = None
      /\ next' = 0 /\ eraseOffset' = 0 /\ acked' = NoneAcked
  BY DEF Abort, ResetUpdate
<1>3. UpdateTypes' /\ AckedTypes'
  BY <1>1, <1>2, Geometry, SizesAssumption
     DEF IInv, TypeOK, UpdateTypes, AckedTypes, NoneAcked, States, Errors
<1>4. FlashTypes' /\ BootTypes'
  BY <1>1 DEF IInv, TypeOK, FlashTypes, BootTypes
<1>5. PhaseInv' /\ RollbackIntact'
  BY <1>1, <1>2 DEF IInv, PhaseInv, RollbackIntact, Active
<1>6. ErasedInv' /\ CompleteMeansPending'
  BY <1>2 DEF ErasedInv, CompleteMeansPending
<1>7. AckedInv'
  BY <1>2 DEF AckedInv, AckedStored, NoneAcked, Active
<1>8. PendingVerified'
  BY <1>1, PendingKept DEF IInv
<1> QED BY <1>3, <1>4, <1>5, <1>6, <1>7, <1>8 DEF IInv, TypeOK

----------------------------------------------------------------------------
(* The main task, power, and the boot loader.                              *)

(* The main task confirms the image while no update has begun.             *)
LEMMA ConfirmationStep ==
  ASSUME IInv, Confirmation
  PROVE  IInv'
<1>1. CASE ConfirmStart \/ ConfirmDone
  <2>1. /\ UNCHANGED <<mode, state, error, size, hash, next, eraseOffset, sec, trailer,
                       primary, backup, acked>>
        /\ mode = "app" /\ confirm \in {"wait", "writing"}
        /\ confirm' \in {"writing", "done"}
        /\ confirm' = "done" => primaryState' # "test"
        /\ primaryState' \in {primaryState, "ok"}
    BY <1>1 DEF ConfirmStart, ConfirmDone, Running, updateVars, flashVars, bootVars
  <2>2. UpdateTypes' /\ FlashTypes' /\ BootTypes' /\ AckedTypes'
    BY <2>1 DEF IInv, TypeOK, UpdateTypes, FlashTypes, BootTypes, AckedTypes
  <2>3. PhaseInv'
    BY <2>1 DEF IInv, PhaseInv, Active
  <2>4. RollbackIntact'
    BY <2>1 DEF IInv, RollbackIntact
  <2>5. ErasedInv' /\ CompleteMeansPending' /\ AckedInv'
    BY <2>1 DEF IInv, PhaseInv, ErasedInv, CompleteMeansPending, AckedInv, AckedStored,
       Active
  <2>6. PendingVerified'
    BY <2>1, PendingKept DEF IInv
  <2> QED BY <2>2, <2>3, <2>4, <2>5, <2>6 DEF IInv, TypeOK
<1>2. CASE ConfirmFails
  <2>1. /\ UNCHANGED <<sec, trailer, primary, backup>> /\ PowerOff
        /\ primaryState = "test" /\ primaryState' \in {"test", "ok"}
    BY <1>2 DEF ConfirmFails, flashVars
  <2>2. FlashTypes' /\ BootTypes'
    BY <2>1 DEF IInv, TypeOK, FlashTypes, BootTypes
  <2>3. RollbackIntact'
    BY <2>1 DEF IInv, RollbackIntact
  <2>4. PendingVerified'
    BY <2>1, PendingKept DEF IInv
  <2> QED BY <2>1, <2>2, <2>3, <2>4, PowerOffResult DEF IInv, TypeOK
<1> QED BY <1>1, <1>2 DEF Confirmation

(* A power cut between operations.                                         *)
LEMMA PowerCutStep ==
  ASSUME IInv, PowerCut
  PROVE  IInv'
<1>1. UNCHANGED <<sec, trailer, primary, primaryState, backup>> /\ PowerOff
  BY DEF PowerCut, flashVars, bootVars
<1>2. FlashTypes' /\ BootTypes'
  BY <1>1 DEF IInv, TypeOK, FlashTypes, BootTypes
<1>3. RollbackIntact'
  BY <1>1 DEF IInv, RollbackIntact
<1>4. PendingVerified'
  BY <1>1, PendingKept DEF IInv
<1> QED BY <1>1, <1>2, <1>3, <1>4, PowerOffResult DEF IInv, TypeOK

(* A boot touches no RAM state of the update.                              *)
LEMMA BootKeeps ==
  ASSUME IInv, mode = "off", mode' = "app", UNCHANGED <<updateVars, confirm, acked>>
  PROVE  /\ state = "IDLE" /\ UpdateTypes' /\ AckedTypes' /\ PhaseInv' /\ ErasedInv'
         /\ CompleteMeansPending' /\ AckedInv'
<1>1. /\ state = "IDLE" /\ confirm = "wait"
      /\ UNCHANGED <<state, error, size, hash, next, eraseOffset, confirm, acked>>
  BY DEF IInv, PhaseInv, updateVars
<1>2. UpdateTypes' /\ AckedTypes'
  BY <1>1 DEF IInv, TypeOK, UpdateTypes, AckedTypes
<1>3. PhaseInv'
  BY <1>1 DEF IInv, PhaseInv, Active
<1>4. ErasedInv' /\ CompleteMeansPending'
  BY <1>1 DEF ErasedInv, CompleteMeansPending
<1>5. AckedInv'
  BY <1>1 DEF IInv, AckedInv, AckedStored, NoneAcked, Active
<1> QED BY <1>1, <1>2, <1>3, <1>4, <1>5

(* The boot loader swaps, wipes, reverts, or just starts the image.        *)
LEMMA BootStep ==
  ASSUME IInv, Boot
  PROVE  IInv'
<1>1. Blank \in Word /\ Garbage \in Word
  BY DEF Blank, Garbage, Word
<1>2. ASSUME NEW i \in Images, BootTest(i) PROVE IInv'
  <2>1. /\ mode = "off" /\ mode' = "app" /\ UNCHANGED <<updateVars, confirm, acked>>
        /\ primary' = i /\ primaryState' = "test" /\ backup' = primary
        /\ sec' = [w \in Slot |->
                     IF w < Length[primary] THEN <<primary, w>> ELSE Garbage]
        /\ trailer' = "unset"
    BY <1>2 DEF BootTest, Booted
  <2>2. primary \in Images
    BY DEF IInv, TypeOK, BootTypes
  <2>3. \A w \in Slot : <<primary, w>> \in Word
    BY <2>2 DEF Word, Slot
  <2>4. FlashTypes' /\ BootTypes'
    BY <1>1, <2>1, <2>2, <2>3 DEF FlashTypes, BootTypes
  <2>5. RollbackIntact'
    <3>1. \A w \in 0 .. (Length[primary] - 1) : w \in Slot /\ w < Length[primary]
      BY <2>2, Geometry
    <3> QED BY <2>1, <3>1 DEF RollbackIntact
  <2>6. PendingVerified'
    BY <2>1, NotPending
  <2> QED BY <2>1, <2>4, <2>5, <2>6, BootKeeps DEF IInv, TypeOK
<1>3. CASE BootReject
  <2>1. /\ mode = "off" /\ mode' = "app" /\ UNCHANGED <<updateVars, confirm, acked>>
        /\ sec' = [w \in Slot |-> Blank] /\ trailer' = "unset" /\ trailer = "good"
        /\ UNCHANGED <<primary, primaryState, backup>>
    BY <1>3 DEF BootReject, Booted, bootVars
  <2>2. FlashTypes' /\ BootTypes'
    BY <1>1, <2>1 DEF IInv, TypeOK, FlashTypes, BootTypes
  <2>3. RollbackIntact'
    BY <2>1 DEF IInv, RollbackIntact
  <2>4. PendingVerified'
    BY <2>1, NotPending
  <2> QED BY <2>1, <2>2, <2>3, <2>4, BootKeeps DEF IInv, TypeOK
<1>4. CASE BootRevert
  <2>1. /\ mode = "off" /\ mode' = "app" /\ UNCHANGED <<updateVars, confirm, acked>>
        /\ sec' = [w \in Slot |-> Garbage] /\ trailer' = "unset"
        /\ primaryState = "test" /\ primaryState' = "ok" /\ primary' = sec[0][1]
        /\ UNCHANGED backup
    BY <1>4 DEF BootRevert, Booted
  <2>2. primary' = backup /\ backup \in Images
    <3>1. backup \in Images
      BY DEF IInv, TypeOK, BootTypes
    <3>2. 0 \in 0 .. (Length[backup] - 1)
      BY <3>1, Geometry
    <3>3. sec[0] = <<backup, 0>>
      BY <2>1, <3>2 DEF IInv, RollbackIntact
    <3> QED BY <2>1, <3>1, <3>3
  <2>3. FlashTypes' /\ BootTypes'
    BY <1>1, <2>1, <2>2 DEF FlashTypes, BootTypes
  <2>4. RollbackIntact'
    BY <2>1 DEF RollbackIntact
  <2>5. PendingVerified'
    BY <2>1, NotPending
  <2> QED BY <2>1, <2>3, <2>4, <2>5, BootKeeps DEF IInv, TypeOK
<1>5. CASE BootPlain
  <2>1. /\ mode = "off" /\ mode' = "app" /\ UNCHANGED <<updateVars, confirm, acked>>
        /\ UNCHANGED <<sec, trailer, primary, primaryState, backup>>
    BY <1>5 DEF BootPlain, Booted, flashVars, bootVars
  <2>2. FlashTypes' /\ BootTypes'
    BY <2>1 DEF IInv, TypeOK, FlashTypes, BootTypes
  <2>3. RollbackIntact'
    BY <2>1 DEF IInv, RollbackIntact
  <2>4. PendingVerified'
    BY <2>1, PendingKept DEF IInv
  <2> QED BY <2>1, <2>2, <2>3, <2>4, BootKeeps DEF IInv, TypeOK
<1> QED BY <1>2, <1>3, <1>4, <1>5 DEF Boot

----------------------------------------------------------------------------
(* The theorems.                                                           *)

(* A new device holds an installed image and anything in the other slot.   *)
LEMMA IInvInit ==
  ASSUME Init
  PROVE  IInv
<1>1. Blank \in Word /\ Garbage \in Word
  BY DEF Blank, Garbage, Word
<1>2. UpdateTypes
  BY Geometry, SizesAssumption DEF Init, UpdateTypes, States, Errors
<1>3. FlashTypes
  BY <1>1 DEF Init, FlashTypes
<1>4. BootTypes /\ AckedTypes
  BY ImagesAssumption DEF Init, BootTypes, AckedTypes, NoneAcked
<1>5. PhaseInv /\ RollbackIntact /\ ErasedInv /\ PendingVerified /\ CompleteMeansPending
  BY DEF Init, PhaseInv, RollbackIntact, ErasedInv, PendingVerified,
     CompleteMeansPending, Active
<1>6. AckedInv
  BY DEF Init, AckedInv, AckedStored, NoneAcked, Active
<1> QED BY <1>2, <1>3, <1>4, <1>5, <1>6 DEF IInv, TypeOK

(* Every command, with every partial effect, every power cut and every     *)
(* boot keeps the invariants.                                              *)
LEMMA IInvStep ==
  ASSUME IInv, [Next]_vars
  PROVE  IInv'
<1>1. CASE Command
  BY <1>1, BeginStep, StepStep, WriteStep, WriteAgainStep, FinishStep,
     FinishRefusedStep, AbortStep DEF Command
<1>2. CASE UNCHANGED vars
  <2>1. UNCHANGED <<mode, state, error, size, hash, next, eraseOffset, confirm, sec,
                    trailer, primary, primaryState, backup, acked>>
    BY <1>2 DEF vars, updateVars, flashVars, bootVars
  <2>2. TypeOK'
    BY <2>1 DEF IInv, TypeOK, UpdateTypes, FlashTypes, BootTypes, AckedTypes
  <2>3. PhaseInv' /\ RollbackIntact' /\ ErasedInv'
    BY <2>1 DEF IInv, PhaseInv, RollbackIntact, ErasedInv, Active
  <2>4. PendingVerified'
    BY <2>1, PendingKept DEF IInv
  <2>5. CompleteMeansPending' /\ AckedInv'
    BY <2>1 DEF IInv, CompleteMeansPending, DigestMatches, Holds, AckedInv, AckedStored,
       Active
  <2> QED BY <2>2, <2>3, <2>4, <2>5 DEF IInv
<1> QED BY <1>1, <1>2, ConfirmationStep, PowerCutStep, BootStep DEF Next

(* The offsets of an update never leave the slot and what boots is always  *)
(* an image, for every geometry of the flash.                              *)
THEOREM UpdateTypeCorrect == Spec => []TypeOK
<1>1. Init => IInv
  BY IInvInit
<1>2. IInv /\ [Next]_vars => IInv'
  BY IInvStep
<1>3. IInv => TypeOK
  BY DEF IInv
<1> QED BY <1>1, <1>2, <1>3, PTL DEF Spec

(* Whatever fails and whenever power is cut, the boot loader never finds a *)
(* half-written image scheduled: begin removes the trailer first, and      *)
(* finish writes it last.                                                  *)
THEOREM PendingIsVerified == Spec => []PendingVerified
<1>1. Init => IInv
  BY IInvInit
<1>2. IInv /\ [Next]_vars => IInv'
  BY IInvStep
<1>3. IInv => PendingVerified
  BY DEF IInv
<1> QED BY <1>1, <1>2, <1>3, PTL DEF Spec

(* An image on trial can always be reverted: updates are closed until the  *)
(* main task has confirmed the image.                                      *)
THEOREM RollbackIsPossible == Spec => []RollbackIntact
<1>1. Init => IInv
  BY IInvInit
<1>2. IInv /\ [Next]_vars => IInv'
  BY IInvStep
<1>3. IInv => RollbackIntact
  BY DEF IInv
<1> QED BY <1>1, <1>2, <1>3, PTL DEF Spec

(* What FW_WRITE has acknowledged is in flash, also after failed writes,   *)
(* repeated blocks and aborts.                                             *)
THEOREM AcknowledgedIsStored == Spec => []AckedStored
<1>1. Init => IInv
  BY IInvInit
<1>2. IInv /\ [Next]_vars => IInv'
  BY IInvStep
<1>3. IInv => AckedStored
  BY DEF IInv, AckedInv
<1> QED BY <1>1, <1>2, <1>3, PTL DEF Spec

(* COMPLETE, on which FW_REBOOT relies, means a scheduled, verified image. *)
THEOREM CompleteIsPending == Spec => []CompleteMeansPending
<1>1. Init => IInv
  BY IInvInit
<1>2. IInv /\ [Next]_vars => IInv'
  BY IInvStep
<1>3. IInv => CompleteMeansPending
  BY DEF IInv
<1> QED BY <1>1, <1>2, <1>3, PTL DEF Spec

(* The page-wise erase covers all an image may use, for every number and   *)
(* size of pages.                                                          *)
THEOREM WritesFindErasedFlash == Spec => []WriteTargetErased
<1>1. Init => IInv
  BY IInvInit
<1>2. IInv /\ [Next]_vars => IInv'
  BY IInvStep
<1>3. IInv => WriteTargetErased
  <2>1. ASSUME IInv, state \in {"READY", "RECEIVING"}, NEW k \in next .. (ImageMax - 1)
        PROVE  sec[PageWords + k] = Blank
    <3>1. next \in Nat /\ ImageMax \in Nat /\ PageWords \in Nat
      BY <2>1, Geometry, SizesAssumption DEF IInv, TypeOK, UpdateTypes
    <3>2. PageWords + k \in Slot /\ PageWords + k >= PageWords + next
      BY <3>1, Geometry
    <3> QED BY <2>1, <3>2 DEF IInv, ErasedInv
  <2> QED BY <2>1 DEF WriteTargetErased
<1> QED BY <1>1, <1>2, <1>3, PTL DEF Spec

(* The usb task never works on the flash while the main task is inside     *)
(* boot_set_confirmed.                                                     *)
THEOREM FlashHasOneUser == Spec => []FlashExclusive
<1>1. Init => IInv
  BY IInvInit
<1>2. IInv /\ [Next]_vars => IInv'
  BY IInvStep
<1>3. IInv => FlashExclusive
  BY DEF IInv, PhaseInv, FlashExclusive
<1> QED BY <1>1, <1>2, <1>3, PTL DEF Spec

(* An image that was not confirmed is replaced at the next boot by the one *)
(* it replaced, which is whole.                                            *)
THEOREM TrialEnds == Spec => UnconfirmedReverts
<1>1. Init => IInv
  BY IInvInit
<1>2. IInv /\ [Next]_vars => IInv'
  BY IInvStep
<1>3. ASSUME IInv, [Next]_vars
      PROVE  [mode = "off" /\ mode' = "app" /\ primaryState = "test" =>
                primary' = backup /\ primaryState' = "ok"]_vars
  <2> SUFFICES ASSUME mode = "off", mode' = "app", primaryState = "test"
               PROVE  primary' = backup /\ primaryState' = "ok"
    OBVIOUS
  <2>1. Boot
    BY <1>3 DEF Next, Command, Begin, Step, Write, WriteAgain, Finish, FinishRefused, Abort,
       Confirmation, ConfirmStart, ConfirmDone, ConfirmFails, PowerCut, Running, vars
  <2>2. trailer # "good"
    BY <1>3 DEF IInv, RollbackIntact
  <2>3. BootRevert
    BY <2>1, <2>2 DEF Boot, BootTest, BootReject, BootPlain
  <2>4. 0 \in 0 .. (Length[backup] - 1)
    BY <1>3, Geometry DEF IInv, TypeOK, BootTypes
  <2>5. sec[0] = <<backup, 0>>
    BY <1>3, <2>4 DEF IInv, RollbackIntact
  <2> QED BY <2>3, <2>5 DEF BootRevert
<1> QED BY <1>1, <1>2, <1>3, PTL DEF Spec, UnconfirmedReverts
=============================================================================
