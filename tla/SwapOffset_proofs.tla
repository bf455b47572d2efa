-------------------------- MODULE SwapOffset_proofs --------------------------
(***************************************************************************)
(* Theorems about MCUboot's swap (SwapOffset.tla), for slots and images of *)
(* every size: every variable keeps its type and no page outside a slot is *)
(* touched, and on a device that keeps its promises (Benign) no image that *)
(* may have to run again is ever lost, no cut ends in halt, and the boot   *)
(* loader implements BootSpec.                                             *)
(*                                                                         *)
(* The invariant says of every state which exchange is under way and how   *)
(* far it has got.  Its heart are the two layouts below: which page of     *)
(* which image lies where after p status entries.  An operation of the     *)
(* exchange writes only where the layout expects nothing, so that a cut in *)
(* it keeps the layout, and completed it reaches the next one.             *)
(***************************************************************************)
EXTENDS SwapOffset, TLAPS

(* Types: the operations stay inside the slots whatever is cut.            *)

(* The operations at which an index is used stay inside the slots.         *)
RangeInv ==
  /\ pc \in {"save", "move", "status"} => bs.pos \div 2 < bs.size
  /\ pc \in {"wipe", "overErase", "overCopy"} => bs.pos <= Pages

BootState ==
  [type: {"none", "test", "revert"}, primarySource: BOOLEAN,
   pos: 0 .. 2 * Pages + 1, size: 0 .. Pages, usedPri: 0 .. Pages, usedSec: 0 .. Pages]

LEMMA Sizes ==
  /\ Pages \in Nat /\ Pages > 0 /\ MaxCuts \in Nat
  /\ \A i \in Images : Size[i] \in Nat /\ 2 <= Size[i] /\ Size[i] <= Pages
  /\ \A i, j \in Images : Larger(Size[i], Size[j]) \in 2 .. Pages
  /\ None \notin Images /\ SignedImages \subseteq Images /\ Installed \in SignedImages
  /\ Updates \subseteq Images
<1>1. \A i \in Images : Size[i] \in 2 .. Pages
  BY SwapAssumption
<1> QED BY <1>1, SwapAssumption DEF Larger

LEMMA PageTypes ==
  /\ Blank \in Page /\ Junk \in Page
  /\ \A i \in Images, k \in 0 .. Pages : Whole(i, k) \in Page /\ Part(i, k) \in Page
  /\ \A i \in Images, off \in {0, 1} : StoredAt(off, i) \in [0 .. Pages -> Page]
  /\ \A p \in Page : TornCopy(p) \subseteq Page /\ TornErase(p) \subseteq Page
  /\ \A p \in Page : Header(p) \in Images \cup {None}
<1>1. Blank \in Page /\ Junk \in Page
  BY Sizes DEF Blank, Junk, Page
<1>2. \A i \in Images, k \in 0 .. Pages : Whole(i, k) \in Page /\ Part(i, k) \in Page
  BY DEF Whole, Part, Page
<1>3. ASSUME NEW i \in Images, NEW off \in {0, 1}, NEW k \in 0 .. Pages,
             k \in off .. (off + Size[i] - 1)
      PROVE  Whole(i, k - off) \in Page
  <2>1. k - off \in 0 .. Pages
    BY <1>3, Sizes
  <2> QED BY <1>2, <2>1
<1>4. \A i \in Images, off \in {0, 1} : StoredAt(off, i) \in [0 .. Pages -> Page]
  BY <1>1, <1>3 DEF StoredAt
<1>5. ASSUME NEW p \in Page
      PROVE  /\ TornCopy(p) \subseteq Page /\ TornErase(p) \subseteq Page
             /\ Header(p) \in Images \cup {None}
  <2>1. p[1] \in Images \cup {None} /\ p[2] \in 0 .. Pages
    BY DEF Page
  <2>2. p[1] # None => Part(p[1], p[2]) \in Page
    BY <1>2, <2>1
  <2> QED BY <1>1, <2>1, <2>2 DEF TornCopy, TornErase, Header
<1> QED BY <1>1, <1>2, <1>4, <1>5

LEMMA TrailerTypes ==
  /\ NoTrailer \in Trailer
  /\ \A t \in Trailer : TornTrailer(t) \subseteq Trailer /\ TornInit(t) \subseteq Trailer
  /\ \A t \in Trailer :
       /\ [t EXCEPT !.ok = TRUE] \in Trailer /\ [t EXCEPT !.done = TRUE] \in Trailer
       /\ \A n \in 0 .. 2 * Pages : [t EXCEPT !.status = n] \in Trailer
  /\ \A m \in {"unset", "bad", "good"} : [NoTrailer EXCEPT !.magic = m] \in Trailer
  /\ [NoTrailer EXCEPT !.magic = "good", !.type = "test"] \in Trailer
<1>1. NoTrailer \in Trailer
  BY Sizes DEF NoTrailer, Trailer
<1>2. \A t \in Trailer :
       /\ \A m \in {"unset", "bad", "good"} : [t EXCEPT !.magic = m] \in Trailer
       /\ [t EXCEPT !.ok = TRUE] \in Trailer /\ [t EXCEPT !.done = TRUE] \in Trailer
       /\ \A n \in 0 .. 2 * Pages : [t EXCEPT !.status = n] \in Trailer
  BY DEF Trailer
<1>3. \A m \in {"unset", "bad", "good"} : [NoTrailer EXCEPT !.magic = m] \in Trailer
  BY <1>1 DEF Trailer
<1>4. [NoTrailer EXCEPT !.magic = "good", !.type = "test"] \in Trailer
  BY <1>1 DEF Trailer
<1>5. \A t \in Trailer : TornTrailer(t) \subseteq Trailer
  BY <1>3 DEF TornTrailer
<1>6. \A t \in Trailer : TornInit(t) \subseteq Trailer
  BY <1>2 DEF TornInit
<1> QED BY <1>1, <1>2, <1>3, <1>4, <1>5, <1>6

LEMMA StoredHeader ==
  ASSUME NEW slot, NEW off \in {0, 1}, NEW i \in Images, Stored(slot, off, i)
  PROVE  slot[off] = Whole(i, 0) /\ Header(slot[off]) = i
<1>1. 0 \in 0 .. (Size[i] - 1) /\ off + 0 = off
  BY Sizes
<1>2. slot[off] = Whole(i, 0)
  BY <1>1 DEF Stored
<1> QED BY <1>2, Sizes DEF Header, Whole

(* A cut, and what a step may do to the registers of the boot loader.      *)
LEMMA CutTypes ==
  ASSUME TypeOK, Cut
  PROVE  pc' = "boot" /\ bs' \in BootState /\ cuts' \in 0 .. MaxCuts /\ cuts' = cuts + 1
         /\ RangeInv'
<1>1. NoStatus \in BootState
  BY Sizes DEF NoStatus, BootState
<1> QED BY <1>1, Sizes DEF Cut, TypeOK, RangeInv

Operations ==
  {"app", "boot", "halt", "check", "fixErase", "fixInit", "initErase",
   "initStatus", "clearSec", "save", "move", "status", "spare", "tail",
   "imageOk", "copyDone", "wipe", "wipeTail", "overErase", "overCopy"}

(* CopyStep leads to a copy only within the exchange.                      *)
LEMMA CopyStepResult ==
  ASSUME NEW b \in BootState
  PROVE  /\ CopyStep(b) \in {"save", "move", "spare", "copyDone"}
         /\ CopyStep(b) = "save" => b.pos \div 2 < b.size /\ b.pos % 2 = 0
         /\ CopyStep(b) = "move" => b.pos \div 2 < b.size /\ b.pos % 2 # 0
         /\ CopyStep(b) = "spare" => ~(b.pos \div 2 < b.size) /\ b.type = "revert"
         /\ CopyStep(b) = "copyDone" => ~(b.pos \div 2 < b.size) /\ b.type # "revert"
BY DEF CopyStep

LEMMA FirstStepResult ==
  ASSUME NEW type
  PROVE  /\ FirstStep(type) \in {"fixErase", "clearSec", "initErase"}
         /\ FirstStep(type) = "fixErase" <=> type = "revert" /\ secT.magic = "unset"
         /\ FirstStep(type) = "clearSec" <=>
              ~(type = "revert" /\ secT.magic = "unset") /\ Source
BY DEF FirstStep

(* The decision at boot.                                                   *)
LEMMA DecideTypes ==
  ASSUME TypeOK, StartSwap \/ StartOverwrite \/ StartWipe \/ NothingToDo \/ Resume
  PROVE  TypeOK' /\ RangeInv'
<1>1. Wanted \in {"none", "test", "revert"} /\ Source \in BOOLEAN
  BY DEF Wanted, Source, SwapType, TypeOK, Trailer
<1>2. /\ UNCHANGED <<pri, priT, sec, secT, running, onTrial, fallback, scheduled>>
      /\ cuts' = cuts
  BY DEF StartSwap, StartOverwrite, StartWipe, NothingToDo, Resume, flash, history, Go
<1>3. SUFFICES pc' \in Operations /\ bs' \in BootState /\ RangeInv'
  BY <1>2 DEF TypeOK, Operations, BootState
<1>4. /\ bs \in BootState /\ priT \in Trailer
      /\ \A k \in 0 .. Pages : sec[k] \in Page
      /\ \A k \in 0 .. (Pages - 1) : pri[k] \in Page
  BY DEF TypeOK, BootState
<1>5. NoStatus \in BootState
  BY Sizes DEF NoStatus, BootState
<1>6. CASE StartSwap
  <2>1. PICK i \in SignedImages : Stored(pri, 0, i)
    BY <1>6 DEF StartSwap, PrimaryValid
  <2>3. Header(pri[0]) = i
    BY <2>1, StoredHeader, Sizes
  <2>4. SecondaryHeader \in Images
    BY <1>6, Sizes DEF StartSwap, SecondaryValid
  <2> DEFINE s == Larger(Size[i], Size[SecondaryHeader])
  <2>5. s \in 0 .. Pages /\ Size[i] \in 0 .. Pages /\ Size[SecondaryHeader] \in 0 .. Pages
    BY <2>1, <2>4, Sizes
  <2>6. bs' = [NoStatus EXCEPT
              !.type = Wanted, !.primarySource = Source,
              !.size = s, !.usedPri = Size[i], !.usedSec = Size[SecondaryHeader]]
    BY <1>6, <2>3 DEF StartSwap
  <2> HIDE DEF s
  <2>7. bs' \in BootState
    BY <1>1, <1>5, <2>5, <2>6 DEF BootState
  <2> QED BY <1>6, <2>7, FirstStepResult DEF StartSwap, Go, Operations, RangeInv
<1>7. CASE StartOverwrite
  <2>1. bs' \in BootState /\ bs'.pos = 0
    BY <1>1, <1>5, <1>7 DEF StartOverwrite, BootState, NoStatus
  <2> QED BY <1>7, <2>1, Sizes DEF StartOverwrite, Go, Operations, RangeInv
<1>8. CASE StartWipe
  <2>1. bs' \in BootState /\ bs'.pos = 0
    BY <1>1, <1>5, <1>8 DEF StartWipe, BootState, NoStatus
  <2> QED BY <1>8, <2>1, Sizes DEF StartWipe, Go, Operations, RangeInv
<1>9. CASE NothingToDo
  BY <1>4, <1>9 DEF NothingToDo, Go, Operations, RangeInv
<1>10. CASE Resume
  <2>1. CASE HeadersRead
    <3>1. 0 \in 0 .. (Pages - 1) /\ 0 \in 0 .. Pages /\ 1 \in 0 .. Pages
      BY Sizes
    <3>2. Header(pri[0]) \in Images \cup {None} /\ Header(sec[0]) \in Images \cup {None}
          /\ Header(sec[1]) \in Images \cup {None}
      BY <1>4, <3>1, PageTypes
    <3>3. ResumedPriHeader \in Images /\ ResumedSecHeader \in Images
      BY <2>1, <3>2 DEF HeadersRead, ResumedPriHeader, ResumedSecHeader
    <3>4. Size[ResumedPriHeader] \in 0 .. Pages /\ Size[ResumedSecHeader] \in 0 .. Pages
      BY <3>3, Sizes
    <3>5. bs' = [type |-> priT.type, primarySource |-> TRUE,
                      pos |-> priT.status, size |-> priT.size,
                      usedPri |-> Size[ResumedPriHeader], usedSec |-> Size[ResumedSecHeader]]
      BY <1>10, <2>1 DEF Resume, ResumeAt
    <3>6. bs' \in BootState
      BY <1>4, <3>4, <3>5, Sizes DEF BootState, Trailer
    <3>7. pc' = IF bs'.pos < 2 THEN FirstStep(bs'.type) ELSE CopyStep(bs')
      BY <1>10, <2>1 DEF Resume, Go
    <3>8. bs'.type \in {"none", "test", "revert"}
      BY <3>6 DEF BootState
    <3> QED BY <3>6, <3>7, <3>8, CopyStepResult, FirstStepResult DEF Operations, RangeInv
  <2>2. CASE ~HeadersRead
    BY <1>4, <1>10, <2>2 DEF Resume, Go, Operations, RangeInv
  <2> QED BY <2>1, <2>2
<1> QED BY <1>6, <1>7, <1>8, <1>9, <1>10

(* The trailers prepared and finished.                                     *)
LEMMA TrailerStepTypes ==
  ASSUME TypeOK, FixupErase \/ FixupInit \/ InitErase \/ InitStatus \/ ClearSec
                   \/ EraseTail \/ WipeTail \/ SetImageOk \/ SetCopyDone
  PROVE  TypeOK' /\ RangeInv'
<1>1. /\ UNCHANGED <<pri, sec, running, onTrial, fallback, scheduled>>
      /\ bs \in BootState
  BY DEF FixupErase, FixupInit, InitErase, InitStatus, ClearSec, EraseTail, WipeTail,
         SetImageOk, SetCopyDone, history, TypeOK, BootState
<1>2. InitialTrailer \in Trailer /\ [InitialTrailer EXCEPT !.done = TRUE] \in Trailer
  <2>1. bs.type \in {"none", "test", "revert"} /\ bs.size \in 0 .. Pages /\ secT.ok \in BOOLEAN
    BY <1>1 DEF BootState, TypeOK, Trailer
  <2>2. InitialTrailer \in Trailer
    BY <2>1, TrailerTypes DEF InitialTrailer, Trailer
  <2> QED BY <2>2, TrailerTypes
<1>3. priT' \in Trailer /\ secT' \in Trailer
  BY <1>2, TrailerTypes
     DEF FixupErase, FixupInit, InitErase, InitStatus, ClearSec, EraseTail, WipeTail,
         SetImageOk, SetCopyDone, TypeOK
<1>4. bs' \in BootState /\ cuts' \in 0 .. MaxCuts
  BY <1>1, CutTypes
     DEF FixupErase, FixupInit, InitErase, InitStatus, ClearSec, EraseTail, WipeTail,
         SetImageOk, SetCopyDone, Go, TypeOK
<1>5. pc' \in Operations /\ RangeInv'
  <2>1. CASE Cut
    BY <2>1, CutTypes DEF Operations
  <2>2. CASE cuts' = cuts /\ bs' = bs /\ pc' \in {"fixInit", "initErase", "initStatus",
              "clearSec", "imageOk", "copyDone", "check"}
    BY <2>2 DEF Operations, RangeInv
  <2>3. CASE cuts' = cuts /\ bs' = bs /\ pc' = CopyStep(bs)
    BY <1>1, <2>3, CopyStepResult DEF Operations, RangeInv
  <2> QED BY <2>1, <2>2, <2>3
       DEF FixupErase, FixupInit, InitErase, InitStatus, ClearSec, EraseTail, WipeTail,
         SetImageOk, SetCopyDone, Go
<1> QED BY <1>1, <1>3, <1>4, <1>5 DEF TypeOK, Operations, BootState

(* The exchange of pages.                                                  *)
LEMMA CopyTypes ==
  ASSUME TypeOK, RangeInv, SavePage \/ MovePage \/ WriteStatus
  PROVE  TypeOK' /\ RangeInv'
<1>1. /\ bs \in BootState /\ bs.pos \div 2 \in Nat /\ bs.size \in Nat
      /\ bs.pos \div 2 < bs.size /\ bs.size <= Pages
  BY DEF TypeOK, BootState, RangeInv, SavePage, MovePage, WriteStatus, At
<1>2. Index \in 0 .. (Pages - 1)
  BY <1>1, Sizes DEF Index
<1>3. Index \in 0 .. Pages /\ Index + 1 \in 0 .. Pages
  BY <1>2, Sizes
<1>4. pri \in [0 .. (Pages - 1) -> Page] /\ sec \in [0 .. Pages -> Page]
  BY DEF TypeOK
<1>5. \A p \in Page, k \in 0 .. Pages : [sec EXCEPT ![k] = p] \in [0 .. Pages -> Page]
  BY <1>4
<1>6. \A p \in Page, k \in 0 .. (Pages - 1) :
        [pri EXCEPT ![k] = p] \in [0 .. (Pages - 1) -> Page]
  BY <1>4
<1>7. CASE SavePage
  <2>1. pri[Index] \in Page /\ TornCopy(pri[Index]) \subseteq Page
    BY <1>2, <1>4, PageTypes
  <2>2. sec' \in [0 .. Pages -> Page]
    BY <1>3, <1>4, <1>5, <1>7, <2>1 DEF SavePage
  <2>3. \/ pc' = "status" /\ cuts' = cuts /\ bs' = bs
        \/ Cut
    BY <1>7 DEF SavePage, Go
  <2> QED BY <1>1, <1>7, <2>2, <2>3, CutTypes DEF SavePage, TypeOK, BootState, RangeInv, history
<1>8. CASE MovePage
  <2>1. \A k \in {Index, Index + 1} : sec[k] \in Page /\ TornCopy(sec[k]) \subseteq Page
    BY <1>3, <1>4, PageTypes
  <2>2. pri' \in [0 .. (Pages - 1) -> Page]
    BY <1>2, <1>4, <1>6, <1>8, <2>1 DEF MovePage
  <2>3. \/ pc' = "status" /\ cuts' = cuts /\ bs' = bs
        \/ Cut
    BY <1>8 DEF MovePage, Go
  <2> QED BY <1>1, <1>8, <2>2, <2>3, CutTypes DEF MovePage, TypeOK, BootState, RangeInv, history
<1>9. CASE WriteStatus
  <2>1. bs.pos \in Nat /\ bs.pos + 1 \in 0 .. 2 * Pages /\ bs.pos + 1 \in 0 .. 2 * Pages + 1
    BY <1>1, Sizes DEF BootState
  <2>2. bs' \in BootState
    BY <1>1, <1>9, <2>1 DEF WriteStatus, BootState
  <2>3. priT' \in Trailer
    BY <1>9, <2>1, TrailerTypes DEF WriteStatus, TypeOK
  <2>4. pc' = CopyStep(bs') /\ cuts' = cuts
    BY <1>9 DEF WriteStatus, Go
  <2> QED BY <1>9, <2>2, <2>3, <2>4, CopyStepResult
       DEF WriteStatus, TypeOK, BootState, RangeInv, history
<1> QED BY <1>7, <1>8, <1>9

(* Pages erased, and the copy that replaces what does not boot.            *)
LEMMA EraseTypes ==
  ASSUME TypeOK, RangeInv, EraseSpare \/ Wipe \/ OverErase \/ OverCopy
  PROVE  TypeOK' /\ RangeInv'
<1>1. /\ bs \in BootState /\ 0 \in 0 .. Pages
      /\ pc \in {"wipe", "overErase", "overCopy"} =>
           bs.pos \in 0 .. Pages /\ bs.pos + 1 \in 0 .. 2 * Pages + 1
      /\ pc \in {"wipe", "overErase", "overCopy"} /\ bs.pos # Pages =>
           bs.pos \in 0 .. (Pages - 1) /\ bs.pos + 1 \in 0 .. Pages
  <2>1. bs \in BootState /\ bs.pos \in Nat
    BY Sizes DEF TypeOK, BootState
  <2>2. pc \in {"wipe", "overErase", "overCopy"} => bs.pos <= Pages
    BY DEF RangeInv
  <2>3. Pages \in Nat /\ Pages > 0
    BY Sizes
  <2> QED BY <2>1, <2>2, <2>3
<1>2. pri \in [0 .. (Pages - 1) -> Page] /\ sec \in [0 .. Pages -> Page] /\ Blank \in Page
      /\ priT \in Trailer /\ secT \in Trailer
  BY PageTypes DEF TypeOK
<1>3. /\ \A p \in Page, k \in 0 .. Pages : [sec EXCEPT ![k] = p] \in [0 .. Pages -> Page]
      /\ \A k \in 0 .. Pages : TornErase(sec[k]) \subseteq Page
  BY <1>2, PageTypes
<1>4. \A p \in Page, k \in 0 .. (Pages - 1) :
        [pri EXCEPT ![k] = p] \in [0 .. (Pages - 1) -> Page]
  BY <1>2
<1>5. \A n \in 0 .. 2 * Pages + 1 : [bs EXCEPT !.pos = n] \in BootState
  BY <1>1 DEF BootState
<1>6. CASE EraseSpare
  <2>1. sec' \in [0 .. Pages -> Page]
    BY <1>1, <1>2, <1>3, <1>6 DEF EraseSpare
  <2>2. \/ pc' = "tail" /\ cuts' = cuts /\ bs' = bs
        \/ Cut
    BY <1>6 DEF EraseSpare, Go
  <2> QED BY <1>1, <1>2, <1>6, <2>1, <2>2, CutTypes
       DEF EraseSpare, TypeOK, BootState, RangeInv, history
<1>7. CASE Wipe
  <2>1. sec' \in [0 .. Pages -> Page]
    BY <1>1, <1>2, <1>3, <1>7 DEF Wipe, At
  <2>2. \/ /\ pc' = (IF bs.pos = Pages THEN "wipeTail" ELSE "wipe") /\ cuts' = cuts
           /\ bs' = [bs EXCEPT !.pos = bs.pos + 1]
        \/ Cut
    BY <1>7 DEF Wipe, Go
  <2>3. bs' \in BootState
    BY <1>1, <1>5, <1>7, <2>2, CutTypes DEF Wipe, At
  <2>4. RangeInv'
    BY <1>1, <1>7, <2>2, CutTypes DEF Wipe, At, RangeInv, BootState
  <2>5. cuts' \in 0 .. MaxCuts /\ pc' \in {"boot", "wipe", "wipeTail"}
    BY <2>2, CutTypes DEF TypeOK
  <2> QED BY <1>2, <1>7, <2>1, <2>3, <2>4, <2>5 DEF Wipe, TypeOK, BootState, history
<1>8. CASE OverErase
  <2>1. pri' \in [0 .. (Pages - 1) -> Page] /\ priT' \in Trailer
    BY <1>1, <1>2, <1>4, <1>8, TrailerTypes DEF OverErase, At
  <2>2. bs' \in BootState
    BY <1>1, <1>5, <1>8 DEF OverErase, At
  <2>3. RangeInv'
    BY <1>1, <1>8 DEF OverErase, At, RangeInv, BootState, Go
  <2>4. pc' \in {"overErase", "overCopy"} /\ cuts' = cuts
    BY <1>8 DEF OverErase, Go
  <2> QED BY <1>2, <1>8, <2>1, <2>2, <2>3, <2>4 DEF OverErase, TypeOK, BootState, history
<1>9. CASE OverCopy
  <2>1. bs.pos # Pages => /\ sec[bs.pos + 1] \in Page /\ TornCopy(sec[bs.pos + 1]) \subseteq Page
                          /\ bs.pos \in 0 .. (Pages - 1)
    BY <1>1, <1>2, <1>9, PageTypes DEF OverCopy, At
  <2>2. pri' \in [0 .. (Pages - 1) -> Page] /\ priT' \in Trailer
    BY <1>2, <1>4, <1>9, <2>1 DEF OverCopy
  <2>3. \/ /\ pc' = (IF bs.pos = Pages THEN "spare" ELSE "overCopy") /\ cuts' = cuts
           /\ bs' = [bs EXCEPT !.pos = bs.pos + 1]
        \/ Cut
    BY <1>9 DEF OverCopy, Go
  <2>4. bs' \in BootState
    BY <1>1, <1>5, <1>9, <2>3, CutTypes DEF OverCopy, At
  <2>5. RangeInv'
    BY <1>1, <1>9, <2>3, CutTypes DEF OverCopy, At, RangeInv, BootState
  <2>6. cuts' \in 0 .. MaxCuts /\ pc' \in {"boot", "spare", "overCopy"}
    BY <2>3, CutTypes DEF TypeOK
  <2> QED BY <1>2, <1>9, <2>2, <2>4, <2>5, <2>6 DEF OverCopy, TypeOK, BootState, history
<1> QED BY <1>6, <1>7, <1>8, <1>9

LEMMA FinalCheckTypes ==
  ASSUME TypeOK, FinalCheck
  PROVE  TypeOK' /\ RangeInv'
<1>1. NoStatus \in BootState /\ 0 \in 0 .. MaxCuts
  BY Sizes DEF NoStatus, BootState
<1>2. pri' = pri /\ sec' = sec /\ priT' = priT /\ secT' = secT /\ bs' = NoStatus
  BY DEF FinalCheck, flash
<1>3. CASE PrimaryValid
  <2>1. PICK i \in SignedImages : Stored(pri, 0, i)
    BY <1>3 DEF PrimaryValid
  <2>2. Header(pri[0]) \in Images
    BY <2>1, StoredHeader, Sizes
  <2>3. Unconfirmed \in BOOLEAN
    BY DEF Unconfirmed, TypeOK, Trailer
  <2> QED BY <1>1, <1>2, <1>3, <2>2, <2>3 DEF FinalCheck, TypeOK, BootState, RangeInv
<1>4. CASE ~PrimaryValid
  BY <1>1, <1>2, <1>4 DEF FinalCheck, Go, history, TypeOK, BootState, RangeInv
<1> QED BY <1>3, <1>4

LEMMA AppTypes ==
  ASSUME TypeOK, AppStep
  PROVE  TypeOK' /\ RangeInv'
<1>1. CASE \E i \in Updates : Update(i)
  <2>1. PICK i \in Updates : Update(i)
    BY <1>1
  <2>2. sec' \in [0 .. Pages -> Page] /\ i \in Images
    BY <2>1, Sizes, PageTypes DEF Update
  <2>3. secT' \in Trailer /\ scheduled' \in Images \cup {None}
    BY <2>1, <2>2, TrailerTypes DEF Update
  <2> QED BY <2>1, <2>2, <2>3 DEF Update, At, TypeOK, RangeInv
<1>2. CASE Confirm
  <2>1. priT' \in Trailer
    BY <1>2, TrailerTypes DEF Confirm, TypeOK
  <2> QED BY <1>2, <2>1 DEF Confirm, At, TypeOK, RangeInv
<1>3. CASE Reset
  BY <1>3 DEF Reset, At, TypeOK, RangeInv, flash, history
<1> QED BY <1>1, <1>2, <1>3 DEF AppStep

LEMMA InitTypes == Init => TypeOK /\ RangeInv
<1> SUFFICES ASSUME Init PROVE TypeOK /\ RangeInv
  OBVIOUS
<1>1. pri \in [0 .. (Pages - 1) -> Page] /\ sec \in [0 .. Pages -> Page]
  <2>1. Installed \in Images
    BY Sizes
  <2>2. \A off \in {0, 1} : StoredAt(off, Installed) \in [0 .. Pages -> Page]
    BY <2>1, PageTypes
  <2>3. \A k \in 0 .. (Pages - 1) : k \in 0 .. Pages
    BY Sizes
  <2>4. \A k \in 0 .. (Pages - 1) : StoredAt(0, Installed)[k] \in Page
    BY <2>2, <2>3
  <2> QED BY <2>2, <2>4, PageTypes DEF Init
<1>2. bs \in BootState /\ cuts \in 0 .. MaxCuts
  BY Sizes DEF Init, NoStatus, BootState
<1> QED BY <1>1, <1>2, Sizes, TrailerTypes DEF Init, TypeOK, RangeInv, BootState

LEMMA TypeStep == TypeOK /\ RangeInv /\ [Next]_vars => TypeOK' /\ RangeInv'
<1> SUFFICES ASSUME TypeOK, RangeInv, [Next]_vars PROVE TypeOK' /\ RangeInv'
  OBVIOUS
<1>1. CASE PowerCut
  <2>1. UNCHANGED <<pri, priT, sec, secT, running, onTrial, fallback, scheduled>> /\ Cut
    BY <1>1 DEF PowerCut, flash, history
  <2> QED BY <2>1, CutTypes DEF TypeOK, BootState
<1>2. CASE BootStep
  BY <1>2, DecideTypes, TrailerStepTypes, CopyTypes, EraseTypes, FinalCheckTypes DEF BootStep
<1>3. CASE AppStep
  BY <1>3, AppTypes
<1>4. CASE UNCHANGED vars
  BY <1>4 DEF vars, flash, history, TypeOK, RangeInv
<1> QED BY <1>1, <1>2, <1>3, <1>4 DEF Next

(* Every variable keeps its type, for slots and images of every size.      *)
THEOREM SwapTypeCorrect == Spec => []TypeOK
<1> QED BY InitTypes, TypeStep, PTL DEF Spec

----------------------------------------------------------------------------
Runnable == SignedImages \cap ({Installed} \cup Updates)

(* What a device that keeps its promises needs: no second power cut while  *)
(* it recovers from the first, and no update two pages shorter than the    *)
(* image it replaces.                                                      *)
Benign ==
  /\ MaxCuts <= 1
  /\ \A i \in Runnable, u \in Updates \cap SignedImages : Size[i] <= Size[u] + 1

----------------------------------------------------------------------------
(* How far an exchange of pages has got, as a function of the number of    *)
(* status entries.  Of the pages below lo both halves are done, of those   *)
(* below hi the first.                                                     *)
Lo(p) == p \div 2
Hi(p) == (p + 1) \div 2

Span(i, j) == Larger(Size[i], Size[j])

(* An update from image o to image n.                                      *)
UpdateLayout(o, n, p) ==
  /\ \A k \in 0 .. (Size[o] - 1) :
       /\ k < Hi(p) => sec[k] = Whole(o, k)
       /\ k >= Hi(p) => pri[k] = Whole(o, k)
  /\ \A k \in 0 .. (Size[n] - 1) :
       /\ k < Lo(p) => pri[k] = Whole(n, k)
       /\ k >= Lo(p) => sec[k + 1] = Whole(n, k)

(* A revert of image x in the primary slot to image y, from the last page. *)
RevertLayout(x, y, p) ==
  /\ \A k \in 0 .. (Size[x] - 1) :
       /\ k >= Span(x, y) - Hi(p) => sec[k + 1] = Whole(x, k)
       /\ k < Span(x, y) - Hi(p) => pri[k] = Whole(x, k)
  /\ \A k \in 0 .. (Size[y] - 1) :
       /\ k >= Span(x, y) - Lo(p) => pri[k] = Whole(y, k)
       /\ k < Span(x, y) - Lo(p) => sec[k] = Whole(y, k)

----------------------------------------------------------------------------
(* The images involved in a revert: of one on trial, or of one that a cut  *)
(* has prevented from running.                                             *)
Discarded == IF onTrial THEN running ELSE scheduled
Restored == IF onTrial THEN fallback ELSE running
Revertible == onTrial \/ scheduled \in SignedImages

Quiet(t) == t.magic = "good" => t.done /\ t.ok
AsksTest(t) == t.magic = "good" /\ ~t.ok /\ ~t.done
AsksRevert(t) == t.magic = "good" /\ ~t.ok /\ t.done

UpdateTrailer ==
  priT.magic = "good" /\ priT.type = "test" /\ ~priT.done /\ ~priT.ok
RevertTrailer ==
  priT.magic = "good" /\ priT.type = "revert" /\ ~priT.done

(* What a boot may find.                                                   *)
Steady ==
  /\ ~onTrial /\ scheduled \notin SignedImages
  /\ Stored(pri, 0, running)
  /\ Quiet(priT) /\ secT.magic # "good"

Rejected ==
  /\ ~onTrial /\ scheduled \in Images \ SignedImages
  /\ Stored(pri, 0, running)
  /\ Quiet(priT) /\ AsksTest(secT)
  /\ Header(sec[0]) = None /\ Header(sec[1]) \in {None, scheduled}

Scheduled ==
  /\ ~onTrial /\ scheduled \in SignedImages
  /\ Stored(pri, 0, running) /\ Stored(sec, 1, scheduled) /\ Header(sec[0]) = None
  /\ AsksTest(secT)

GoingOn ==
  /\ ~onTrial /\ scheduled \in SignedImages
  /\ UpdateTrailer /\ secT.magic # "good"
  /\ priT.size = Span(running, scheduled) /\ priT.status <= 2 * priT.size
  /\ priT.status >= 2 => secT.magic = "unset"
  /\ UpdateLayout(running, scheduled, priT.status)

Beside == Stored(pri, 0, Discarded) /\ Stored(sec, 0, Restored)

Swapped ==
  /\ Revertible
  /\ priT.magic = "good" /\ priT.done /\ ~priT.ok /\ secT.magic # "good"
  /\ cuts = 0 => secT.magic = "unset"
  /\ Beside

Recalled == Revertible /\ AsksRevert(secT) /\ Beside

GoingBack ==
  /\ Revertible
  /\ RevertTrailer /\ secT.magic # "good"
  /\ priT.size = Span(Discarded, Restored) /\ priT.status <= 2 * priT.size
  /\ priT.ok => priT.status = 2 * priT.size
  /\ RevertLayout(Discarded, Restored, priT.status)

Reverted ==
  /\ Revertible
  /\ Quiet(priT) /\ secT.magic # "good"
  /\ Stored(pri, 0, Restored) /\ Stored(sec, 1, Discarded)

Bootstrap ==
  /\ ~onTrial /\ scheduled = None
  /\ priT.magic = "unset" /\ secT.magic = "unset"
  /\ Stored(sec, 1, running) /\ Header(sec[0]) = None
  /\ pri[0] \in {Blank, Part(running, 0), Whole(running, 0)}

(* A swap is undone before the new image has run only after a cut.         *)
MayUndo == onTrial \/ cuts > 0

Durable ==
  \/ Steady \/ Rejected \/ Scheduled \/ GoingOn \/ Bootstrap
  \/ MayUndo /\ Swapped
  \/ cuts > 0 /\ (Recalled \/ GoingBack \/ Reverted)

----------------------------------------------------------------------------
(* What holds at each operation.                                           *)
Sized(i, j) ==
  bs.size = Span(i, j) /\ Size[i] <= bs.usedPri + 1 /\ Size[j] <= bs.usedSec + 1

RunningUpdate ==
  /\ bs.type = "test" /\ ~onTrial /\ scheduled \in SignedImages
  /\ Sized(running, scheduled)
  /\ bs.pos <= 2 * bs.size

RunningRevert ==
  /\ bs.type = "revert" /\ Revertible /\ MayUndo
  /\ Sized(Discarded, Restored)
  /\ bs.pos <= 2 * bs.size

UpdateCopying == RunningUpdate /\ GoingOn /\ priT.status = bs.pos /\ secT.magic = "unset"
RevertCopying == RunningRevert /\ GoingBack /\ priT.status = bs.pos /\ ~priT.ok

Written ==
  \/ UpdateCopying /\ UpdateLayout(running, scheduled, bs.pos + 1)
  \/ RevertCopying /\ RevertLayout(Discarded, Restored, bs.pos + 1)

AtInit ==
  /\ bs.pos = 0
  /\ \/ RunningUpdate /\ Scheduled
     \/ RunningRevert /\ Beside /\ (cuts = 0 => AsksRevert(secT))

AtClear ==
  /\ bs.pos <= 1
  /\ priT.size = bs.size /\ priT.status = bs.pos
  /\ \/ /\ RunningUpdate /\ UpdateTrailer
        /\ UpdateLayout(running, scheduled, bs.pos)
        /\ secT.magic = "good" => Scheduled
     \/ /\ RunningRevert /\ RevertTrailer /\ ~priT.ok
        /\ RevertLayout(Discarded, Restored, bs.pos)
        /\ cuts = 0 => bs.pos = 0 /\ AsksRevert(secT)

AtFixup ==
  /\ bs.pos <= 1 /\ RunningRevert
  /\ \/ ~bs.primarySource /\ bs.pos = 0 /\ Beside /\ (cuts = 0 => Swapped)
     \/ /\ bs.primarySource /\ cuts > 0 /\ RevertTrailer /\ ~priT.ok
        /\ priT.size = bs.size /\ priT.status = bs.pos
        /\ RevertLayout(Discarded, Restored, bs.pos)

Restoring ==
  /\ bs.type = "revert"
  /\ Steady \/ (MayUndo /\ GoingBack /\ priT.status = 2 * priT.size)

Stage ==
  /\ pc = "app" =>
       /\ cuts = 0
       /\ \/ Quiet(priT) /\ (Steady \/ Rejected \/ Scheduled)
          \/ onTrial /\ Swapped
  /\ pc = "boot" => Durable
  /\ pc = "check" =>
       \/ Steady
       \/ ~onTrial /\ Swapped /\ secT.magic = "unset"
       \/ MayUndo /\ Reverted
  /\ pc \in {"fixErase", "fixInit"} => AtFixup
  /\ pc \in {"initErase", "initStatus"} => AtInit
  /\ pc = "clearSec" => AtClear
  /\ pc \in {"save", "move"} =>
       /\ UpdateCopying \/ RevertCopying
       /\ Lo(bs.pos) < bs.size
       /\ bs.pos % 2 = IF pc = "save" THEN 0 ELSE 1
  /\ pc = "status" => Lo(bs.pos) < bs.size /\ Written
  /\ pc \in {"spare", "tail", "imageOk"} => Restoring
  /\ pc = "copyDone" =>
       \/ UpdateCopying /\ bs.pos = 2 * bs.size
       \/ Restoring /\ priT.ok
  /\ pc \in {"wipe", "wipeTail"} => Rejected /\ ~bs.primarySource
  /\ pc = "wipe" => bs.pos \in 0 .. Pages
  /\ pc \in {"overErase", "overCopy"} => Bootstrap /\ bs.type = "revert" /\ bs.pos \in 0 .. Pages
  /\ pc = "overCopy" => \A k \in 0 .. (bs.pos - 1) : pri[k] = sec[k + 1]
  /\ pc # "halt"

ImagesInv ==
  /\ running \in Runnable /\ fallback \in Runnable
  /\ scheduled \in Updates \cup {None}
  /\ onTrial => scheduled = None
  /\ ~secT.ok

SwapInv == ImagesInv /\ Stage

----------------------------------------------------------------------------
(* Both halves of an exchange.                                             *)
LEMMA Halves ==
  ASSUME NEW p \in Nat
  PROVE  /\ Lo(p) \in Nat /\ Hi(p) \in Nat /\ Lo(p) <= Hi(p) /\ Hi(p) <= Lo(p) + 1
         /\ p % 2 = 0 => Hi(p) = Lo(p) /\ Lo(p + 1) = Lo(p) /\ Hi(p + 1) = Lo(p) + 1
         /\ p % 2 # 0 => Hi(p) = Lo(p) + 1 /\ Lo(p + 1) = Lo(p) + 1 /\ Hi(p + 1) = Lo(p) + 1
         /\ Lo(p) = p \div 2
         /\ p = 0 => Lo(p) = 0 /\ Hi(p) = 0
         /\ p >= 1 => Hi(p) >= 1
         /\ p >= 2 <=> Lo(p) >= 1
         /\ \A s \in Nat :
              /\ p <= 2 * s => Lo(p) <= s /\ Hi(p) <= s
              /\ Lo(p) < s <=> p < 2 * s
              /\ p >= 2 * s - 1 => Hi(p) >= s
              /\ p < 2 * s - 1 => Hi(p) < s
              /\ p >= 2 * s => Lo(p) >= s
BY DEF Lo, Hi

LEMMA Doubled ==
  ASSUME NEW s \in Nat
  PROVE  Lo(2 * s) = s /\ Hi(2 * s) = s
BY DEF Lo, Hi

LEMMA Spans ==
  ASSUME NEW i \in Images, NEW j \in Images
  PROVE  /\ Span(i, j) \in Nat /\ Span(i, j) >= Size[i] /\ Span(i, j) >= Size[j]
         /\ Span(i, j) >= 2 /\ Span(i, j) <= Pages /\ Span(i, j) = Span(j, i)
BY Sizes DEF Span, Larger

(* The first and the last state of an exchange.                            *)
LEMMA UpdateEnds ==
  ASSUME NEW o \in Images, NEW n \in Images
  PROVE  /\ UpdateLayout(o, n, 0) <=> Stored(pri, 0, o) /\ Stored(sec, 1, n)
         /\ UpdateLayout(o, n, 2 * Span(o, n)) => Stored(pri, 0, n) /\ Stored(sec, 0, o)
<1>1. Size[o] \in Nat /\ Size[n] \in Nat /\ Span(o, n) \in Nat
      /\ Span(o, n) >= Size[o] /\ Span(o, n) >= Size[n]
  BY Sizes, Spans
<1>2. Lo(0) = 0 /\ Hi(0) = 0 /\ Lo(2 * Span(o, n)) = Span(o, n) /\ Hi(2 * Span(o, n)) = Span(o, n)
  BY <1>1, Doubled, Halves
<1> QED BY <1>1, <1>2 DEF UpdateLayout, Stored

LEMMA RevertEnds ==
  ASSUME NEW x \in Images, NEW y \in Images
  PROVE  /\ RevertLayout(x, y, 0) <=> Stored(pri, 0, x) /\ Stored(sec, 0, y)
         /\ RevertLayout(x, y, 2 * Span(x, y)) => Stored(pri, 0, y) /\ Stored(sec, 1, x)
<1>1. Size[x] \in Nat /\ Size[y] \in Nat /\ Span(x, y) \in Nat
      /\ Span(x, y) >= Size[x] /\ Span(x, y) >= Size[y]
  BY Sizes, Spans
<1>2. Lo(0) = 0 /\ Hi(0) = 0 /\ Lo(2 * Span(x, y)) = Span(x, y) /\ Hi(2 * Span(x, y)) = Span(x, y)
  BY <1>1, Doubled, Halves
<1> QED BY <1>1, <1>2 DEF RevertLayout, Stored

(* The first half of an exchange writes only a page whose content is done  *)
(* with, and all of it takes the exchange half a page further.             *)
LEMMA UpdateSave ==
  ASSUME TypeOK, NEW o \in Images, NEW n \in Images, NEW p \in Nat, NEW v,
         p % 2 = 0, Lo(p) < Span(o, n), UpdateLayout(o, n, p), pri' = pri,
         sec' = [sec EXCEPT ![Lo(p)] = v]
  PROVE  /\ UpdateLayout(o, n, p)'
         /\ v = pri[Lo(p)] => UpdateLayout(o, n, p + 1)'
<1>1. Size[o] \in Nat /\ Size[n] \in Nat /\ Size[o] <= Pages /\ Size[n] <= Pages /\ Pages \in Nat
      /\ Lo(p) < Pages
  <2>1. Lo(p) \in Nat /\ Span(o, n) \in Nat /\ Span(o, n) <= Pages
    BY Spans, Halves
  <2>2. Pages \in Nat
    BY Sizes
  <2>3. Lo(p) < Pages
    BY <2>1, <2>2
  <2> QED BY <2>2, <2>3, Sizes
<1>2. Lo(p) \in Nat /\ Hi(p) = Lo(p) /\ Lo(p + 1) = Lo(p) /\ Hi(p + 1) = Lo(p) + 1
  BY Halves
<1>3. /\ sec'[Lo(p)] = v
      /\ \A k \in 0 .. Pages : k # Lo(p) => sec'[k] = sec[k]
  BY <1>1, <1>2 DEF TypeOK
<1>4. \A k \in 0 .. (Size[o] - 1) : k \in 0 .. Pages /\ k \in Nat
  BY <1>1
<1>5. \A k \in 0 .. (Size[n] - 1) : k + 1 \in 0 .. Pages /\ k \in Nat
  BY <1>1
<1> HIDE DEF Lo, Hi
<1> QED BY <1>2, <1>3, <1>4, <1>5 DEF UpdateLayout

LEMMA UpdateMove ==
  ASSUME TypeOK, NEW o \in Images, NEW n \in Images, NEW p \in Nat, NEW v,
         p % 2 # 0, Lo(p) < Span(o, n), UpdateLayout(o, n, p), sec' = sec,
         pri' = [pri EXCEPT ![Lo(p)] = v]
  PROVE  /\ UpdateLayout(o, n, p)'
         /\ v = sec[Lo(p) + 1] => UpdateLayout(o, n, p + 1)'
<1>1. Size[o] \in Nat /\ Size[n] \in Nat /\ Size[o] <= Pages /\ Size[n] <= Pages /\ Pages \in Nat
      /\ Lo(p) < Pages
  <2>1. Lo(p) \in Nat /\ Span(o, n) \in Nat /\ Span(o, n) <= Pages
    BY Spans, Halves
  <2>2. Pages \in Nat
    BY Sizes
  <2>3. Lo(p) < Pages
    BY <2>1, <2>2
  <2> QED BY <2>2, <2>3, Sizes
<1>2. Lo(p) \in Nat /\ Hi(p) = Lo(p) + 1 /\ Lo(p + 1) = Lo(p) + 1 /\ Hi(p + 1) = Lo(p) + 1
  BY Halves
<1>3. /\ pri'[Lo(p)] = v
      /\ \A k \in 0 .. (Pages - 1) : k # Lo(p) => pri'[k] = pri[k]
  BY <1>1, <1>2 DEF TypeOK
<1>4. \A k \in 0 .. (Size[o] - 1) : k \in 0 .. (Pages - 1) /\ k \in Nat
  BY <1>1
<1>5. \A k \in 0 .. (Size[n] - 1) : k \in 0 .. (Pages - 1) /\ k \in Nat
  BY <1>1
<1> QED BY <1>2, <1>3, <1>4, <1>5 DEF UpdateLayout

(* A page beyond the image needs no copy.                                  *)
LEMMA UpdateSkip ==
  ASSUME NEW o \in Images, NEW n \in Images, NEW p \in Nat,
         UpdateLayout(o, n, p),
         \/ p % 2 = 0 /\ Lo(p) >= Size[o]
         \/ p % 2 # 0 /\ Lo(p) >= Size[n]
  PROVE  UpdateLayout(o, n, p + 1)
<1>1. Size[o] \in Nat /\ Size[n] \in Nat
  BY Sizes
<1>2. /\ Lo(p) \in Nat
      /\ p % 2 = 0 => Hi(p) = Lo(p) /\ Lo(p + 1) = Lo(p) /\ Hi(p + 1) = Lo(p) + 1
      /\ p % 2 # 0 => Hi(p) = Lo(p) + 1 /\ Lo(p + 1) = Lo(p) + 1 /\ Hi(p + 1) = Lo(p) + 1
  BY Halves
<1> QED BY <1>1, <1>2 DEF UpdateLayout

LEMMA RevertSave ==
  ASSUME TypeOK, NEW x \in Images, NEW y \in Images, NEW p \in Nat, NEW v,
         p % 2 = 0, Lo(p) < Span(x, y), RevertLayout(x, y, p), pri' = pri,
         sec' = [sec EXCEPT ![Span(x, y) - 1 - Lo(p) + 1] = v]
  PROVE  /\ RevertLayout(x, y, p)'
         /\ v = pri[Span(x, y) - 1 - Lo(p)] => RevertLayout(x, y, p + 1)'
<1> DEFINE s == Span(x, y)
           at == s - 1 - Lo(p)
<1>1. /\ Size[x] \in Nat /\ Size[y] \in Nat /\ Size[x] <= Pages /\ Size[y] <= Pages /\ Pages \in Nat
      /\ s \in Nat /\ s <= Pages
  BY Sizes, Spans
<1>2. Lo(p) \in Nat /\ Hi(p) = Lo(p) /\ Lo(p + 1) = Lo(p) /\ Hi(p + 1) = Lo(p) + 1
  BY Halves
<1>3. /\ at \in Nat /\ at < Pages /\ at + 1 \in 0 .. Pages
      /\ s - Hi(p) = at + 1 /\ s - Hi(p + 1) = at
      /\ s - Lo(p) = at + 1 /\ s - Lo(p + 1) = at + 1
  BY <1>1, <1>2
<1>4. /\ sec'[at + 1] = v
      /\ \A k \in 0 .. Pages : k # at + 1 => sec'[k] = sec[k]
  BY <1>3 DEF TypeOK
<1>5. \A k \in 0 .. (Size[x] - 1) : k + 1 \in 0 .. Pages /\ k \in Nat
  BY <1>1
<1>6. \A k \in 0 .. (Size[y] - 1) : k \in 0 .. Pages /\ k \in Nat
  BY <1>1
<1>7. v = pri[at] \/ v # pri[at]
  OBVIOUS
<1>8. Span(x, y)' = s
  BY DEF Span, Larger
<1> HIDE DEF s, at
<1>9. /\ RevertLayout(x, y, p)'
      /\ v = pri[at] => RevertLayout(x, y, p + 1)'
  BY <1>3, <1>4, <1>5, <1>6, <1>8 DEF RevertLayout, s
<1> QED BY <1>9 DEF s, at

LEMMA RevertMove ==
  ASSUME TypeOK, NEW x \in Images, NEW y \in Images, NEW p \in Nat, NEW v,
         p % 2 # 0, Lo(p) < Span(x, y), RevertLayout(x, y, p), sec' = sec,
         pri' = [pri EXCEPT ![Span(x, y) - 1 - Lo(p)] = v]
  PROVE  /\ RevertLayout(x, y, p)'
         /\ v = sec[Span(x, y) - 1 - Lo(p)] => RevertLayout(x, y, p + 1)'
<1> DEFINE s == Span(x, y)
           at == s - 1 - Lo(p)
<1>1. /\ Size[x] \in Nat /\ Size[y] \in Nat /\ Size[x] <= Pages /\ Size[y] <= Pages /\ Pages \in Nat
      /\ s \in Nat /\ s <= Pages
  BY Sizes, Spans
<1>2. Lo(p) \in Nat /\ Hi(p) = Lo(p) + 1 /\ Lo(p + 1) = Lo(p) + 1 /\ Hi(p + 1) = Lo(p) + 1
  BY Halves
<1>3. /\ at \in Nat /\ at \in 0 .. (Pages - 1)
      /\ s - Hi(p) = at /\ s - Hi(p + 1) = at
      /\ s - Lo(p) = at + 1 /\ s - Lo(p + 1) = at
  BY <1>1, <1>2
<1>4. /\ pri'[at] = v
      /\ \A k \in 0 .. (Pages - 1) : k # at => pri'[k] = pri[k]
  BY <1>3 DEF TypeOK
<1>5. \A k \in 0 .. (Size[x] - 1) : k \in 0 .. (Pages - 1) /\ k \in Nat
  BY <1>1
<1>6. \A k \in 0 .. (Size[y] - 1) : k \in 0 .. (Pages - 1) /\ k \in Nat
  BY <1>1
<1>8. Span(x, y)' = s
  BY DEF Span, Larger
<1> HIDE DEF s, at
<1>9. /\ RevertLayout(x, y, p)'
      /\ v = sec[at] => RevertLayout(x, y, p + 1)'
  BY <1>3, <1>4, <1>5, <1>6, <1>8 DEF RevertLayout, s
<1> QED BY <1>9 DEF s, at

LEMMA RevertSkip ==
  ASSUME NEW x \in Images, NEW y \in Images, NEW p \in Nat,
         RevertLayout(x, y, p), Lo(p) < Span(x, y),
         \/ p % 2 = 0 /\ Span(x, y) - 1 - Lo(p) >= Size[x]
         \/ p % 2 # 0 /\ Span(x, y) - 1 - Lo(p) >= Size[y]
  PROVE  RevertLayout(x, y, p + 1)
<1>1. Size[x] \in Nat /\ Size[y] \in Nat /\ Span(x, y) \in Nat
  BY Sizes, Spans
<1>2. /\ Lo(p) \in Nat
      /\ p % 2 = 0 => Hi(p) = Lo(p) /\ Lo(p + 1) = Lo(p) /\ Hi(p + 1) = Lo(p) + 1
      /\ p % 2 # 0 => Hi(p) = Lo(p) + 1 /\ Lo(p + 1) = Lo(p) + 1 /\ Hi(p + 1) = Lo(p) + 1
  BY Halves
<1> QED BY <1>1, <1>2 DEF RevertLayout

(* At the end of a revert nothing more depends on the spare page.          *)
LEMMA RevertSpare ==
  ASSUME TypeOK, NEW x \in Images, NEW y \in Images, NEW v,
         RevertLayout(x, y, 2 * Span(x, y)), pri' = pri, sec' = [sec EXCEPT ![0] = v]
  PROVE  RevertLayout(x, y, 2 * Span(x, y))'
<1>1. /\ Size[x] \in Nat /\ Size[y] \in Nat /\ Size[x] <= Pages /\ Size[y] <= Pages /\ Pages \in Nat
      /\ Span(x, y) \in Nat
  BY Sizes, Spans
<1>2. Lo(2 * Span(x, y)) = Span(x, y) /\ Hi(2 * Span(x, y)) = Span(x, y)
  BY <1>1, Doubled
<1>3. \A k \in 0 .. Pages : k # 0 => sec'[k] = sec[k]
  BY DEF TypeOK
<1>4. \A k \in 0 .. (Size[x] - 1) : k + 1 \in 0 .. Pages /\ k \in Nat /\ k + 1 # 0
  BY <1>1
<1> QED BY <1>1, <1>2, <1>3, <1>4 DEF RevertLayout

(* Whatever an exchange has reached, all pages of both images are there.   *)
LEMMA LayoutsKeep ==
  ASSUME TypeOK, NEW i \in Images, NEW j \in Images, NEW p \in Nat,
         UpdateLayout(i, j, p) \/ RevertLayout(i, j, p)
  PROVE  Kept(i) /\ Kept(j)
<1>1. DOMAIN pri = 0 .. (Pages - 1) /\ DOMAIN sec = 0 .. Pages
  BY DEF TypeOK
<1>2. Size[i] \in Nat /\ Size[j] \in Nat /\ Size[i] <= Pages /\ Size[j] <= Pages /\ Pages \in Nat
      /\ Span(i, j) \in Nat
  BY Sizes, Spans
<1>3. \A k \in 0 .. (Size[i] - 1) : k \in 0 .. (Pages - 1) /\ k \in 0 .. Pages /\ k + 1 \in 0 .. Pages
  BY <1>2
<1>4. \A k \in 0 .. (Size[j] - 1) : k \in 0 .. (Pages - 1) /\ k \in 0 .. Pages /\ k + 1 \in 0 .. Pages
  BY <1>2
<1>5. Lo(p) \in Nat /\ Hi(p) \in Nat
  BY Halves
<1>6. CASE UpdateLayout(i, j, p)
  <2>1. \A k \in 0 .. (Size[i] - 1) : sec[k] = Whole(i, k) \/ pri[k] = Whole(i, k)
    BY <1>2, <1>5, <1>6 DEF UpdateLayout
  <2>2. \A k \in 0 .. (Size[j] - 1) : pri[k] = Whole(j, k) \/ sec[k + 1] = Whole(j, k)
    BY <1>2, <1>5, <1>6 DEF UpdateLayout
  <2>3. Kept(i)
    BY <1>1, <1>3, <2>1 DEF Kept
  <2>4. Kept(j)
    BY <1>1, <1>4, <2>2 DEF Kept
  <2> QED BY <2>3, <2>4
<1>7. CASE RevertLayout(i, j, p)
  <2>1. \A k \in 0 .. (Size[i] - 1) : sec[k + 1] = Whole(i, k) \/ pri[k] = Whole(i, k)
    BY <1>2, <1>5, <1>7 DEF RevertLayout
  <2>2. \A k \in 0 .. (Size[j] - 1) : pri[k] = Whole(j, k) \/ sec[k] = Whole(j, k)
    BY <1>2, <1>5, <1>7 DEF RevertLayout
  <2>3. Kept(i)
    BY <1>1, <1>3, <2>1 DEF Kept
  <2>4. Kept(j)
    BY <1>1, <1>4, <2>2 DEF Kept
  <2> QED BY <2>3, <2>4
<1> QED BY <1>6, <1>7

(* Where the headers are in the middle of an exchange.                     *)
LEMMA UpdateHeaders ==
  ASSUME TypeOK, NEW o \in Images, NEW n \in Images,
         priT.type = "test", priT.size = Span(o, n), priT.status > 0,
         priT.status <= 2 * priT.size, UpdateLayout(o, n, priT.status)
  PROVE  /\ ResumedPriHeader \in {o, n} /\ ResumedSecHeader = n
         /\ priT.status < 2 * (priT.size - 1) => ResumedPriHeader = o
         /\ HeadersRead
<1> DEFINE p == priT.status
           s == priT.size
<1>1. /\ p \in Nat /\ s \in Nat /\ s >= 2 /\ o # None /\ n # None
      /\ 0 \in 0 .. (Size[o] - 1) /\ 0 \in 0 .. (Size[n] - 1)
  <2>1. Span(o, n) \in Nat /\ Span(o, n) >= 2
    BY Spans
  <2>2. o # None /\ n # None /\ 0 \in 0 .. (Size[o] - 1) /\ 0 \in 0 .. (Size[n] - 1)
    BY Sizes
  <2>3. p \in Nat
    BY DEF TypeOK, Trailer
  <2> QED BY <2>1, <2>2, <2>3
<1>2. Hi(p) >= 1 /\ Hi(p) \in Nat /\ Lo(p) \in Nat /\ Lo(p) = p \div 2 /\ (p >= 2 <=> Lo(p) >= 1)
  <2>1. p >= 1 /\ p \in Nat
    BY <1>1
  <2> HIDE DEF p
  <2> QED BY <2>1, Halves
<1>3. sec[0] = Whole(o, 0)
  BY <1>1, <1>2 DEF UpdateLayout
<1>4. IF p >= 2 THEN pri[0] = Whole(n, 0) ELSE sec[1] = Whole(n, 0)
  <2>1. IF Lo(p) >= 1 THEN pri[0] = Whole(n, 0) ELSE sec[0 + 1] = Whole(n, 0)
    BY <1>1, <1>2 DEF UpdateLayout
  <2> QED BY <2>1, <1>2
<1>5. Header(Whole(o, 0)) = o /\ Header(Whole(n, 0)) = n
  BY <1>1 DEF Header, Whole
<1>6. ~OldHeaderMoved(p) => p >= 2
  BY <1>1, <1>2 DEF OldHeaderMoved
<1>7. p < 2 * (s - 1) => OldHeaderMoved(p)
  <2>1. p \in Nat /\ p >= 1 /\ s \in Nat /\ s >= 2
    BY <1>1
  <2>2. p < 2 * (s - 1) => Lo(p) < s - 1
    <3> HIDE DEF p, s
    <3> QED BY <2>1 DEF Lo
  <2> QED BY <1>2, <2>1, <2>2 DEF OldHeaderMoved
<1> QED BY <1>1, <1>3, <1>4, <1>5, <1>6, <1>7 DEF ResumedPriHeader, ResumedSecHeader, HeadersRead

LEMMA RevertHeaders ==
  ASSUME TypeOK, NEW x \in Images, NEW y \in Images,
         priT.type = "revert", priT.size = Span(x, y),
         priT.status <= 2 * priT.size, RevertLayout(x, y, priT.status)
  PROVE  /\ ResumedPriHeader = x /\ ResumedSecHeader = y
         /\ HeadersRead
<1> DEFINE p == priT.status
           s == priT.size
<1>1. /\ p \in Nat /\ s \in Nat /\ s >= 2 /\ x # None /\ y # None
      /\ 0 \in 0 .. (Size[x] - 1) /\ 0 \in 0 .. (Size[y] - 1)
  <2>1. Span(x, y) \in Nat /\ Span(x, y) >= 2
    BY Spans
  <2>2. x # None /\ y # None /\ 0 \in 0 .. (Size[x] - 1) /\ 0 \in 0 .. (Size[y] - 1)
    BY Sizes
  <2>3. p \in Nat
    BY DEF TypeOK, Trailer
  <2> QED BY <2>1, <2>2, <2>3
<1>2. /\ Hi(p) \in Nat /\ Lo(p) \in Nat /\ Hi(p) <= s /\ Lo(p) <= s
      /\ p >= 2 * s - 1 => Hi(p) >= s
      /\ p < 2 * s - 1 => Hi(p) < s
      /\ p >= 2 * s <=> Lo(p) >= s
  <2>1. p \in Nat /\ s \in Nat /\ p <= 2 * s
    BY <1>1
  <2> HIDE DEF p, s
  <2>2. /\ Hi(p) \in Nat /\ Lo(p) \in Nat /\ Hi(p) <= s /\ Lo(p) <= s
        /\ p >= 2 * s - 1 => Hi(p) >= s
        /\ p < 2 * s - 1 => Hi(p) < s
        /\ Lo(p) < s <=> p < 2 * s
    BY <2>1, Halves
  <2> QED BY <2>1, <2>2
<1>3. IF p >= 2 * s - 1 THEN sec[1] = Whole(x, 0) ELSE pri[0] = Whole(x, 0)
  <2>1. IF p >= 2 * s - 1 THEN sec[0 + 1] = Whole(x, 0) ELSE pri[0] = Whole(x, 0)
    BY <1>1, <1>2 DEF RevertLayout
  <2> QED BY <2>1
<1>4. IF p >= 2 * s THEN pri[0] = Whole(y, 0) ELSE sec[0] = Whole(y, 0)
  BY <1>1, <1>2 DEF RevertLayout
<1>5. Header(Whole(x, 0)) = x /\ Header(Whole(y, 0)) = y
  BY <1>1 DEF Header, Whole
<1> QED BY <1>1, <1>3, <1>4, <1>5 DEF ResumedPriHeader, ResumedSecHeader, HeadersRead

----------------------------------------------------------------------------
(* The decision at boot.                                                   *)

(* The images involved are images, and the two of a revert can run.        *)
LEMMA Involved ==
  ASSUME TypeOK, ImagesInv
  PROVE  /\ running \in Images /\ running \in SignedImages /\ running \in Runnable
         /\ Revertible => /\ Discarded \in SignedImages /\ Restored \in SignedImages
                          /\ Discarded \in Images /\ Restored \in Images
                          /\ Discarded \in Runnable /\ Restored \in Runnable
         /\ scheduled \in SignedImages =>
              /\ scheduled \in Images /\ ~onTrial /\ scheduled \in Runnable
              /\ scheduled \in Updates \cap SignedImages
              /\ Revertible /\ Discarded = scheduled /\ Restored = running
BY Sizes DEF ImagesInv, Runnable, Discarded, Restored, Revertible, TypeOK

(* A step that leaves the flash and the history alone leaves everything    *)
(* said about them as it was.                                              *)
LEMMA Frame ==
  ASSUME flash' = flash, history' = history
  PROVE  /\ ImagesInv' = ImagesInv /\ Revertible' = Revertible
         /\ Discarded' = Discarded /\ Restored' = Restored
         /\ Steady' = Steady /\ Rejected' = Rejected /\ Scheduled' = Scheduled
         /\ GoingOn' = GoingOn /\ Recalled' = Recalled /\ GoingBack' = GoingBack
         /\ Reverted' = Reverted /\ Bootstrap' = Bootstrap /\ Beside' = Beside
         /\ Swapped => (Swapped' \/ cuts' = 0)
         /\ Swapped /\ cuts' = cuts => Swapped'
         /\ Swapped /\ secT.magic = "unset" => Swapped'
         /\ Source' = Source
         /\ \A i, j, p : /\ UpdateLayout(i, j, p)' = UpdateLayout(i, j, p)
                         /\ RevertLayout(i, j, p)' = RevertLayout(i, j, p)
<1>1. UNCHANGED <<pri, priT, sec, secT, running, onTrial, fallback, scheduled>>
  BY DEF flash, history
<1>2. \A i, j, p : /\ UpdateLayout(i, j, p)' = UpdateLayout(i, j, p)
                   /\ RevertLayout(i, j, p)' = RevertLayout(i, j, p)
  BY <1>1 DEF UpdateLayout, RevertLayout, Span, Larger
<1>3. /\ ImagesInv' = ImagesInv /\ Revertible' = Revertible
      /\ Discarded' = Discarded /\ Restored' = Restored
  BY <1>1 DEF ImagesInv, Revertible, Discarded, Restored
<1>4. Beside' = Beside
  BY <1>1, <1>3 DEF Beside, Stored
<1>5. Steady' = Steady /\ Rejected' = Rejected /\ Scheduled' = Scheduled
      /\ Source' = Source
  BY <1>1 DEF Steady, Rejected, Scheduled, Stored, Quiet, AsksTest, Header, Source
<1>6. GoingOn' = GoingOn
  BY <1>1 DEF GoingOn, UpdateTrailer, UpdateLayout, Span, Larger
<1>7. GoingBack' = GoingBack
  BY <1>1 DEF GoingBack, RevertTrailer, RevertLayout, Span, Larger, Discarded, Restored, Revertible
<1>8. Recalled' = Recalled /\ Reverted' = Reverted
  BY <1>1, <1>3, <1>4 DEF Recalled, Reverted, AsksRevert, Quiet, Stored
<1>9. Bootstrap' = Bootstrap
  BY <1>1 DEF Bootstrap, Stored, Header
<1>10. /\ Swapped => (Swapped' \/ cuts' = 0)
       /\ Swapped /\ cuts' = cuts => Swapped'
       /\ Swapped /\ secT.magic = "unset" => Swapped'
  BY <1>1, <1>3, <1>4 DEF Swapped
<1> QED BY <1>2, <1>3, <1>4, <1>5, <1>6, <1>7, <1>8, <1>9, <1>10

(* A slot that begins with an image that can run.                          *)
LEMMA PrimaryStored ==
  ASSUME NEW i \in SignedImages, Stored(pri, 0, i)
  PROVE  PrimaryValid /\ Header(pri[0]) = i /\ Readable
<1>1. i \in Images /\ i # None
  BY Sizes
<1>2. Header(pri[0]) = i
  BY <1>1, StoredHeader
<1> QED BY <1>1, <1>2 DEF PrimaryValid, Readable

(* An exchange starts with the sizes of the two images.                    *)
Begun(type, source, i, j) ==
  [NoStatus EXCEPT !.type = type, !.primarySource = source,
                   !.size = Larger(Size[i], Size[j]),
                   !.usedPri = Size[i], !.usedSec = Size[j]]

LEMMA BegunSized ==
  ASSUME NEW i \in Images, NEW j \in Images, NEW type, NEW source,
         bs' = Begun(type, source, i, j)
  PROVE  /\ bs'.type = type /\ bs'.primarySource = source /\ bs'.pos = 0
         /\ bs'.size = Span(i, j) /\ Size[i] <= bs'.usedPri + 1 /\ Size[j] <= bs'.usedSec + 1
<1>1. Size[i] \in Nat /\ Size[j] \in Nat
  BY Sizes
<1> QED BY <1>1 DEF Begun, NoStatus, Span

Decided == StartSwap \/ StartOverwrite \/ StartWipe \/ NothingToDo \/ Resume

LEMMA DecidedFrame ==
  Decided => flash' = flash /\ history' = history /\ cuts' = cuts /\ pc = "boot"
BY DEF Decided, StartSwap, StartOverwrite, StartWipe, NothingToDo, Resume, Fresh, At, Go

(* What the boot loader decides, from what a boot may find.                *)
LEMMA FromSteady ==
  ASSUME TypeOK, ImagesInv, Decided, Steady
  PROVE  pc' = "check" /\ Steady'
<1>1. ~Source /\ Wanted = "none"
  BY DEF Steady, Source, Wanted, SwapType, Quiet
<1>2. PrimaryValid
  BY PrimaryStored, Involved DEF Steady
<1> QED BY <1>1, <1>2, DecidedFrame, Frame
     DEF Decided, StartSwap, StartOverwrite, StartWipe, NothingToDo, Resume, Go

LEMMA FromReverted ==
  ASSUME TypeOK, ImagesInv, Decided, Reverted
  PROVE  pc' = "check" /\ Reverted'
<1>1. ~Source /\ Wanted = "none"
  BY DEF Reverted, Source, Wanted, SwapType, Quiet
<1>2. PrimaryValid
  BY PrimaryStored, Involved DEF Reverted
<1> QED BY <1>1, <1>2, DecidedFrame, Frame
     DEF Decided, StartSwap, StartOverwrite, StartWipe, NothingToDo, Resume, Go

LEMMA FromRejected ==
  ASSUME TypeOK, ImagesInv, Decided, Rejected
  PROVE  pc' \in {"wipe", "wipeTail"} /\ Rejected' /\ ~bs'.primarySource /\ bs'.pos = 0
<1>1. Source = FALSE /\ Wanted = "test" /\ SwapType = "test"
  BY DEF Rejected, Source, Wanted, SwapType, Quiet, AsksTest
<1>2. ~SecondaryValid
  <2>1. SecondaryPage = IF Header(sec[1]) # None THEN 1 ELSE 0
    BY <1>1 DEF SecondaryPage
  <2>2. SecondaryHeader \in {None, scheduled}
    BY <2>1 DEF SecondaryHeader, Rejected
  <2> QED BY <2>2, Sizes DEF SecondaryValid, Rejected
<1>3. StartWipe
  <2>1. Readable
    BY PrimaryStored, Involved DEF Rejected
  <2> QED BY <1>1, <1>2, <2>1 DEF Decided, StartSwap, StartOverwrite, NothingToDo, Resume
<1> QED BY <1>1, <1>3, DecidedFrame, Frame DEF StartWipe, Decided, Go, NoStatus

LEMMA FromScheduled ==
  ASSUME TypeOK, ImagesInv, Decided, Scheduled
  PROVE  pc' = "initErase" /\ AtInit'
<1>1. Source = FALSE /\ Wanted = "test" /\ SwapType = "test"
  BY DEF Scheduled, Source, Wanted, SwapType, AsksTest
<1>2. /\ running \in SignedImages /\ scheduled \in SignedImages
      /\ running \in Images /\ scheduled \in Images /\ scheduled # None
  BY Involved, Sizes DEF Scheduled
<1>3. PrimaryValid /\ Header(pri[0]) = running /\ Readable
  BY <1>2, PrimaryStored DEF Scheduled
<1>4. SecondaryHeader = scheduled /\ SecondaryValid
  <2>1. Header(sec[1]) = scheduled
    BY <1>2, StoredHeader DEF Scheduled
  <2>2. SecondaryPage = 1
    BY <1>1, <1>2, <2>1 DEF SecondaryPage
  <2>3. SecondaryHeader = scheduled
    BY <2>1, <2>2 DEF SecondaryHeader
  <2> QED BY <1>2, <2>2, <2>3 DEF SecondaryValid, Scheduled
<1>5. StartSwap
  BY <1>1, <1>3, <1>4 DEF Decided, StartOverwrite, StartWipe, NothingToDo, Resume
<1>6. bs' = Begun("test", FALSE, running, scheduled)
  BY <1>1, <1>3, <1>4, <1>5 DEF StartSwap, Begun
<1>7. /\ bs'.type = "test" /\ bs'.pos = 0
      /\ bs'.size = Span(running, scheduled)
      /\ Size[running] <= bs'.usedPri + 1 /\ Size[scheduled] <= bs'.usedSec + 1
  BY <1>2, <1>6, BegunSized
<1>8. RunningUpdate'
  <2>1. Span(running, scheduled) \in Nat /\ Span(running, scheduled)' = Span(running, scheduled)
    BY <1>2, Spans, DecidedFrame DEF history, Span, Larger
  <2> QED BY <1>2, <1>7, <2>1, DecidedFrame DEF RunningUpdate, Sized, Scheduled, history
<1>9. Scheduled'
  BY DecidedFrame, Frame
<1> QED BY <1>1, <1>5, <1>7, <1>8, <1>9, FirstStepResult DEF AtInit, StartSwap, Go

(* An update cut before its first status entry begins anew, a later one is *)
(* resumed.                                                                *)
LEMMA FromGoingOn ==
  ASSUME TypeOK, ImagesInv, Benign, Decided, GoingOn
  PROVE  \/ pc' = "clearSec" /\ AtClear'
         \/ /\ pc' \in {"save", "move", "copyDone"} /\ pc' = CopyStep(bs')
            /\ UpdateCopying'
<1>1. Source = TRUE /\ Wanted = "test" /\ SwapType = "none"
  BY DEF GoingOn, UpdateTrailer, Source, Wanted, SwapType
<1>2. /\ running \in SignedImages /\ scheduled \in SignedImages
      /\ running \in Images /\ scheduled \in Images /\ scheduled # None
      /\ Size[running] \in Nat /\ Size[scheduled] \in Nat
      /\ Size[running] <= Size[scheduled] + 1
  BY Involved, Sizes DEF GoingOn, Benign
<1>3. /\ priT.type = "test" /\ priT.size = Span(running, scheduled)
      /\ priT.status <= 2 * priT.size /\ priT.status \in Nat /\ priT.size \in Nat
      /\ priT.size >= 2
  BY <1>2, Spans DEF GoingOn, UpdateTrailer, TypeOK, Trailer
<1>4. /\ GoingOn' /\ Source' /\ flash' = flash /\ history' = history
      /\ ~onTrial /\ scheduled' = scheduled /\ onTrial' = onTrial
      /\ Span(running, scheduled)' = Span(running, scheduled)
      /\ priT' = priT /\ secT' = secT /\ running' = running
  BY DecidedFrame, Frame, <1>1 DEF GoingOn, history, flash, Span, Larger
<1>5. CASE priT.status > 0
  <2>1. Resume
    BY <1>1, <1>5 DEF Decided, StartSwap, StartOverwrite, StartWipe, NothingToDo, Fresh
  <2>2. ResumedPriHeader \in {running, scheduled} /\ ResumedSecHeader = scheduled /\ HeadersRead
    BY <1>2, <1>3, <1>5, UpdateHeaders DEF GoingOn
  <2>3. /\ bs'.type = "test" /\ bs'.pos = priT.status /\ bs'.size = priT.size
        /\ bs'.usedPri = Size[ResumedPriHeader] /\ bs'.usedSec = Size[ResumedSecHeader]
        /\ pc' = IF bs'.pos < 2 THEN FirstStep("test") ELSE CopyStep(bs')
    BY <1>3, <2>1, <2>2 DEF Resume, ResumeAt, Go
  <2>4. RunningUpdate'
    BY <1>2, <1>3, <1>4, <2>2, <2>3 DEF RunningUpdate, Sized, GoingOn
  <2>5. CASE priT.status < 2
    <3>1. pc' = "clearSec"
      BY <1>1, <2>3, <2>5, FirstStepResult
    <3>2. AtClear'
      BY <1>3, <1>4, <2>3, <2>4, <2>5 DEF AtClear, GoingOn
    <3> QED BY <3>1, <3>2
  <2>6. CASE priT.status >= 2
    <3>1. pc' = CopyStep(bs') /\ pc' # "spare"
      BY <1>3, <2>3, <2>6 DEF CopyStep
    <3>2. pc' \in {"save", "move", "copyDone"}
      BY <3>1 DEF CopyStep
    <3>3. UpdateCopying'
      BY <1>3, <1>4, <2>3, <2>4, <2>6 DEF UpdateCopying, GoingOn
    <3> QED BY <3>1, <3>2, <3>3
  <2> QED BY <1>3, <2>5, <2>6
<1>6. CASE ~(priT.status > 0)
  <2>1. priT.status = 0
    BY <1>3, <1>6
  <2>2. Stored(pri, 0, running) /\ Stored(sec, 1, scheduled)
    BY <1>2, <2>1, UpdateEnds DEF GoingOn
  <2>3. PrimaryValid /\ Header(pri[0]) = running /\ Readable
    BY <1>2, <2>2, PrimaryStored
  <2>4. SecondaryHeader = scheduled /\ SecondaryValid
    <3>1. Header(sec[1]) = scheduled
      BY <1>2, <2>2, StoredHeader
    <3>2. SecondaryPage = 1
      BY <1>1, <1>2, <3>1 DEF SecondaryPage
    <3>3. SecondaryHeader = scheduled
      BY <3>1, <3>2 DEF SecondaryHeader
    <3> QED BY <1>1, <1>2, <2>2, <3>2, <3>3 DEF SecondaryValid
  <2>5. StartSwap
    BY <1>1, <1>6, <2>3, <2>4 DEF Decided, StartOverwrite, StartWipe, NothingToDo, Resume
  <2>6. bs' = Begun("test", TRUE, running, scheduled)
    BY <1>1, <2>3, <2>4, <2>5 DEF StartSwap, Begun
  <2>7. /\ bs'.type = "test" /\ bs'.pos = 0
        /\ bs'.size = Span(running, scheduled)
        /\ Size[running] <= bs'.usedPri + 1 /\ Size[scheduled] <= bs'.usedSec + 1
    BY <1>2, <2>6, BegunSized
  <2>8. RunningUpdate'
    BY <1>2, <1>3, <1>4, <2>7 DEF RunningUpdate, Sized, GoingOn
  <2>9. AtClear'
    BY <1>3, <1>4, <2>1, <2>7, <2>8 DEF AtClear, GoingOn
  <2> QED BY <1>1, <2>5, <2>9, FirstStepResult DEF StartSwap, Go
<1> QED BY <1>5, <1>6

(* A blank device takes the image from the secondary slot.                 *)
LEMMA FromBootstrap ==
  ASSUME TypeOK, ImagesInv, Decided, Bootstrap
  PROVE  \/ pc' = "check" /\ Steady'
         \/ pc' = "overErase" /\ Bootstrap' /\ bs'.type = "revert" /\ bs'.pos = 0
<1>1. Source = FALSE /\ Wanted = "none" /\ SwapType = "none"
  BY DEF Bootstrap, Source, Wanted, SwapType
<1>2. running \in SignedImages /\ running \in Images /\ running # None
  BY Involved, Sizes
<1>3. SecondaryHeader = running /\ SecondaryValid
  <2>1. Header(sec[1]) = running
    BY <1>2, StoredHeader DEF Bootstrap
  <2>2. SecondaryPage = 1
    BY <1>1, <1>2, <2>1 DEF SecondaryPage
  <2>3. SecondaryHeader = running
    BY <2>1, <2>2 DEF SecondaryHeader
  <2> QED BY <1>1, <1>2, <2>2, <2>3 DEF SecondaryValid, Bootstrap
<1>4. Readable
  BY <1>2 DEF Bootstrap, Readable, Header, Part, Whole
<1>5. CASE PrimaryValid
  <2>1. PICK i \in SignedImages : Stored(pri, 0, i)
    BY <1>5 DEF PrimaryValid
  <2>2. pri[0] = Whole(i, 0)
    BY <2>1, StoredHeader, Sizes
  <2>3. i = running
    BY <2>2 DEF Bootstrap, Whole, Part, Blank
  <2>4. Steady
    BY <2>1, <2>3, Sizes DEF Bootstrap, Steady, Quiet
  <2>5. pc' = "check"
    BY <1>1, <1>5 DEF Decided, StartSwap, StartOverwrite, StartWipe, NothingToDo, Resume, Go
  <2> QED BY <2>4, <2>5, DecidedFrame, Frame
<1>6. CASE ~PrimaryValid
  <2>1. StartOverwrite
    BY <1>1, <1>3, <1>4, <1>6 DEF Decided, StartSwap, StartWipe, NothingToDo, Resume
  <2> QED BY <1>1, <2>1, DecidedFrame, Frame DEF StartOverwrite, Go, NoStatus
<1> QED BY <1>5, <1>6

(* A revert starts with both images beside each other.                     *)
LEMMA RevertStarts ==
  ASSUME TypeOK, ImagesInv, Decided, Revertible, MayUndo, Beside,
         Wanted = "revert", ~(Source /\ priT.status > 0)
  PROVE  /\ pc' = FirstStep("revert") /\ bs'.primarySource = Source
         /\ RunningRevert' /\ bs'.pos = 0 /\ bs'.size = Span(Discarded, Restored)'
<1>1. /\ Discarded \in SignedImages /\ Restored \in SignedImages
      /\ Discarded \in Images /\ Restored \in Images /\ Restored # None
  BY Involved, Sizes
<1>2. PrimaryValid /\ Header(pri[0]) = Discarded /\ Readable
  BY <1>1, PrimaryStored DEF Beside
<1>3. SecondaryHeader = Restored /\ SecondaryValid
  <2>1. Header(sec[0]) = Restored
    BY <1>1, StoredHeader DEF Beside
  <2>2. SecondaryPage = 0
    BY <1>1, <2>1 DEF SecondaryPage
  <2>3. SecondaryHeader = Restored
    BY <2>1, <2>2 DEF SecondaryHeader
  <2> QED BY <1>1, <2>2, <2>3 DEF SecondaryValid, Beside
<1>4. StartSwap
  BY <1>2, <1>3 DEF Decided, StartOverwrite, StartWipe, NothingToDo, Resume
<1>5. bs' = Begun("revert", Source, Discarded, Restored)
  BY <1>2, <1>3, <1>4 DEF StartSwap, Begun
<1>6. /\ bs'.type = "revert" /\ bs'.pos = 0 /\ bs'.primarySource = Source
      /\ bs'.size = Span(Discarded, Restored)
      /\ Size[Discarded] <= bs'.usedPri + 1 /\ Size[Restored] <= bs'.usedSec + 1
  BY <1>1, <1>5, BegunSized
<1>7. /\ Revertible' /\ MayUndo' /\ Discarded' = Discarded /\ Restored' = Restored
      /\ Span(Discarded, Restored)' = Span(Discarded, Restored)
      /\ Span(Discarded, Restored) \in Nat
  BY <1>1, Spans, Frame, DecidedFrame DEF MayUndo, history, Span, Larger
<1>8. RunningRevert'
  BY <1>6, <1>7 DEF RunningRevert, Sized
<1> QED BY <1>4, <1>6, <1>7, <1>8 DEF StartSwap, Go

LEMMA FromSwapped ==
  ASSUME TypeOK, ImagesInv, Decided, MayUndo, Swapped
  PROVE  \/ pc' = "fixErase" /\ AtFixup'
         \/ pc' = "initErase" /\ AtInit'
<1>1. Source = FALSE /\ Wanted = "revert" /\ Revertible /\ Beside
  BY DEF Swapped, Source, Wanted, SwapType
<1>2. /\ pc' = FirstStep("revert") /\ bs'.primarySource = Source
      /\ RunningRevert' /\ bs'.pos = 0
  BY <1>1, RevertStarts
<1>3. Swapped' /\ Beside' /\ cuts' = cuts /\ secT' = secT
  BY <1>1, DecidedFrame, Frame DEF flash
<1>4. CASE secT.magic = "unset"
  BY <1>1, <1>2, <1>3, <1>4, FirstStepResult DEF AtFixup
<1>5. CASE secT.magic # "unset"
  BY <1>1, <1>2, <1>3, <1>5, FirstStepResult DEF AtInit, Swapped
<1> QED BY <1>4, <1>5

LEMMA FromRecalled ==
  ASSUME TypeOK, ImagesInv, Decided, MayUndo, Recalled
  PROVE  pc' = "initErase" /\ AtInit'
<1>1. Source = FALSE /\ Wanted = "revert" /\ Revertible /\ Beside /\ secT.magic # "unset"
  BY DEF Recalled, AsksRevert, Source, Wanted, SwapType
<1>2. /\ pc' = FirstStep("revert") /\ RunningRevert' /\ bs'.pos = 0
  BY <1>1, RevertStarts
<1>3. Recalled' /\ Beside'
  BY <1>1, DecidedFrame, Frame
<1> QED BY <1>1, <1>2, <1>3, FirstStepResult DEF AtInit, Recalled

LEMMA FromGoingBack ==
  ASSUME TypeOK, ImagesInv, Decided, cuts > 0, GoingBack
  PROVE  \/ pc' = "fixErase" /\ AtFixup'
         \/ pc' = "clearSec" /\ AtClear'
         \/ pc' \in {"save", "move"} /\ pc' = CopyStep(bs') /\ RevertCopying'
         \/ pc' = "spare" /\ Restoring'
<1>1. /\ Source = TRUE /\ Wanted = "revert" /\ Revertible
  BY DEF GoingBack, RevertTrailer, Source, Wanted, SwapType
<1>2. /\ Discarded \in Images /\ Restored \in Images
      /\ Size[Discarded] \in Nat /\ Size[Restored] \in Nat
  BY <1>1, Involved, Sizes
<1>3. /\ priT.type = "revert" /\ priT.size = Span(Discarded, Restored)
      /\ priT.status <= 2 * priT.size /\ priT.status \in Nat /\ priT.size \in Nat
      /\ priT.size >= 2 /\ (priT.ok => priT.status = 2 * priT.size)
  BY <1>2, Spans DEF GoingBack, RevertTrailer, TypeOK, Trailer
<1>4. /\ GoingBack' /\ Source' /\ Revertible' /\ MayUndo' /\ cuts' > 0
      /\ Discarded' = Discarded /\ Restored' = Restored
      /\ Span(Discarded, Restored)' = Span(Discarded, Restored)
      /\ priT' = priT
  BY DecidedFrame, Frame, <1>1 DEF flash, Span, Larger, MayUndo
<1>5. ASSUME RunningRevert', bs'.pos = priT.status, bs'.size = priT.size, bs'.pos < 2,
             pc' = FirstStep("revert"), bs'.primarySource = TRUE
      PROVE  \/ pc' = "fixErase" /\ AtFixup'
             \/ pc' = "clearSec" /\ AtClear'
  <2>1. AtFixup'
    BY <1>3, <1>4, <1>5 DEF AtFixup, GoingBack
  <2>2. AtClear'
    BY <1>3, <1>4, <1>5 DEF AtClear, GoingBack
  <2> QED BY <1>1, <1>5, <2>1, <2>2, FirstStepResult
<1>6. CASE priT.status > 0
  <2>1. Resume
    BY <1>1, <1>6 DEF Decided, StartSwap, StartOverwrite, StartWipe, NothingToDo, Fresh
  <2>2. ResumedPriHeader = Discarded /\ ResumedSecHeader = Restored /\ HeadersRead
    BY <1>2, <1>3, RevertHeaders DEF GoingBack
  <2>3. /\ bs'.type = "revert" /\ bs'.pos = priT.status /\ bs'.size = priT.size
        /\ bs'.usedPri = Size[Discarded] /\ bs'.usedSec = Size[Restored]
        /\ bs'.primarySource = TRUE
        /\ pc' = IF bs'.pos < 2 THEN FirstStep("revert") ELSE CopyStep(bs')
    BY <1>3, <2>1, <2>2 DEF Resume, ResumeAt, Go
  <2>4. RunningRevert'
    BY <1>2, <1>3, <1>4, <2>3 DEF RunningRevert, Sized
  <2>5. CASE priT.status < 2
    BY <1>5, <2>3, <2>4, <2>5
  <2>6. CASE priT.status >= 2
    <3>1. pc' = CopyStep(bs')
      BY <1>3, <2>3, <2>6
    <3>2. CASE priT.status < 2 * priT.size
      BY <1>3, <1>4, <2>3, <2>4, <3>1, <3>2 DEF CopyStep, RevertCopying
    <3>3. CASE priT.status = 2 * priT.size
      BY <1>3, <1>4, <2>3, <3>1, <3>3 DEF CopyStep, Restoring
    <3> QED BY <1>3, <3>2, <3>3
  <2> QED BY <1>3, <2>5, <2>6
<1>7. CASE ~(priT.status > 0)
  <2>1. priT.status = 0
    BY <1>3, <1>7
  <2>2. Beside
    BY <1>2, <2>1, RevertEnds DEF GoingBack, Beside
  <2>3. /\ pc' = FirstStep("revert") /\ bs'.primarySource = TRUE
        /\ RunningRevert' /\ bs'.pos = 0 /\ bs'.size = priT.size
    BY <1>1, <1>3, <1>4, <1>7, <2>2, RevertStarts DEF MayUndo
  <2>4. bs'.pos = priT.status /\ bs'.pos < 2
    BY <2>1, <2>3
  <2> QED BY <1>5, <2>3, <2>4
<1> QED BY <1>6, <1>7

(* A cut is survived if the boot loader knows what it finds.               *)
LEMMA CutSurvived ==
  ASSUME TypeOK, Benign, Cut, ImagesInv'
  PROVE  /\ pc' = "boot" /\ cuts = 0 /\ cuts' > 0 /\ MayUndo'
         /\ Durable' => SwapInv'
<1>1. pc' = "boot" /\ cuts = 0 /\ cuts' > 0
  BY Sizes DEF Cut, TypeOK, Benign
<1>2. MayUndo'
  BY <1>1 DEF MayUndo
<1> QED BY <1>1, <1>2 DEF SwapInv, Stage

LEMMA DecideStep ==
  ASSUME TypeOK, Benign, SwapInv, Decided
  PROVE  SwapInv'
<1>1. pc = "boot" /\ Durable /\ ImagesInv /\ ImagesInv' /\ cuts' = cuts /\ MayUndo' = MayUndo
  BY DecidedFrame, Frame DEF SwapInv, Stage, MayUndo, history
<1>2. SUFFICES Stage'
  BY <1>1 DEF SwapInv
<1>3. CASE Steady
  BY <1>1, <1>3, FromSteady DEF Stage
<1>4. CASE Rejected
  <2>1. 0 \in 0 .. Pages
    BY Sizes
  <2> QED BY <1>1, <1>4, <2>1, FromRejected DEF Stage
<1>5. CASE Scheduled
  BY <1>1, <1>5, FromScheduled DEF Stage
<1>6. CASE GoingOn
  <2>1. CASE pc' = "clearSec" /\ AtClear'
    BY <2>1 DEF Stage
  <2>2. CASE pc' \in {"save", "move", "copyDone"} /\ pc' = CopyStep(bs') /\ UpdateCopying'
    <3>1. /\ bs'.pos \in Nat /\ bs'.size \in Nat /\ bs'.pos <= 2 * bs'.size
          /\ Lo(bs.pos)' = bs'.pos \div 2 /\ bs'.type # "revert"
      BY <1>1, DecideTypes, <2>2 DEF Decided, TypeOK, Lo, UpdateCopying, RunningUpdate
    <3>2. pc' \in {"save", "move"} => Lo(bs.pos)' < bs'.size /\ (bs'.pos % 2 = IF pc' = "save" THEN 0 ELSE 1)
      BY <2>2, <3>1 DEF CopyStep
    <3>3. pc' = "copyDone" => bs'.pos = 2 * bs'.size
      BY <2>2, <3>1 DEF CopyStep
    <3> QED BY <2>2, <3>2, <3>3 DEF Stage
  <2> QED BY <1>1, <1>6, <2>1, <2>2, FromGoingOn
<1>7. CASE Bootstrap
  <2>1. 0 \in 0 .. Pages
    BY Sizes
  <2> QED BY <1>1, <1>7, <2>1, FromBootstrap DEF Stage
<1>8. CASE MayUndo /\ Swapped
  BY <1>1, <1>8, FromSwapped DEF Stage
<1>9. CASE cuts > 0 /\ Recalled
  <2>1. MayUndo
    BY <1>9 DEF MayUndo
  <2> QED BY <1>1, <1>9, <2>1, FromRecalled DEF Stage
<1>10. CASE cuts > 0 /\ GoingBack
  <2>1. CASE pc' \in {"save", "move"} /\ pc' = CopyStep(bs') /\ RevertCopying'
    <3>1. /\ bs'.pos \in Nat /\ bs'.size \in Nat /\ bs'.pos <= 2 * bs'.size
          /\ Lo(bs.pos)' = bs'.pos \div 2
      BY <1>1, DecideTypes, <2>1 DEF Decided, TypeOK, Lo, RevertCopying, RunningRevert
    <3>2. Lo(bs.pos)' < bs'.size /\ (bs'.pos % 2 = IF pc' = "save" THEN 0 ELSE 1)
      BY <2>1, <3>1 DEF CopyStep
    <3> QED BY <2>1, <3>2 DEF Stage
  <2> QED BY <1>1, <1>10, <2>1, FromGoingBack DEF Stage
<1>11. CASE cuts > 0 /\ Reverted
  <2>1. MayUndo
    BY <1>11 DEF MayUndo
  <2> QED BY <1>1, <1>11, <2>1, FromReverted DEF Stage
<1> QED BY <1>1, <1>3, <1>4, <1>5, <1>6, <1>7, <1>8, <1>9, <1>10, <1>11 DEF Durable

(* A power cut between two operations.                                     *)
LEMMA PowerCutStep ==
  ASSUME TypeOK, Benign, SwapInv, PowerCut
  PROVE  SwapInv'
<1>1. /\ Cut /\ pc \notin {"app", "boot", "halt"} /\ flash' = flash /\ history' = history
      /\ ImagesInv
  BY DEF PowerCut, SwapInv
<1>2. ImagesInv' /\ MayUndo' /\ cuts = 0 /\ cuts' > 0
  BY <1>1, CutSurvived, Frame
<1>3. SUFFICES Durable'
  BY <1>1, <1>2, CutSurvived
<1>4. /\ Revertible \/ Swapped => Revertible'
      /\ Swapped => Swapped'
  BY <1>1, <1>2, Frame DEF Swapped
<1>5. Stage
  BY DEF SwapInv
<1>6. CASE pc = "check"
  BY <1>1, <1>2, <1>4, <1>5, <1>6, Frame DEF Stage, Durable
<1>7. CASE pc \in {"fixErase", "fixInit"}
  BY <1>1, <1>2, <1>4, <1>5, <1>7, Frame DEF Stage, Durable, AtFixup
<1>8. CASE pc \in {"initErase", "initStatus"}
  BY <1>1, <1>2, <1>4, <1>5, <1>8, Frame DEF Stage, Durable, AtInit, RunningRevert, Recalled
<1>9. CASE pc = "clearSec"
  <2>1. AtClear
    BY <1>5, <1>9 DEF Stage
  <2>2. CASE RunningUpdate /\ secT.magic = "good"
    BY <1>1, <1>2, <2>1, <2>2, Frame DEF Durable, AtClear, RunningRevert, RunningUpdate
  <2>3. CASE RunningUpdate /\ secT.magic # "good"
    <3>1. GoingOn
      BY <2>1, <2>3, Sizes DEF AtClear, RunningUpdate, RunningRevert, GoingOn, TypeOK, Sized
    <3> QED BY <1>1, <1>2, <3>1, Frame DEF Durable
  <2>4. CASE RunningRevert
    <3>1. AsksRevert(secT) /\ bs.pos = 0 /\ RevertLayout(Discarded, Restored, 0) /\ Revertible
      BY <1>2, <2>1, <2>4 DEF AtClear, RunningUpdate, RunningRevert
    <3>2. Recalled
      BY <1>1, <3>1, Involved, RevertEnds DEF Recalled, Beside
    <3> QED BY <1>1, <1>2, <3>2, Frame DEF Durable
  <2> QED BY <2>1, <2>2, <2>3, <2>4 DEF AtClear
<1>10. CASE pc \in {"save", "move", "status"}
  <2>1. GoingOn \/ GoingBack
    BY <1>5, <1>10 DEF Stage, Written, UpdateCopying, RevertCopying
  <2> QED BY <1>1, <1>2, <2>1, Frame DEF Durable
<1>11. CASE pc \in {"spare", "tail", "imageOk", "copyDone"}
  <2>1. GoingOn \/ GoingBack \/ Steady
    BY <1>5, <1>11 DEF Stage, Restoring, UpdateCopying
  <2> QED BY <1>1, <1>2, <2>1, Frame DEF Durable
<1>12. CASE pc \in {"wipe", "wipeTail"}
  BY <1>1, <1>2, <1>5, <1>12, Frame DEF Stage, Durable
<1>13. CASE pc \in {"overErase", "overCopy"}
  BY <1>1, <1>2, <1>5, <1>13, Frame DEF Stage, Durable
<1> QED BY <1>1, <1>6, <1>7, <1>8, <1>9, <1>10, <1>11, <1>12, <1>13 DEF TypeOK

----------------------------------------------------------------------------
(* The operations of a swap.                                               *)

(* What a cut leaves of a trailer is no request, and what is written anew  *)
(* is not confirmed.                                                       *)
LEMMA TornTrailers ==
  ASSUME NEW t \in Trailer, NEW m \in {"unset", "bad", "good"}
  PROVE  /\ \A u \in TornTrailer(t) : u \in Trailer /\ (u = t \/ (u.magic = "bad" /\ ~u.ok))
         /\ \A u \in TornInit(t) :
              /\ u \in Trailer /\ u.magic \in {"unset", "bad"}
              /\ u.ok = t.ok
         /\ NoTrailer.magic = "unset" /\ ~NoTrailer.ok
<1>1. \A u \in TornTrailer(t) : u = t \/ (u.magic = "bad" /\ ~u.ok)
  BY DEF TornTrailer, NoTrailer
<1>2. \A u \in TornInit(t) : u.magic \in {"unset", "bad"} /\ u.ok = t.ok
  BY DEF TornInit, Trailer
<1> QED BY <1>1, <1>2, TrailerTypes DEF NoTrailer

LEMMA InitialTrailers ==
  ASSUME TypeOK
  PROVE  /\ InitialTrailer \in Trailer
         /\ InitialTrailer.magic = "good" /\ InitialTrailer.type = bs.type
         /\ ~InitialTrailer.done /\ InitialTrailer.ok = secT.ok
         /\ InitialTrailer.size = bs.size /\ InitialTrailer.status = 0
<1>1. /\ bs.type \in {"none", "test", "revert"} /\ bs.size \in 0 .. Pages /\ secT.ok \in BOOLEAN
      /\ 0 \in 0 .. 2 * Pages
  BY Sizes DEF TypeOK, Trailer
<1>2. InitialTrailer \in Trailer
  BY <1>1, TrailerTypes DEF InitialTrailer, Trailer
<1>3. /\ InitialTrailer.magic = "good" /\ InitialTrailer.type = bs.type
      /\ InitialTrailer.done = FALSE /\ InitialTrailer.ok = secT.ok
      /\ InitialTrailer.size = bs.size /\ InitialTrailer.status = 0
  BY DEF InitialTrailer, NoTrailer
<1> QED BY <1>2, <1>3

(* A step that changes only trailers leaves the images where they are.     *)
LEMMA TrailerFrame ==
  ASSUME pri' = pri, sec' = sec, history' = history
  PROVE  /\ running' = running /\ onTrial' = onTrial /\ fallback' = fallback
         /\ scheduled' = scheduled
         /\ Revertible' = Revertible /\ Beside' = Beside
         /\ Discarded' = Discarded /\ Restored' = Restored
         /\ Span(running, scheduled)' = Span(running, scheduled)
         /\ Span(Discarded, Restored)' = Span(Discarded, Restored)
         /\ \A i, off : Stored(pri, off, i)' = Stored(pri, off, i)
         /\ \A i, off : Stored(sec, off, i)' = Stored(sec, off, i)
         /\ \A i, j, p : /\ UpdateLayout(i, j, p)' = UpdateLayout(i, j, p)
                         /\ RevertLayout(i, j, p)' = RevertLayout(i, j, p)
<1>1. UNCHANGED <<running, onTrial, fallback, scheduled>>
  BY DEF history
<1>2. \A i, j, p : /\ UpdateLayout(i, j, p)' = UpdateLayout(i, j, p)
                   /\ RevertLayout(i, j, p)' = RevertLayout(i, j, p)
  BY DEF UpdateLayout, RevertLayout, Span, Larger
<1>3. /\ Revertible' = Revertible
      /\ Discarded' = Discarded /\ Restored' = Restored
  BY <1>1 DEF Revertible, Discarded, Restored
<1>4. Beside' = Beside
  BY <1>1, <1>3 DEF Beside, Stored
<1> QED BY <1>1, <1>2, <1>3, <1>4 DEF Span, Larger, Stored

LEMMA RegistersFrame ==
  ASSUME pri' = pri, sec' = sec, history' = history, bs' = bs, cuts' = cuts
  PROVE  RunningUpdate' = RunningUpdate /\ RunningRevert' = RunningRevert /\ MayUndo' = MayUndo
BY TrailerFrame DEF RunningUpdate, RunningRevert, Sized, MayUndo

(* fixup_revert                                                            *)
LEMMA FixupStep ==
  ASSUME TypeOK, Benign, SwapInv, FixupErase \/ FixupInit
  PROVE  SwapInv'
<1>1. /\ AtFixup /\ ImagesInv /\ ~secT.ok /\ secT \in Trailer
      /\ pri' = pri /\ sec' = sec /\ priT' = priT /\ history' = history
  BY DEF FixupErase, FixupInit, At, SwapInv, Stage, ImagesInv, TypeOK
<1> DEFINE t == [InitialTrailer EXCEPT !.done = TRUE]
<1>2. t \in Trailer /\ AsksRevert(t)
  <2>1. InitialTrailer \in Trailer /\ InitialTrailer.magic = "good" /\ InitialTrailer.ok = secT.ok
    BY InitialTrailers
  <2>2. t.magic = "good" /\ t.done = TRUE /\ t.ok = secT.ok /\ t \in Trailer
    BY <2>1 DEF Trailer
  <2> QED BY <1>1, <2>2 DEF AsksRevert
<1>3. CASE ~Cut
  <2>1. /\ cuts' = cuts /\ bs' = bs
        /\ \/ pc' = "fixInit" /\ secT' = NoTrailer
           \/ /\ pc' = (IF bs.primarySource THEN "clearSec" ELSE "initErase")
              /\ secT' = t
    BY <1>3 DEF FixupErase, FixupInit, Go
  <2>2. ImagesInv'
    <3>1. ~secT'.ok
      BY <1>1, <1>2, <2>1, TornTrailers DEF AsksRevert
    <3> QED BY <1>1, <3>1, TrailerFrame DEF ImagesInv
  <2>3. CASE secT' = NoTrailer /\ pc' = "fixInit"
    <3>1. cuts = 0 /\ ~bs.primarySource => Swapped'
      BY <1>1, <2>1, <2>3, TornTrailers, TrailerFrame DEF AtFixup, Swapped
    <3>2. AtFixup'
      BY <1>1, <2>1, <3>1, TrailerFrame, RegistersFrame DEF AtFixup, RevertTrailer
    <3> QED BY <2>2, <2>3, <3>2 DEF SwapInv, Stage
  <2>4. CASE secT' = t /\ ~bs.primarySource /\ pc' = "initErase"
    <3>1. AtInit'
      BY <1>1, <1>2, <2>1, <2>4, TrailerFrame, RegistersFrame DEF AtFixup, AtInit
    <3> QED BY <2>2, <2>4, <3>1 DEF SwapInv, Stage
  <2>5. CASE secT' = t /\ bs.primarySource /\ pc' = "clearSec"
    <3>1. AtClear'
      BY <1>1, <1>2, <2>1, <2>5, TrailerFrame, RegistersFrame DEF AtFixup, AtClear, RevertTrailer
    <3> QED BY <2>2, <2>5, <3>1 DEF SwapInv, Stage
  <2> QED BY <2>1, <2>3, <2>4, <2>5
<1>4. CASE Cut
  <2>1. cuts = 0 /\ cuts' > 0
    BY <1>4, Sizes DEF Cut, TypeOK, Benign
  <2>2. Swapped
    BY <1>1, <2>1 DEF AtFixup
  <2>3. secT'.magic # "good" /\ ~secT'.ok
    <3>1. CASE secT' \in TornTrailer(secT)
      BY <1>1, <2>2, <3>1, TornTrailers DEF Swapped
    <3>2. CASE secT' \in TornInit(t)
      <4>1. ~t.ok
        BY <1>2 DEF AsksRevert
      <4> QED BY <1>2, <3>2, <4>1, TornTrailers
    <3>3. secT' = NoTrailer => secT'.magic # "good" /\ ~secT'.ok
      BY <1>1, TornTrailers
    <3>4. ~(pc' \in {"fixInit", "clearSec", "initErase"})
      BY <1>4 DEF Cut
    <3> QED BY <3>1, <3>2, <3>3, <3>4 DEF FixupErase, FixupInit, Go
  <2>4. Swapped'
    BY <1>1, <2>1, <2>2, <2>3, TrailerFrame DEF Swapped
  <2>5. ImagesInv'
    BY <1>1, <2>3, TrailerFrame DEF ImagesInv
  <2> QED BY <1>4, <2>4, <2>5, CutSurvived DEF Durable
<1> QED BY <1>3, <1>4

(* The trailer of the primary slot replaced by that of a new exchange.     *)
LEMMA InitStep ==
  ASSUME TypeOK, Benign, SwapInv, InitErase \/ InitStatus
  PROVE  SwapInv'
<1>1. /\ AtInit /\ ImagesInv /\ ~secT.ok
      /\ pri' = pri /\ sec' = sec /\ secT' = secT /\ history' = history
  BY DEF InitErase, InitStatus, At, SwapInv, Stage, ImagesInv
<1>2. ImagesInv'
  BY <1>1, TrailerFrame DEF ImagesInv
<1>3. /\ Scheduled => Scheduled'
      /\ Recalled => Recalled'
  BY <1>1, TrailerFrame DEF Scheduled, Recalled
<1>4. CASE cuts' = cuts /\ bs' = bs /\ pc' = "initStatus"
  <2>1. AtInit'
    BY <1>1, <1>3, <1>4, TrailerFrame, RegistersFrame DEF AtInit
  <2> QED BY <1>2, <1>4, <2>1 DEF SwapInv, Stage
<1>5. CASE cuts' = cuts /\ bs' = bs /\ pc' = "clearSec" /\ priT' = InitialTrailer
  <2>1. /\ priT'.magic = "good" /\ priT'.type = bs.type /\ ~priT'.done /\ ~priT'.ok
        /\ priT'.size = bs.size /\ priT'.status = 0 /\ bs.pos = 0
    BY <1>1, <1>5, InitialTrailers DEF AtInit
  <2>2. CASE RunningUpdate /\ Scheduled
    <3>1. UpdateLayout(running, scheduled, 0)
      BY <1>1, <2>2, Involved, UpdateEnds DEF Scheduled
    <3>2. UpdateLayout(running, scheduled, bs.pos)'
      BY <1>1, <1>5, <2>1, <3>1, TrailerFrame
    <3>3. RunningUpdate' /\ Scheduled' /\ UpdateTrailer'
      BY <1>1, <1>3, <1>5, <2>1, <2>2, RegistersFrame DEF UpdateTrailer, RunningUpdate
    <3>4. AtClear'
      BY <1>5, <2>1, <3>2, <3>3 DEF AtClear
    <3> QED BY <1>2, <1>5, <3>4 DEF SwapInv, Stage
  <2>3. CASE RunningRevert /\ Beside /\ (cuts = 0 => AsksRevert(secT))
    <3>1. RevertLayout(Discarded, Restored, 0)
      BY <1>1, <2>3, Involved, RevertEnds DEF Beside, RunningRevert
    <3>2. RevertLayout(Discarded, Restored, bs.pos)'
      BY <1>1, <1>5, <2>1, <3>1, TrailerFrame
    <3>3. RunningRevert' /\ RevertTrailer'
      BY <1>1, <1>5, <2>1, <2>3, RegistersFrame DEF RevertTrailer, RunningRevert
    <3>4. AtClear'
      BY <1>1, <1>5, <2>1, <2>3, <3>2, <3>3 DEF AtClear
    <3> QED BY <1>2, <1>5, <3>4 DEF SwapInv, Stage
  <2> QED BY <1>1, <2>2, <2>3 DEF AtInit
<1>6. CASE Cut
  <2>1. Scheduled \/ (AsksRevert(secT) /\ Beside /\ Revertible)
    BY <1>1, <1>2, <1>6, CutSurvived DEF AtInit, RunningRevert
  <2>2. Scheduled' \/ Recalled'
    BY <1>3, <2>1 DEF Recalled
  <2> QED BY <1>2, <1>6, <2>2, CutSurvived DEF Durable
<1> QED BY <1>4, <1>5, <1>6 DEF InitErase, InitStatus, Go

(* The request in the secondary slot goes last.                            *)
LEMMA ClearStep ==
  ASSUME TypeOK, Benign, SwapInv, ClearSec
  PROVE  SwapInv'
<1>1. /\ AtClear /\ ImagesInv /\ ~secT.ok /\ secT \in Trailer
      /\ pri' = pri /\ sec' = sec /\ priT' = priT /\ history' = history
  BY DEF ClearSec, At, SwapInv, Stage, ImagesInv, TypeOK
<1>2. ~secT'.ok
  BY <1>1, TornTrailers DEF ClearSec
<1>3. ImagesInv'
  BY <1>1, <1>2, TrailerFrame DEF ImagesInv
<1>4. /\ bs.pos \in Nat /\ bs.pos <= 1 /\ bs.size >= 2 /\ bs.size \in Nat
      /\ Lo(bs.pos) \in Nat /\ Lo(bs.pos) < bs.size /\ Lo(bs.pos) = bs.pos \div 2
  <2>1. bs.pos \in Nat /\ bs.pos <= 1 /\ bs.size \in Nat
    BY <1>1 DEF AtClear, TypeOK
  <2>2. bs.size >= 2
    BY <1>1, Involved, Spans DEF AtClear, RunningUpdate, RunningRevert, Sized
  <2> QED BY <2>1, <2>2 DEF Lo
<1>5. CASE secT' = NoTrailer /\ cuts' = cuts /\ bs' = bs /\ pc' = CopyStep(bs)
  <2>1. secT'.magic = "unset"
    BY <1>1, <1>5, TornTrailers
  <2>2. pc' \in {"save", "move"} /\ (bs.pos % 2 = IF pc' = "save" THEN 0 ELSE 1)
    BY <1>4, <1>5 DEF CopyStep
  <2>3. UpdateCopying' \/ RevertCopying'
    <3>1. CASE RunningUpdate
      <4>1. RunningUpdate' /\ UpdateTrailer' /\ UpdateLayout(running, scheduled, bs.pos)'
        BY <1>1, <1>5, <3>1, TrailerFrame, RegistersFrame
           DEF AtClear, UpdateTrailer, RunningUpdate, RunningRevert
      <4>2. GoingOn'
        BY <1>1, <1>4, <1>5, <2>1, <4>1 DEF GoingOn, AtClear, RunningUpdate, Sized
      <4> QED BY <1>1, <1>5, <2>1, <4>1, <4>2 DEF UpdateCopying, AtClear
    <3>2. CASE RunningRevert
      <4>1. /\ RunningRevert' /\ RevertTrailer' /\ ~priT'.ok
            /\ RevertLayout(Discarded, Restored, bs.pos)'
        BY <1>1, <1>5, <3>2, TrailerFrame, RegistersFrame
           DEF AtClear, RevertTrailer, RunningUpdate, RunningRevert
      <4>2. GoingBack'
        BY <1>1, <1>4, <1>5, <2>1, <4>1 DEF GoingBack, AtClear, RunningRevert, Sized
      <4> QED BY <1>1, <1>5, <4>1, <4>2 DEF RevertCopying, AtClear
    <3> QED BY <1>1, <3>1, <3>2 DEF AtClear
  <2> QED BY <1>3, <1>4, <1>5, <2>2, <2>3 DEF SwapInv, Stage
<1>6. CASE secT' \in TornTrailer(secT) /\ Cut
  <2>1. secT' = secT \/ secT'.magic = "bad"
    BY <1>1, <1>6, TornTrailers
  <2>2. cuts = 0 /\ cuts' > 0
    BY <1>3, <1>6, CutSurvived
  <2> SUFFICES Durable'
    BY <1>3, <1>6, CutSurvived
  <2>3. CASE RunningUpdate
    <3>1. CASE secT'.magic = "good"
      BY <1>1, <2>1, <2>3, <3>1, TrailerFrame DEF AtClear, RunningUpdate, RunningRevert,
           Scheduled, Durable
    <3>2. CASE secT'.magic # "good"
      <4>1. UpdateTrailer' /\ UpdateLayout(running, scheduled, priT.status)'
        BY <1>1, <2>3, TrailerFrame DEF AtClear, RunningUpdate, RunningRevert, UpdateTrailer
      <4>2. GoingOn'
        BY <1>1, <1>4, <2>3, <3>2, <4>1, TrailerFrame DEF GoingOn, AtClear, RunningUpdate, Sized
      <4> QED BY <4>2 DEF Durable
    <3> QED BY <3>1, <3>2
  <2>4. CASE RunningRevert
    <3>1. /\ AsksRevert(secT) /\ RevertTrailer /\ ~priT.ok /\ bs.pos = 0 /\ Revertible
          /\ RevertLayout(Discarded, Restored, 0)
      BY <1>1, <2>2, <2>4 DEF AtClear, RunningUpdate, RunningRevert
    <3>2. CASE secT' = secT
      <4>1. Beside
        BY <1>1, <3>1, Involved, RevertEnds DEF Beside
      <4> QED BY <1>1, <2>2, <3>1, <3>2, <4>1, TrailerFrame DEF Recalled, Durable
    <3>3. CASE secT'.magic = "bad"
      <4>1. RevertTrailer' /\ ~priT'.ok /\ RevertLayout(Discarded, Restored, priT.status)'
        BY <1>1, <3>1, TrailerFrame DEF AtClear, RevertTrailer
      <4>2. GoingBack'
        BY <1>1, <1>4, <2>4, <3>1, <3>3, <4>1, TrailerFrame
           DEF GoingBack, AtClear, RunningRevert, Sized
      <4> QED BY <2>2, <4>2 DEF Durable
    <3> QED BY <2>1, <3>2, <3>3
  <2> QED BY <1>1, <2>3, <2>4 DEF AtClear
<1> QED BY <1>5, <1>6 DEF ClearSec, Go

(* A step of the exchange leaves all but its pages alone.                  *)
LEMMA CopyFrame ==
  ASSUME priT' = priT, secT' = secT, history' = history
  PROVE  /\ running' = running /\ scheduled' = scheduled /\ onTrial' = onTrial
         /\ Revertible' = Revertible /\ Discarded' = Discarded /\ Restored' = Restored
         /\ Span(running, scheduled)' = Span(running, scheduled)
         /\ Span(Discarded, Restored)' = Span(Discarded, Restored)
         /\ ImagesInv' = ImagesInv
         /\ GoingOn /\ UpdateLayout(running, scheduled, priT.status)' => GoingOn'
         /\ GoingBack /\ RevertLayout(Discarded, Restored, priT.status)' => GoingBack'
         /\ bs' = bs /\ cuts' = cuts =>
              /\ RunningUpdate' = RunningUpdate /\ RunningRevert' = RunningRevert
<1>1. UNCHANGED <<running, onTrial, fallback, scheduled>>
  BY DEF history
<1>2. /\ Revertible' = Revertible /\ Discarded' = Discarded /\ Restored' = Restored
      /\ ImagesInv' = ImagesInv
  BY <1>1 DEF Revertible, Discarded, Restored, ImagesInv
<1>3. /\ Span(running, scheduled)' = Span(running, scheduled)
      /\ Span(Discarded, Restored)' = Span(Discarded, Restored)
  BY <1>1, <1>2 DEF Span, Larger
<1>4. GoingOn /\ UpdateLayout(running, scheduled, priT.status)' => GoingOn'
  BY <1>1, <1>3 DEF GoingOn, UpdateTrailer
<1>5. GoingBack /\ RevertLayout(Discarded, Restored, priT.status)' => GoingBack'
  BY <1>1, <1>2, <1>3 DEF GoingBack, RevertTrailer
<1>6. bs' = bs /\ cuts' = cuts =>
        RunningUpdate' = RunningUpdate /\ RunningRevert' = RunningRevert
  BY <1>1, <1>2, <1>3 DEF RunningUpdate, RunningRevert, Sized, MayUndo
<1> QED BY <1>1, <1>2, <1>3, <1>4, <1>5, <1>6

(* Where an exchange stands.                                               *)
LEMMA UpdateStands ==
  ASSUME TypeOK, ImagesInv, UpdateCopying
  PROVE  /\ running \in Images /\ scheduled \in Images
         /\ bs.pos \in Nat /\ Lo(bs.pos) \in Nat /\ Lo(bs.pos) = bs.pos \div 2
         /\ bs.size = Span(running, scheduled) /\ bs.size \in Nat /\ priT.status = bs.pos
         /\ Index = Lo(bs.pos) /\ ~Reverting
         /\ UpdateLayout(running, scheduled, bs.pos)
         /\ Beyond(Index, bs.usedPri) => Lo(bs.pos) >= Size[running]
         /\ Beyond(Index, bs.usedSec) => Lo(bs.pos) >= Size[scheduled]
<1>1. running \in Images /\ scheduled \in Images
  BY Involved DEF UpdateCopying, RunningUpdate
<1>2. bs.pos \in Nat /\ Lo(bs.pos) \in Nat /\ Lo(bs.pos) = bs.pos \div 2
  <2>1. bs.pos \in Nat
    BY DEF TypeOK
  <2> QED BY <2>1, Halves
<1>3. ~Reverting /\ Index = Lo(bs.pos)
  BY <1>2 DEF UpdateCopying, RunningUpdate, Reverting, Index
<1>4. bs.usedPri \in Nat /\ bs.usedSec \in Nat /\ bs.size \in Nat
      /\ Size[running] \in Nat /\ Size[scheduled] \in Nat
  <2>1. bs.usedPri \in Nat /\ bs.usedSec \in Nat /\ bs.size \in Nat
    BY Sizes DEF TypeOK
  <2> QED BY <1>1, <2>1, Sizes
<1> QED BY <1>1, <1>2, <1>3, <1>4 DEF UpdateCopying, RunningUpdate, Sized, GoingOn, Beyond

LEMMA RevertStands ==
  ASSUME TypeOK, ImagesInv, RevertCopying
  PROVE  /\ Discarded \in Images /\ Restored \in Images
         /\ bs.pos \in Nat /\ Lo(bs.pos) \in Nat /\ Lo(bs.pos) = bs.pos \div 2
         /\ bs.size = Span(Discarded, Restored) /\ bs.size \in Nat /\ priT.status = bs.pos
         /\ Index = Span(Discarded, Restored) - 1 - Lo(bs.pos) /\ Reverting
         /\ RevertLayout(Discarded, Restored, bs.pos)
         /\ Beyond(Index, bs.usedPri) => Index >= Size[Discarded]
         /\ Beyond(Index, bs.usedSec) => Index >= Size[Restored]
<1>1. Discarded \in Images /\ Restored \in Images
  BY Involved DEF RevertCopying, RunningRevert
<1>2. bs.pos \in Nat /\ Lo(bs.pos) \in Nat /\ Lo(bs.pos) = bs.pos \div 2
  <2>1. bs.pos \in Nat
    BY DEF TypeOK
  <2> QED BY <2>1, Halves
<1>3. bs.size = Span(Discarded, Restored) /\ bs.type = "revert"
  BY DEF RevertCopying, RunningRevert, Sized
<1>4. Reverting /\ Index = Span(Discarded, Restored) - 1 - Lo(bs.pos)
  BY <1>2, <1>3 DEF Reverting, Index
<1>5. bs.usedPri \in Nat /\ bs.usedSec \in Nat /\ bs.size \in Nat
      /\ Size[Discarded] \in Nat /\ Size[Restored] \in Nat
  <2>1. bs.usedPri \in Nat /\ bs.usedSec \in Nat /\ bs.size \in Nat
    BY Sizes DEF TypeOK
  <2> QED BY <1>1, <2>1, Sizes
<1>6. Index \in Int
  BY <1>2, <1>3, <1>4, <1>5
<1> QED BY <1>1, <1>2, <1>3, <1>4, <1>5, <1>6
     DEF RevertCopying, RunningRevert, Sized, GoingBack, Beyond

(* What half of an exchange leaves, done or cut.                           *)
LEMMA HalfCut ==
  ASSUME TypeOK, Benign, SwapInv, priT' = priT, secT' = secT, history' = history, Cut,
         \/ UpdateCopying /\ UpdateLayout(running, scheduled, priT.status)'
         \/ RevertCopying /\ RevertLayout(Discarded, Restored, priT.status)'
  PROVE  SwapInv'
<1>1. ImagesInv' /\ (GoingOn' \/ GoingBack')
  BY CopyFrame DEF SwapInv, UpdateCopying, RevertCopying
<1>2. cuts' > 0
  BY <1>1, CutSurvived
<1> QED BY <1>1, <1>2, CutSurvived DEF Durable

LEMMA HalfDone ==
  ASSUME TypeOK, SwapInv, priT' = priT, secT' = secT, history' = history, bs' = bs, cuts' = cuts,
         Lo(bs.pos) < bs.size, pc' = "status",
         \/ /\ UpdateCopying /\ UpdateLayout(running, scheduled, priT.status)'
            /\ UpdateLayout(running, scheduled, priT.status + 1)'
         \/ /\ RevertCopying /\ RevertLayout(Discarded, Restored, priT.status)'
            /\ RevertLayout(Discarded, Restored, priT.status + 1)'
  PROVE  SwapInv'
<1>1. ImagesInv'
  BY CopyFrame DEF SwapInv
<1>2. Written'
  BY CopyFrame DEF Written, UpdateCopying, RevertCopying
<1>3. Lo(bs.pos)' < bs'.size
  BY DEF Lo
<1> QED BY <1>1, <1>2, <1>3 DEF SwapInv, Stage

LEMMA SaveStep ==
  ASSUME TypeOK, Benign, SwapInv, SavePage
  PROVE  SwapInv'
<1>1. /\ UpdateCopying \/ RevertCopying
      /\ Lo(bs.pos) < bs.size /\ bs.pos % 2 = 0 /\ ImagesInv
      /\ pri' = pri /\ priT' = priT /\ secT' = secT /\ history' = history
  BY DEF SavePage, At, SwapInv, Stage
<1>2. CASE UpdateCopying
  <2>1. /\ running \in Images /\ scheduled \in Images /\ priT.status \in Nat
        /\ Lo(priT.status) < Span(running, scheduled) /\ priT.status % 2 = 0
        /\ UpdateLayout(running, scheduled, priT.status)
        /\ Index = Lo(priT.status) /\ ~Reverting
        /\ Beyond(Index, bs.usedPri) => Lo(priT.status) >= Size[running]
    BY <1>1, <1>2, UpdateStands
  <2>2. running' = running /\ scheduled' = scheduled
    BY <1>1, CopyFrame
  <2>3. ASSUME NEW v, sec' = [sec EXCEPT ![Index] = v]
        PROVE  /\ UpdateLayout(running, scheduled, priT.status)'
               /\ v = pri[Index] => UpdateLayout(running, scheduled, priT.status + 1)'
    BY <1>1, <2>1, <2>2, <2>3, UpdateSave
  <2>4. sec' = sec /\ Beyond(Index, bs.usedPri) =>
          /\ UpdateLayout(running, scheduled, priT.status)'
          /\ UpdateLayout(running, scheduled, priT.status + 1)'
    <3>1. Beyond(Index, bs.usedPri) => UpdateLayout(running, scheduled, priT.status + 1)
      BY <2>1, UpdateSkip
    <3> QED BY <1>1, <2>1, <2>2, <3>1, TrailerFrame
  <2>5. CASE Cut
    BY <1>1, <1>2, <2>1, <2>3, <2>5, HalfCut DEF SavePage, Go, Cut
  <2>6. CASE ~Cut
    BY <1>1, <1>2, <2>1, <2>3, <2>4, <2>6, HalfDone DEF SavePage, Go
  <2> QED BY <2>5, <2>6
<1>3. CASE RevertCopying
  <2>1. /\ Discarded \in Images /\ Restored \in Images /\ priT.status \in Nat
        /\ Lo(priT.status) < Span(Discarded, Restored) /\ priT.status % 2 = 0
        /\ RevertLayout(Discarded, Restored, priT.status)
        /\ Index = Span(Discarded, Restored) - 1 - Lo(priT.status) /\ Reverting
        /\ Beyond(Index, bs.usedPri) => Index >= Size[Discarded]
    BY <1>1, <1>3, RevertStands
  <2>2. Discarded' = Discarded /\ Restored' = Restored
    BY <1>1, CopyFrame
  <2>3. ASSUME NEW v, sec' = [sec EXCEPT ![Index + 1] = v]
        PROVE  /\ RevertLayout(Discarded, Restored, priT.status)'
               /\ v = pri[Index] => RevertLayout(Discarded, Restored, priT.status + 1)'
    BY <1>1, <2>1, <2>2, <2>3, RevertSave
  <2>4. sec' = sec /\ Beyond(Index, bs.usedPri) =>
          /\ RevertLayout(Discarded, Restored, priT.status)'
          /\ RevertLayout(Discarded, Restored, priT.status + 1)'
    <3>1. Beyond(Index, bs.usedPri) => RevertLayout(Discarded, Restored, priT.status + 1)
      BY <2>1, RevertSkip
    <3> QED BY <1>1, <2>1, <2>2, <3>1, TrailerFrame
  <2>5. CASE Cut
    BY <1>1, <1>3, <2>1, <2>3, <2>5, HalfCut DEF SavePage, Go, Cut
  <2>6. CASE ~Cut
    BY <1>1, <1>3, <2>1, <2>3, <2>4, <2>6, HalfDone DEF SavePage, Go
  <2> QED BY <2>5, <2>6
<1> QED BY <1>1, <1>2, <1>3

LEMMA MoveStep ==
  ASSUME TypeOK, Benign, SwapInv, MovePage
  PROVE  SwapInv'
<1>1. /\ UpdateCopying \/ RevertCopying
      /\ Lo(bs.pos) < bs.size /\ bs.pos % 2 # 0 /\ ImagesInv
      /\ sec' = sec /\ priT' = priT /\ secT' = secT /\ history' = history
  BY DEF MovePage, At, SwapInv, Stage
<1>2. CASE UpdateCopying
  <2>1. /\ running \in Images /\ scheduled \in Images /\ priT.status \in Nat
        /\ Lo(priT.status) < Span(running, scheduled) /\ priT.status % 2 # 0
        /\ UpdateLayout(running, scheduled, priT.status)
        /\ Index = Lo(priT.status) /\ ~Reverting
        /\ Beyond(Index, bs.usedSec) => Lo(priT.status) >= Size[scheduled]
    BY <1>1, <1>2, UpdateStands
  <2>2. running' = running /\ scheduled' = scheduled
    BY <1>1, CopyFrame
  <2>3. ASSUME NEW v, pri' = [pri EXCEPT ![Index] = v]
        PROVE  /\ UpdateLayout(running, scheduled, priT.status)'
               /\ v = sec[Index + 1] => UpdateLayout(running, scheduled, priT.status + 1)'
    BY <1>1, <2>1, <2>2, <2>3, UpdateMove
  <2>4. pri' = pri /\ Beyond(Index, bs.usedSec) =>
          /\ UpdateLayout(running, scheduled, priT.status)'
          /\ UpdateLayout(running, scheduled, priT.status + 1)'
    <3>1. Beyond(Index, bs.usedSec) => UpdateLayout(running, scheduled, priT.status + 1)
      BY <2>1, UpdateSkip
    <3> QED BY <1>1, <2>1, <2>2, <3>1, TrailerFrame
  <2>5. CASE Cut
    BY <1>1, <1>2, <2>1, <2>3, <2>5, HalfCut DEF MovePage, Go, Cut
  <2>6. CASE ~Cut
    BY <1>1, <1>2, <2>1, <2>3, <2>4, <2>6, HalfDone DEF MovePage, Go
  <2> QED BY <2>5, <2>6
<1>3. CASE RevertCopying
  <2>1. /\ Discarded \in Images /\ Restored \in Images /\ priT.status \in Nat
        /\ Lo(priT.status) < Span(Discarded, Restored) /\ priT.status % 2 # 0
        /\ RevertLayout(Discarded, Restored, priT.status)
        /\ Index = Span(Discarded, Restored) - 1 - Lo(priT.status) /\ Reverting
        /\ Beyond(Index, bs.usedSec) => Index >= Size[Restored]
    BY <1>1, <1>3, RevertStands
  <2>2. Discarded' = Discarded /\ Restored' = Restored
    BY <1>1, CopyFrame
  <2>3. ASSUME NEW v, pri' = [pri EXCEPT ![Index] = v]
        PROVE  /\ RevertLayout(Discarded, Restored, priT.status)'
               /\ v = sec[Index] => RevertLayout(Discarded, Restored, priT.status + 1)'
    BY <1>1, <2>1, <2>2, <2>3, RevertMove
  <2>4. pri' = pri /\ Beyond(Index, bs.usedSec) =>
          /\ RevertLayout(Discarded, Restored, priT.status)'
          /\ RevertLayout(Discarded, Restored, priT.status + 1)'
    <3>1. Beyond(Index, bs.usedSec) => RevertLayout(Discarded, Restored, priT.status + 1)
      BY <2>1, RevertSkip
    <3> QED BY <1>1, <2>1, <2>2, <3>1, TrailerFrame
  <2>5. CASE Cut
    BY <1>1, <1>3, <2>1, <2>3, <2>5, HalfCut DEF MovePage, Go, Cut
  <2>6. CASE ~Cut
    BY <1>1, <1>3, <2>1, <2>3, <2>4, <2>6, HalfDone DEF MovePage, Go
  <2> QED BY <2>5, <2>6
<1> QED BY <1>1, <1>2, <1>3

(* boot_write_status: the next half of an exchange, or its end.            *)
LEMMA StatusStep ==
  ASSUME TypeOK, SwapInv, WriteStatus
  PROVE  SwapInv'
<1>1. /\ Written /\ Lo(bs.pos) < bs.size /\ ImagesInv
      /\ pri' = pri /\ sec' = sec /\ secT' = secT /\ history' = history /\ cuts' = cuts
      /\ bs' = [bs EXCEPT !.pos = bs.pos + 1] /\ priT' = [priT EXCEPT !.status = bs.pos + 1]
      /\ pc' = CopyStep(bs')
  BY DEF WriteStatus, At, Go, SwapInv, Stage
<1>2. bs \in BootState /\ priT \in Trailer
  BY DEF TypeOK, BootState
<1>3. /\ bs'.pos = bs.pos + 1 /\ bs'.type = bs.type /\ bs'.size = bs.size
      /\ bs'.usedPri = bs.usedPri /\ bs'.usedSec = bs.usedSec
      /\ priT'.status = bs.pos + 1 /\ priT'.magic = priT.magic /\ priT'.type = priT.type
      /\ priT'.done = priT.done /\ priT'.ok = priT.ok /\ priT'.size = priT.size
  BY <1>1, <1>2 DEF BootState, Trailer
<1>4. /\ bs.pos \in Nat /\ bs.size \in Nat /\ bs.pos + 1 \in Nat
      /\ bs.pos + 1 <= 2 * bs.size
      /\ Lo(bs.pos)' = bs'.pos \div 2
      /\ bs'.pos \div 2 < bs'.size => bs'.pos < 2 * bs'.size
      /\ ~(bs'.pos \div 2 < bs'.size) => bs'.pos = 2 * bs'.size
      /\ bs'.pos % 2 # 0 <=> bs'.pos % 2 = 1
  <2>1. bs.pos \in Nat /\ bs.size \in Nat
    BY <1>2 DEF BootState
  <2>2. bs.pos < 2 * bs.size
    BY <1>1, <2>1, Halves
  <2> QED BY <1>3, <2>1, <2>2 DEF Lo
<1>5. ImagesInv' /\ MayUndo' = MayUndo
  BY <1>1 DEF ImagesInv, history, MayUndo
<1>6. CASE UpdateCopying /\ UpdateLayout(running, scheduled, bs.pos + 1)
  <2>1. UpdateLayout(running, scheduled, priT.status)' /\ UpdateTrailer'
    BY <1>1, <1>3, <1>6, TrailerFrame DEF UpdateTrailer, UpdateCopying, GoingOn
  <2>2. priT.size = bs.size
    BY <1>6 DEF UpdateCopying, RunningUpdate, Sized, GoingOn
  <2>3. GoingOn'
    BY <1>1, <1>3, <1>4, <1>6, <2>1, <2>2, TrailerFrame DEF GoingOn, UpdateCopying
  <2>4. RunningUpdate'
    BY <1>1, <1>3, <1>4, <1>6, TrailerFrame DEF RunningUpdate, Sized, UpdateCopying
  <2>5. UpdateCopying'
    BY <1>1, <1>3, <1>6, <2>3, <2>4 DEF UpdateCopying
  <2>6. pc' \in {"save", "move", "copyDone"}
        /\ (pc' \in {"save", "move"} =>
              bs'.pos \div 2 < bs'.size /\ bs'.pos % 2 = IF pc' = "save" THEN 0 ELSE 1)
        /\ (pc' = "copyDone" => bs'.pos = 2 * bs'.size)
    BY <1>1, <1>4, <2>4 DEF CopyStep, RunningUpdate
  <2> QED BY <1>4, <1>5, <2>5, <2>6 DEF SwapInv, Stage
<1>7. CASE RevertCopying /\ RevertLayout(Discarded, Restored, bs.pos + 1)
  <2>1. RevertLayout(Discarded, Restored, priT.status)' /\ RevertTrailer'
    BY <1>1, <1>3, <1>7, TrailerFrame DEF RevertTrailer, RevertCopying, GoingBack
  <2>2. priT.size = bs.size
    BY <1>7 DEF RevertCopying, RunningRevert, Sized, GoingBack
  <2>3. GoingBack'
    BY <1>1, <1>3, <1>4, <1>7, <2>1, <2>2, TrailerFrame DEF GoingBack, RevertCopying
  <2>4. RunningRevert'
    BY <1>1, <1>3, <1>4, <1>5, <1>7, TrailerFrame DEF RunningRevert, Sized, RevertCopying
  <2>5. RevertCopying'
    BY <1>1, <1>3, <1>7, <2>3, <2>4 DEF RevertCopying
  <2>6. pc' \in {"save", "move", "spare"}
        /\ (pc' \in {"save", "move"} =>
              bs'.pos \div 2 < bs'.size /\ bs'.pos % 2 = IF pc' = "save" THEN 0 ELSE 1)
        /\ (pc' = "spare" => bs'.pos = 2 * bs'.size)
    BY <1>1, <1>4, <2>4 DEF CopyStep, RunningRevert
  <2>7. pc' = "spare" => Restoring'
    BY <1>3, <2>2, <2>3, <2>4, <2>6 DEF Restoring, RunningRevert
  <2> QED BY <1>4, <1>5, <2>5, <2>6, <2>7 DEF SwapInv, Stage
<1> QED BY <1>1, <1>6, <1>7 DEF Written

(* The end of a revert, and of a copy that replaced what did not boot.     *)
LEMMA RestoringKept ==
  ASSUME TypeOK, SwapInv, Restoring, history' = history, pri' = pri,
         sec' = sec \/ (\E v : sec' = [sec EXCEPT ![0] = v]),
         secT'.magic # "good" \/ secT' = secT, ~secT'.ok,
         priT' = priT \/ priT' = [priT EXCEPT !.ok = TRUE]
  PROVE  /\ ImagesInv' /\ (Steady' \/ (MayUndo /\ GoingBack' /\ priT'.status = 2 * priT'.size))
         /\ Cut /\ Benign => SwapInv'
         /\ bs' = bs /\ cuts' = cuts => Restoring'
<1>1. /\ running' = running /\ onTrial' = onTrial /\ fallback' = fallback
      /\ scheduled' = scheduled /\ ImagesInv' /\ ImagesInv
      /\ Revertible' = Revertible /\ Discarded' = Discarded /\ Restored' = Restored
  BY DEF history, SwapInv, ImagesInv, Revertible, Discarded, Restored
<1>2. /\ priT \in Trailer
      /\ priT'.magic = priT.magic /\ priT'.type = priT.type /\ priT'.done = priT.done
      /\ priT'.size = priT.size /\ priT'.status = priT.status
      /\ priT'.ok = priT.ok \/ priT'.ok = TRUE
  BY DEF TypeOK, Trailer
<1>3. CASE Steady
  <2>1. Steady'
    BY <1>1, <1>2, <1>3 DEF Steady, Stored, Quiet
  <2>2. Cut /\ Benign => SwapInv'
    BY <1>1, <2>1, CutSurvived DEF Durable
  <2> QED BY <1>1, <2>1, <2>2 DEF Restoring
<1>4. CASE MayUndo /\ GoingBack /\ priT.status = 2 * priT.size
  <2>1. /\ Discarded \in Images /\ Restored \in Images /\ Revertible
        /\ RevertLayout(Discarded, Restored, 2 * Span(Discarded, Restored))
        /\ Span(Discarded, Restored)' = Span(Discarded, Restored)
    BY <1>1, <1>4, Involved DEF GoingBack, Span, Larger
  <2>2. RevertLayout(Discarded, Restored, 2 * Span(Discarded, Restored))'
    <3>1. CASE sec' = sec
      BY <1>1, <2>1, <3>1 DEF RevertLayout
    <3>2. CASE \E v : sec' = [sec EXCEPT ![0] = v]
      BY <1>1, <2>1, <3>2, RevertSpare
    <3> QED BY <3>1, <3>2
  <2>3. GoingBack'
    BY <1>1, <1>2, <1>4, <2>1, <2>2 DEF GoingBack, RevertTrailer
  <2>4. Cut /\ Benign => SwapInv'
    BY <1>1, <2>3, CutSurvived DEF Durable
  <2> QED BY <1>1, <1>2, <1>4, <2>3, <2>4 DEF Restoring, MayUndo
<1> QED BY <1>3, <1>4 DEF Restoring

LEMMA SpareStep ==
  ASSUME TypeOK, Benign, SwapInv, EraseSpare \/ EraseTail
  PROVE  SwapInv'
<1>1. /\ Restoring /\ pri' = pri /\ priT' = priT /\ history' = history
      /\ secT \in Trailer /\ ~secT.ok /\ Reverting
  BY DEF EraseSpare, EraseTail, At, SwapInv, Stage, TypeOK, ImagesInv, Restoring, Reverting
<1>2. sec' = sec \/ (\E v : sec' = [sec EXCEPT ![0] = v])
  BY DEF EraseSpare, EraseTail
<1>3. (secT'.magic # "good" \/ secT' = secT) /\ ~secT'.ok
  BY <1>1, TornTrailers DEF EraseSpare, EraseTail
<1>4. /\ Cut => SwapInv'
      /\ bs' = bs /\ cuts' = cuts => Restoring' /\ ImagesInv'
  BY <1>1, <1>2, <1>3, RestoringKept
<1>5. Cut \/ (bs' = bs /\ cuts' = cuts /\ pc' \in {"tail", "imageOk"})
  BY <1>1 DEF EraseSpare, EraseTail, Go
<1> QED BY <1>4, <1>5 DEF SwapInv, Stage

LEMMA ImageOkStep ==
  ASSUME TypeOK, SwapInv, SetImageOk
  PROVE  SwapInv'
<1>1. /\ Restoring /\ pri' = pri /\ sec' = sec /\ secT' = secT /\ history' = history
      /\ priT' = [priT EXCEPT !.ok = TRUE] /\ bs' = bs /\ cuts' = cuts
      /\ ~secT'.ok /\ pc' = "copyDone" /\ priT \in Trailer
  BY DEF SetImageOk, At, Go, SwapInv, Stage, ImagesInv, Restoring, TypeOK
<1>2. Restoring' /\ ImagesInv'
  BY <1>1, RestoringKept
<1>3. priT'.ok
  BY <1>1 DEF Trailer
<1> QED BY <1>1, <1>2, <1>3 DEF SwapInv, Stage

LEMMA CopyDoneStep ==
  ASSUME TypeOK, SwapInv, SetCopyDone
  PROVE  SwapInv'
<1>1. /\ pri' = pri /\ sec' = sec /\ secT' = secT /\ history' = history
      /\ priT' = [priT EXCEPT !.done = TRUE] /\ bs' = bs /\ cuts' = cuts
      /\ pc' = "check" /\ priT \in Trailer /\ ImagesInv
      /\ (UpdateCopying /\ bs.pos = 2 * bs.size) \/ (Restoring /\ priT.ok)
  BY DEF SetCopyDone, At, Go, SwapInv, Stage, TypeOK
<1>2. /\ priT'.magic = priT.magic /\ priT'.done = TRUE /\ priT'.ok = priT.ok
  BY <1>1 DEF Trailer
<1>3. ImagesInv' /\ MayUndo' = MayUndo
  BY <1>1 DEF ImagesInv, history, MayUndo
<1>4. CASE UpdateCopying /\ bs.pos = 2 * bs.size
  <2>1. /\ scheduled \in SignedImages /\ running \in Images /\ scheduled \in Images
        /\ Revertible /\ Discarded = scheduled /\ Restored = running
        /\ UpdateLayout(running, scheduled, 2 * Span(running, scheduled))
        /\ UpdateTrailer /\ secT.magic = "unset" /\ ~onTrial
    BY <1>1, <1>4, Involved DEF UpdateCopying, RunningUpdate, Sized, GoingOn
  <2>2. Beside
    BY <2>1, UpdateEnds DEF Beside
  <2>3. Swapped' /\ ~onTrial' /\ secT'.magic = "unset"
    BY <1>1, <1>2, <2>1, <2>2, TrailerFrame DEF Swapped, UpdateTrailer
  <2> QED BY <1>1, <1>3, <2>3 DEF SwapInv, Stage
<1>5. CASE Restoring /\ priT.ok
  <2>1. CASE Steady
    <3>1. Steady'
      BY <1>1, <1>2, <2>1, TrailerFrame DEF Steady, Quiet
    <3> QED BY <1>1, <1>3, <3>1 DEF SwapInv, Stage
  <2>2. CASE MayUndo /\ GoingBack /\ priT.status = 2 * priT.size
    <3>1. /\ Revertible /\ Discarded \in Images /\ Restored \in Images
          /\ RevertLayout(Discarded, Restored, 2 * Span(Discarded, Restored))
          /\ secT.magic # "good"
      BY <1>1, <2>2, Involved DEF GoingBack
    <3>2. Stored(pri, 0, Restored) /\ Stored(sec, 1, Discarded)
      BY <3>1, RevertEnds
    <3>3. Reverted'
      BY <1>1, <1>2, <1>5, <3>1, <3>2, TrailerFrame DEF Reverted, Quiet
    <3> QED BY <1>1, <1>3, <2>2, <3>3 DEF SwapInv, Stage
  <2> QED BY <1>5, <2>1, <2>2 DEF Restoring
<1> QED BY <1>1, <1>4, <1>5

(* An image that does not pass is wiped.                                   *)
LEMMA WipeStep ==
  ASSUME TypeOK, Benign, SwapInv, Wipe
  PROVE  SwapInv'
<1>1. /\ Rejected /\ ~bs.primarySource /\ bs.pos \in 0 .. Pages
      /\ pri' = pri /\ priT' = priT /\ secT' = secT /\ history' = history
      /\ sec \in [0 .. Pages -> Page] /\ bs \in BootState /\ ImagesInv
  BY DEF Wipe, At, SwapInv, Stage, TypeOK, BootState
<1>2. ImagesInv'
  BY <1>1, CopyFrame
<1>3. 0 \in 0 .. Pages /\ 1 \in 0 .. Pages
  BY Sizes
<1>4. Header(Blank) = None /\ Header(Junk) = None
  BY DEF Header, Blank, Junk
<1>5. /\ Header(sec'[0]) = None
      /\ Header(sec'[1]) \in {None, scheduled}
  <2>1. PICK v : sec' = [sec EXCEPT ![bs.pos] = v] /\ (v = sec[bs.pos] \/ Header(v) = None)
    BY <1>4 DEF Wipe, TornErase
  <2> QED BY <1>1, <1>3, <2>1 DEF Rejected
<1>6. Rejected'
  BY <1>1, <1>5, CopyFrame DEF Rejected, Stored
<1>7. CASE Cut
  BY <1>2, <1>6, <1>7, CutSurvived DEF Durable
<1>8. CASE ~Cut
  <2>1. /\ bs' = [bs EXCEPT !.pos = bs.pos + 1] /\ cuts' = cuts
        /\ pc' = IF bs.pos = Pages THEN "wipeTail" ELSE "wipe"
    BY <1>8 DEF Wipe, Go
  <2>2. /\ ~bs'.primarySource /\ bs'.pos = bs.pos + 1
        /\ pc' = "wipe" => bs'.pos \in 0 .. Pages
    BY <1>1, <2>1, Sizes DEF BootState
  <2> QED BY <1>2, <1>6, <2>1, <2>2 DEF SwapInv, Stage
<1> QED BY <1>7, <1>8

LEMMA WipeTailStep ==
  ASSUME TypeOK, Benign, SwapInv, WipeTail
  PROVE  SwapInv'
<1>1. /\ Rejected /\ ~bs.primarySource
      /\ pri' = pri /\ priT' = priT /\ sec' = sec /\ history' = history
      /\ secT \in Trailer /\ ~secT.ok /\ ImagesInv
  BY DEF WipeTail, At, SwapInv, Stage, TypeOK, ImagesInv
<1>2. secT' = secT \/ (secT'.magic # "good" /\ ~secT'.ok)
  BY <1>1, TornTrailers DEF WipeTail
<1>3. ImagesInv'
  BY <1>1, <1>2, TrailerFrame DEF ImagesInv
<1>4. secT' = secT => Rejected'
  BY <1>1, TrailerFrame DEF Rejected
<1>5. secT'.magic # "good" => Steady'
  BY <1>1, TrailerFrame DEF Rejected, Steady
<1>6. CASE Cut
  BY <1>2, <1>3, <1>4, <1>5, <1>6, CutSurvived DEF Durable
<1>7. CASE ~Cut
  <2>1. secT' = NoTrailer /\ pc' = "check"
    BY <1>1, <1>7 DEF WipeTail, Go
  <2>2. secT'.magic # "good"
    BY <2>1 DEF NoTrailer
  <2> QED BY <1>3, <1>5, <2>1, <2>2 DEF SwapInv, Stage
<1> QED BY <1>6, <1>7

(* boot_copy_image                                                         *)
LEMMA OverwriteFrame ==
  ASSUME sec' = sec, secT' = secT, history' = history, Bootstrap,
         priT' = priT \/ priT' = NoTrailer,
         pri'[0] \in {Blank, Part(running, 0), Whole(running, 0)}
  PROVE  Bootstrap'
BY DEF Bootstrap, history, Stored, NoTrailer

LEMMA OverEraseStep ==
  ASSUME TypeOK, SwapInv, OverErase
  PROVE  SwapInv'
<1>1. /\ Bootstrap /\ bs.type = "revert" /\ bs.pos \in 0 .. Pages
      /\ sec' = sec /\ secT' = secT /\ history' = history /\ ImagesInv /\ cuts' = cuts
      /\ pri \in [0 .. (Pages - 1) -> Page] /\ bs \in BootState
      /\ priT' = priT \/ priT' = NoTrailer
  BY DEF OverErase, At, Go, SwapInv, Stage, TypeOK, BootState
<1>2. /\ bs'.type = "revert" /\ bs'.pos \in 0 .. Pages
      /\ pc' \in {"overErase", "overCopy"} /\ (pc' = "overCopy" => bs'.pos = 0)
  BY <1>1, Sizes DEF OverErase, Go, BootState
<1>3. pri'[0] \in {Blank, Part(running, 0), Whole(running, 0)}
  BY <1>1, Sizes DEF OverErase, Bootstrap
<1>4. Bootstrap'
  BY <1>1, <1>3, OverwriteFrame
<1>5. ImagesInv'
  BY <1>1 DEF ImagesInv, history
<1> QED BY <1>2, <1>4, <1>5 DEF SwapInv, Stage

LEMMA OverCopyStep ==
  ASSUME TypeOK, Benign, SwapInv, OverCopy
  PROVE  SwapInv'
<1>1. /\ Bootstrap /\ bs.type = "revert" /\ bs.pos \in 0 .. Pages
      /\ \A k \in 0 .. (bs.pos - 1) : pri[k] = sec[k + 1]
      /\ sec' = sec /\ secT' = secT /\ history' = history /\ ImagesInv
      /\ pri \in [0 .. (Pages - 1) -> Page] /\ bs \in BootState
  BY DEF OverCopy, At, SwapInv, Stage, TypeOK, BootState
<1>2. ImagesInv'
  BY <1>1 DEF ImagesInv, history
<1>3. running \in Images /\ running # None /\ running \in SignedImages
      /\ sec[1] = Whole(running, 0)
  BY <1>1, Involved, Sizes, StoredHeader DEF Bootstrap
<1>4. CASE bs.pos = Pages /\ ~Cut
  <2>1. /\ priT' = secT /\ pri' = pri /\ pc' = "spare" /\ bs'.type = "revert"
    BY <1>1, <1>4 DEF OverCopy, Go, BootState
  <2>2. Stored(pri, 0, running)
    <3>1. \A k \in 0 .. (Size[running] - 1) :
            k \in 0 .. (Pages - 1) /\ 0 + k = k /\ 1 + k = k + 1
      BY <1>3, Sizes
    <3> QED BY <1>1, <1>4, <3>1 DEF Bootstrap, Stored
  <2>3. Steady'
    BY <1>1, <2>1, <2>2, Sizes DEF Bootstrap, Steady, Quiet, Stored, history
  <2> QED BY <1>2, <2>1, <2>3 DEF SwapInv, Stage, Restoring
<1>5. CASE bs.pos # Pages /\ ~Cut
  <2>1. /\ pri' = [pri EXCEPT ![bs.pos] = sec[bs.pos + 1]] /\ priT' = priT
        /\ pc' = "overCopy" /\ bs' = [bs EXCEPT !.pos = bs.pos + 1] /\ cuts' = cuts
    BY <1>1, <1>5 DEF OverCopy, Go
  <2>2. bs'.type = "revert" /\ bs'.pos = bs.pos + 1 /\ bs'.pos \in 0 .. Pages
        /\ bs.pos \in 0 .. (Pages - 1) /\ bs.pos \in Nat /\ Pages \in Nat /\ 0 \in 0 .. (Pages - 1)
    BY <1>1, <1>5, <2>1, Sizes DEF BootState
  <2>3. \A k \in 0 .. (bs'.pos - 1) : pri'[k] = sec'[k + 1]
    BY <1>1, <2>1, <2>2
  <2>4. pri'[0] \in {Blank, Part(running, 0), Whole(running, 0)}
    BY <1>1, <1>3, <2>1, <2>2 DEF Bootstrap
  <2>5. Bootstrap'
    BY <1>1, <2>1, <2>4, OverwriteFrame
  <2> QED BY <1>2, <2>1, <2>2, <2>3, <2>5 DEF SwapInv, Stage
<1>6. CASE Cut
  <2>1. /\ bs.pos < Pages /\ priT' = priT
        /\ \E torn \in TornCopy(sec[bs.pos + 1]) \ {Junk} : pri' = [pri EXCEPT ![bs.pos] = torn]
    BY <1>6 DEF OverCopy, Go, Cut
  <2>2. pri'[0] \in {Blank, Part(running, 0), Whole(running, 0)}
    <3>1. 0 \in 0 .. (Pages - 1) /\ bs.pos \in 0 .. (Pages - 1) /\ bs.pos \in Nat
      BY <1>1, <2>1, Sizes
    <3>2. TornCopy(Whole(running, 0)) \ {Junk} = {Blank, Part(running, 0)}
      BY <1>3 DEF TornCopy, Whole, Part, Blank, Junk
    <3>3. CASE bs.pos = 0
      BY <1>1, <1>3, <2>1, <3>1, <3>2, <3>3
    <3>4. CASE bs.pos # 0
      BY <1>1, <2>1, <3>1, <3>4 DEF Bootstrap
    <3> QED BY <3>3, <3>4
  <2>3. Bootstrap'
    BY <1>1, <2>1, <2>2, OverwriteFrame
  <2> QED BY <1>2, <1>6, <2>3, CutSurvived DEF Durable
<1> QED BY <1>4, <1>5, <1>6

----------------------------------------------------------------------------
(* The start of an application, and what it does.                          *)

(* What FinalCheck starts, and that it always starts something.            *)
LEMMA Starts ==
  ASSUME TypeOK, SwapInv, FinalCheck
  PROVE  /\ pc' = "app" /\ cuts' = 0 /\ scheduled' = None /\ flash' = flash
         /\ \/ /\ Steady /\ running' = running /\ ~onTrial' /\ fallback' = fallback
               /\ ~onTrial
            \/ /\ ~onTrial /\ Swapped /\ secT.magic = "unset" /\ scheduled \in SignedImages
               /\ running' = scheduled /\ onTrial' /\ fallback' = running
            \/ /\ MayUndo /\ Reverted
               /\ running' = Restored /\ ~onTrial' /\ fallback' = fallback
<1>1. /\ Steady \/ (~onTrial /\ Swapped /\ secT.magic = "unset") \/ (MayUndo /\ Reverted)
      /\ ImagesInv
  BY DEF FinalCheck, At, SwapInv, Stage
<1>2. CASE Steady
  <2>1. PrimaryValid /\ Header(pri[0]) = running
    BY <1>1, <1>2, Involved, PrimaryStored DEF Steady
  <2>2. ~Unconfirmed
    BY <1>2 DEF Unconfirmed, Steady, Quiet
  <2> QED BY <1>2, <2>1, <2>2 DEF FinalCheck, Steady
<1>3. CASE ~onTrial /\ Swapped /\ secT.magic = "unset"
  <2>1. scheduled \in SignedImages /\ Discarded = scheduled /\ Stored(pri, 0, scheduled)
    BY <1>1, <1>3, Involved DEF Swapped, Revertible, Beside
  <2>2. PrimaryValid /\ Header(pri[0]) = scheduled
    BY <2>1, PrimaryStored
  <2>3. Unconfirmed
    BY <1>3 DEF Unconfirmed, Swapped
  <2> QED BY <1>3, <2>1, <2>2, <2>3 DEF FinalCheck
<1>4. CASE MayUndo /\ Reverted
  <2>1. PrimaryValid /\ Header(pri[0]) = Restored
    BY <1>1, <1>4, Involved, PrimaryStored DEF Reverted
  <2>2. ~Unconfirmed
    BY <1>4 DEF Unconfirmed, Reverted, Quiet
  <2> QED BY <1>4, <2>1, <2>2 DEF FinalCheck
<1> QED BY <1>1, <1>2, <1>3, <1>4

LEMMA FinalCheckStep ==
  ASSUME TypeOK, SwapInv, FinalCheck
  PROVE  SwapInv'
<1>1. /\ pc' = "app" /\ cuts' = 0 /\ scheduled' = None
      /\ pri' = pri /\ priT' = priT /\ sec' = sec /\ secT' = secT /\ ImagesInv
  BY Starts DEF flash, SwapInv
<1>2. None \notin SignedImages /\ 0 = 0
  BY Sizes
<1>3. CASE Steady /\ running' = running /\ ~onTrial' /\ fallback' = fallback /\ ~onTrial
  <2>1. Steady' /\ Quiet(priT)'
    BY <1>1, <1>2, <1>3 DEF Steady, Stored, Quiet
  <2>2. ImagesInv'
    BY <1>1, <1>3 DEF ImagesInv
  <2> QED BY <1>1, <2>1, <2>2 DEF SwapInv, Stage
<1>4. CASE /\ ~onTrial /\ Swapped /\ secT.magic = "unset" /\ scheduled \in SignedImages
           /\ running' = scheduled /\ onTrial' /\ fallback' = running
  <2>1. Discarded = scheduled /\ Restored = running /\ scheduled \in Runnable /\ running \in Runnable
    BY <1>1, <1>4, Involved
  <2>2. Discarded' = scheduled /\ Restored' = running /\ Revertible'
    BY <1>4 DEF Discarded, Restored, Revertible
  <2>3. Swapped'
    BY <1>1, <1>4, <2>1, <2>2 DEF Swapped, Beside, Stored
  <2>4. ImagesInv'
    BY <1>1, <1>4, <2>1 DEF ImagesInv
  <2> QED BY <1>1, <1>4, <2>3, <2>4 DEF SwapInv, Stage
<1>5. CASE MayUndo /\ Reverted /\ running' = Restored /\ ~onTrial' /\ fallback' = fallback
  <2>1. Restored \in Runnable
    BY <1>1, <1>5, Involved DEF Reverted
  <2>2. Steady' /\ Quiet(priT)'
    BY <1>1, <1>2, <1>5 DEF Steady, Reverted, Stored, Quiet
  <2>3. ImagesInv'
    BY <1>1, <1>5, <2>1 DEF ImagesInv
  <2> QED BY <1>1, <2>2, <2>3 DEF SwapInv, Stage
<1> QED BY <1>3, <1>4, <1>5, Starts

LEMMA UpdateStored ==
  ASSUME NEW i \in Images
  PROVE  Stored(StoredAt(1, i), 1, i) /\ StoredAt(1, i)[0] = Blank
<1>1. Size[i] \in Nat /\ Size[i] <= Pages /\ Pages \in Nat
  BY Sizes
<1>2. ASSUME NEW k \in 0 .. (Size[i] - 1)
      PROVE  StoredAt(1, i)[1 + k] = Whole(i, k)
  <2>1. 1 + k \in 0 .. Pages /\ 1 + k \in 1 .. (1 + Size[i] - 1) /\ (1 + k) - 1 = k
    BY <1>1
  <2> QED BY <2>1 DEF StoredAt
<1>3. 0 \in 0 .. Pages /\ 0 \notin 1 .. (1 + Size[i] - 1)
  BY <1>1
<1> QED BY <1>2, <1>3 DEF Stored, StoredAt

LEMMA UpdateStep ==
  ASSUME TypeOK, SwapInv, NEW i \in Updates, Update(i)
  PROVE  SwapInv'
<1>1. /\ pc = "app" /\ ~onTrial /\ cuts = 0 /\ Quiet(priT) /\ ImagesInv
      /\ Stored(pri, 0, running) /\ i \in Images
  BY Sizes DEF Update, At, SwapInv, Stage, Steady, Rejected, Scheduled
<1>2. /\ pc' = "app" /\ pri' = pri /\ priT' = priT /\ cuts' = cuts
      /\ running' = running /\ onTrial' = onTrial /\ fallback' = fallback
      /\ sec' = StoredAt(1, i)
      /\ \/ secT'.magic # "good" /\ ~secT'.ok /\ scheduled' = None
         \/ AsksTest(secT') /\ scheduled' = i
  <2>1. /\ [NoTrailer EXCEPT !.magic = "bad"].magic # "good" /\ ~[NoTrailer EXCEPT !.magic = "bad"].ok
        /\ NoTrailer.magic # "good" /\ ~NoTrailer.ok
    BY DEF NoTrailer
  <2>2. AsksTest([NoTrailer EXCEPT !.magic = "good", !.type = "test"])
    BY DEF NoTrailer, AsksTest
  <2> QED BY <1>1, <2>1, <2>2 DEF Update
<1>3. ImagesInv'
  BY <1>1, <1>2 DEF ImagesInv, AsksTest
<1>4. /\ Stored(sec', 1, i) /\ sec'[0] = Blank /\ Header(sec'[1]) = i /\ Header(sec'[0]) = None
  <2>1. Stored(sec', 1, i) /\ sec'[0] = Blank
    BY <1>1, <1>2, UpdateStored
  <2> QED BY <1>1, <2>1, StoredHeader DEF Header, Blank
<1>5. Quiet(priT)' /\ Stored(pri, 0, running)'
  BY <1>1, <1>2 DEF Quiet, Stored
<1>6. Steady' \/ Rejected' \/ Scheduled'
  <2>1. CASE secT'.magic # "good" /\ scheduled' = None
    BY <1>1, <1>2, <1>5, <2>1, Sizes DEF Steady
  <2>2. CASE AsksTest(secT') /\ scheduled' = i /\ i \in SignedImages
    BY <1>1, <1>2, <1>4, <1>5, <2>2 DEF Scheduled, Stored
  <2>3. CASE AsksTest(secT') /\ scheduled' = i /\ i \notin SignedImages
    BY <1>1, <1>2, <1>4, <1>5, <2>3 DEF Rejected
  <2> QED BY <1>2, <2>1, <2>2, <2>3
<1> QED BY <1>1, <1>2, <1>3, <1>5, <1>6 DEF SwapInv, Stage

LEMMA ConfirmStep ==
  ASSUME TypeOK, SwapInv, Confirm
  PROVE  SwapInv'
<1>1. /\ pc = "app" /\ cuts = 0 /\ ImagesInv /\ priT \in Trailer
      /\ onTrial /\ Swapped /\ scheduled = None
  BY DEF Confirm, At, SwapInv, Stage, Quiet, TypeOK, ImagesInv
<1>2. /\ pc' = "app" /\ cuts' = cuts /\ pri' = pri /\ sec' = sec /\ secT' = secT
      /\ running' = running /\ ~onTrial' /\ fallback' = fallback /\ scheduled' = scheduled
      /\ priT'.ok = TRUE /\ priT'.done = priT.done
  BY <1>1 DEF Confirm, Trailer
<1>3. Quiet(priT)' /\ Steady'
  BY <1>1, <1>2, Sizes DEF Steady, Quiet, Swapped, Beside, Discarded, Stored
<1>4. ImagesInv'
  BY <1>1, <1>2 DEF ImagesInv
<1> QED BY <1>1, <1>2, <1>3, <1>4 DEF SwapInv, Stage

LEMMA ResetStep ==
  ASSUME TypeOK, SwapInv, Reset
  PROVE  SwapInv'
<1>1. /\ pc = "app" /\ pc' = "boot" /\ flash' = flash /\ history' = history /\ cuts' = cuts
      /\ ImagesInv /\ (Steady \/ Rejected \/ Scheduled \/ (onTrial /\ Swapped))
  BY DEF Reset, At, SwapInv, Stage
<1>2. Durable'
  BY <1>1, Frame DEF Durable, MayUndo, history
<1> QED BY <1>1, <1>2, Frame DEF SwapInv, Stage

LEMMA SwapInit == Init => SwapInv
<1> SUFFICES ASSUME Init PROVE SwapInv
  OBVIOUS
<1>1. /\ Installed \in Images /\ Installed \in SignedImages /\ None \notin SignedImages
      /\ Size[Installed] \in Nat /\ Size[Installed] >= 2 /\ Size[Installed] <= Pages /\ Pages \in Nat
  BY Sizes
<1>2. ImagesInv
  BY <1>1 DEF Init, ImagesInv, Runnable, NoTrailer
<1>3. CASE /\ pri = [k \in 0 .. (Pages - 1) |-> StoredAt(0, Installed)[k]]
  <2>1. ASSUME NEW k \in 0 .. (Size[Installed] - 1)
        PROVE  pri[0 + k] = Whole(Installed, k)
    <3>1. k \in 0 .. (Pages - 1) /\ k \in 0 .. Pages /\ k \in 0 .. (0 + Size[Installed] - 1)
          /\ 0 + k = k /\ k - 0 = k
      BY <1>1
    <3> QED BY <1>3, <3>1 DEF StoredAt
  <2>2. Steady
    BY <1>1, <2>1 DEF Init, Steady, Stored, Quiet, NoTrailer
  <2> QED BY <1>2, <2>2 DEF Init, SwapInv, Stage, Durable
<1>4. CASE /\ pri = [k \in 0 .. (Pages - 1) |-> Blank] /\ sec = StoredAt(1, Installed)
  <2>1. Stored(sec, 1, Installed) /\ Header(sec[0]) = None
    BY <1>1, <1>4, UpdateStored DEF Header, Blank
  <2>2. pri[0] = Blank
    BY <1>1, <1>4
  <2>3. Bootstrap
    BY <2>1, <2>2 DEF Init, Bootstrap, NoTrailer
  <2> QED BY <1>2, <2>3 DEF Init, SwapInv, Stage, Durable
<1> QED BY <1>3, <1>4 DEF Init

LEMMA SwapStep == TypeOK /\ Benign /\ SwapInv /\ [Next]_vars => SwapInv'
<1> SUFFICES ASSUME TypeOK, Benign, SwapInv, [Next]_vars PROVE SwapInv'
  OBVIOUS
<1>1. CASE StartSwap \/ StartOverwrite \/ StartWipe \/ NothingToDo \/ Resume
  BY <1>1, DecideStep DEF Decided
<1>2. CASE FixupErase \/ FixupInit \/ InitErase \/ InitStatus \/ ClearSec
  BY <1>2, FixupStep, InitStep, ClearStep
<1>3. CASE SavePage \/ MovePage \/ WriteStatus
  BY <1>3, SaveStep, MoveStep, StatusStep
<1>4. CASE EraseSpare \/ EraseTail \/ SetImageOk \/ SetCopyDone
  BY <1>4, SpareStep, ImageOkStep, CopyDoneStep
<1>5. CASE Wipe \/ WipeTail \/ OverErase \/ OverCopy
  BY <1>5, WipeStep, WipeTailStep, OverEraseStep, OverCopyStep
<1>6. CASE FinalCheck
  BY <1>6, FinalCheckStep
<1>7. CASE PowerCut
  BY <1>7, PowerCutStep
<1>8. CASE AppStep
  BY <1>8, UpdateStep, ConfirmStep, ResetStep DEF AppStep
<1>9. CASE UNCHANGED vars
  <2>1. flash' = flash /\ history' = history /\ bs' = bs /\ cuts' = cuts /\ pc' = pc
    BY <1>9 DEF vars
  <2>2. UNCHANGED <<pri, priT, sec, secT, running, onTrial, fallback, scheduled>>
    BY <2>1 DEF flash, history
  <2>3. /\ RunningUpdate' = RunningUpdate /\ RunningRevert' = RunningRevert
        /\ MayUndo' = MayUndo /\ UpdateTrailer' = UpdateTrailer /\ RevertTrailer' = RevertTrailer
        /\ Swapped' = Swapped /\ Restoring' = Restoring /\ Durable' = Durable
    BY <2>1, <2>2, RegistersFrame, TrailerFrame, Frame
       DEF MayUndo, UpdateTrailer, RevertTrailer, Swapped, Restoring, Durable
  <2>4. /\ UpdateLayout(running, scheduled, bs.pos)' = UpdateLayout(running, scheduled, bs.pos)
        /\ RevertLayout(Discarded, Restored, bs.pos)' = RevertLayout(Discarded, Restored, bs.pos)
        /\ UpdateLayout(running, scheduled, bs.pos + 1)' = UpdateLayout(running, scheduled, bs.pos + 1)
        /\ RevertLayout(Discarded, Restored, bs.pos + 1)' = RevertLayout(Discarded, Restored, bs.pos + 1)
    BY <2>1, <2>2, TrailerFrame
  <2>5. /\ UpdateCopying' = UpdateCopying /\ RevertCopying' = RevertCopying
        /\ AtFixup' = AtFixup /\ AtInit' = AtInit /\ AtClear' = AtClear /\ Written' = Written
    BY <2>1, <2>2, <2>3, <2>4, Frame
       DEF UpdateCopying, RevertCopying, AtFixup, AtInit, AtClear, Written, AsksRevert
  <2>6. Stage' = Stage
    BY <2>1, <2>2, <2>3, <2>5, Frame DEF Stage, Quiet, Lo
  <2> QED BY <2>1, <2>6, Frame DEF SwapInv
<1> QED BY <1>1, <1>2, <1>3, <1>4, <1>5, <1>6, <1>7, <1>8, <1>9 DEF Next, BootStep

----------------------------------------------------------------------------
(* The inductive invariant, on a device that keeps its promises.           *)
SwapProof == TypeOK /\ RangeInv /\ SwapInv

(* Each step of the boot loader and the application leads from a stage to  *)
(* itself or to the next, wherever the one cut falls.                      *)
THEOREM SwapSafe == Benign => (Spec => []SwapProof)
<1>1. Init => SwapProof
  BY InitTypes, SwapInit DEF SwapProof
<1>2. Benign /\ SwapProof /\ [Next]_vars => SwapProof'
  BY TypeStep, SwapStep DEF SwapProof
<1>3. CASE Benign
  <2>1. SwapProof /\ [Next]_vars => SwapProof'
    BY <1>2, <1>3
  <2> QED BY <1>1, <2>1, PTL DEF Spec
<1> QED BY <1>3

(* Where the images are, whatever the boot loader is at.                   *)
LEMMA NothingMissing ==
  ASSUME TypeOK, SwapInv
  PROVE  NothingLost
<1>1. /\ ImagesInv /\ Stage /\ running \in Images
  BY Involved DEF SwapInv
<1>2. (Steady \/ Rejected) => NothingLost
  <2>1. Stored(pri, 0, running) => Kept(running)
    <3>1. Size[running] \in Nat /\ Size[running] <= Pages /\ Pages \in Nat
          /\ DOMAIN pri = 0 .. (Pages - 1)
      BY <1>1, Sizes DEF TypeOK
    <3>2. \A k \in 0 .. (Size[running] - 1) : k \in DOMAIN pri /\ 0 + k = k
      BY <3>1
    <3> QED BY <3>2 DEF Stored, Kept
  <2> QED BY <2>1 DEF Steady, Rejected, NothingLost
<1>3. Bootstrap => NothingLost
  <2>1. Stored(sec, 1, running) => Kept(running)
    <3>1. Size[running] \in Nat /\ Size[running] <= Pages /\ Pages \in Nat
          /\ DOMAIN sec = 0 .. Pages
      BY <1>1, Sizes DEF TypeOK
    <3>2. \A k \in 0 .. (Size[running] - 1) : 1 + k \in DOMAIN sec
      BY <3>1
    <3> QED BY <3>2 DEF Stored, Kept
  <2>2. None \notin SignedImages
    BY Sizes
  <2> QED BY <2>1, <2>2 DEF Bootstrap, NothingLost
<1>4. ASSUME NEW p \in Nat, scheduled \in SignedImages, UpdateLayout(running, scheduled, p)
      PROVE  NothingLost
  BY <1>1, <1>4, Involved, LayoutsKeep DEF NothingLost
<1>5. ASSUME NEW p \in Nat, Revertible, RevertLayout(Discarded, Restored, p)
      PROVE  NothingLost
  <2>1. Kept(Discarded) /\ Kept(Restored)
    BY <1>1, <1>5, Involved, LayoutsKeep
  <2> QED BY <1>1, <1>5, <2>1, Sizes DEF NothingLost, Discarded, Restored, Revertible, ImagesInv
<1>6. Scheduled => NothingLost
  BY <1>1, <1>4, Involved, UpdateEnds DEF Scheduled
<1>7. Revertible /\ Beside => NothingLost
  BY <1>1, <1>5, Involved, RevertEnds DEF Beside
<1>8. priT.status \in Nat /\ bs.pos \in Nat
  BY DEF TypeOK, Trailer
<1>9. GoingOn \/ GoingBack => NothingLost
  BY <1>4, <1>5, <1>8 DEF GoingOn, GoingBack
<1>10. Reverted => NothingLost
  <2>1. Reverted => Revertible /\ Discarded \in Images /\ Restored \in Images
    BY <1>1, Involved DEF Reverted
  <2>2. Reverted => Kept(Restored) /\ Kept(Discarded)
    <3>1. /\ DOMAIN pri = 0 .. (Pages - 1) /\ DOMAIN sec = 0 .. Pages /\ Pages \in Nat
      BY Sizes DEF TypeOK
    <3>2. \A i \in Images : \A k \in 0 .. (Size[i] - 1) :
            k \in DOMAIN pri /\ 0 + k = k /\ 1 + k \in DOMAIN sec
      BY <3>1, Sizes
    <3> QED BY <2>1, <3>2 DEF Reverted, Stored, Kept
  <2> QED BY <1>1, <2>1, <2>2, Sizes DEF NothingLost, Discarded, Restored, Revertible, ImagesInv
<1>11. Durable \/ Swapped => NothingLost
  BY <1>2, <1>3, <1>6, <1>7, <1>9, <1>10 DEF Durable, Swapped, Recalled
<1>12. AtFixup \/ AtInit \/ AtClear => NothingLost
  BY <1>4, <1>5, <1>6, <1>7, <1>8
     DEF AtFixup, AtInit, AtClear, RunningUpdate, RunningRevert, Swapped
<1>13. UpdateCopying \/ RevertCopying \/ Restoring => NothingLost
  BY <1>2, <1>9 DEF UpdateCopying, RevertCopying, Restoring
<1> QED BY <1>1, <1>2, <1>3, <1>6, <1>10, <1>11, <1>12, <1>13 DEF Stage, Written, TypeOK

LEMMA HeadersThere ==
  ASSUME TypeOK, Benign, SwapInv
  PROVE  ResumeFindsHeaders
<1> SUFFICES ASSUME pc = "boot", Source, priT.status > 0
             PROVE  /\ ResumedSecHeader = Entering
                    /\ ~LastPageOfUpdate => ResumedPriHeader = Leaving
                    /\ LastPageOfUpdate =>
                         /\ ResumedPriHeader \in {Leaving, Entering}
                         /\ priT.size = Size[Leaving] =>
                              ~Beyond(priT.size - 1, Size[ResumedPriHeader])
  BY DEF ResumeFindsHeaders, At
<1>1. Durable /\ ImagesInv
  BY DEF SwapInv, Stage
<1>2. GoingOn \/ GoingBack
  BY <1>1 DEF Durable, Steady, Rejected, Scheduled, Bootstrap, Swapped, Recalled, Reverted,
     Source, Quiet, AsksTest, AsksRevert
<1>3. CASE GoingOn
  <2>1. /\ running \in Images /\ scheduled \in Images
        /\ Size[running] \in Nat /\ Size[scheduled] \in Nat
        /\ Size[running] <= Size[scheduled] + 1
    BY <1>1, <1>3, Involved, Sizes DEF GoingOn, Benign
  <2>2. Leaving = running /\ Entering = scheduled
    BY <1>3 DEF Leaving, Entering, GoingOn, UpdateTrailer
  <2>3. /\ ResumedPriHeader \in {running, scheduled} /\ ResumedSecHeader = scheduled
        /\ priT.status < 2 * (priT.size - 1) => ResumedPriHeader = running
    BY <1>3, <2>1, UpdateHeaders DEF GoingOn, UpdateTrailer
  <2>4. priT.size \in Nat /\ priT.status \in Nat
    BY DEF TypeOK, Trailer
  <2>5. ~LastPageOfUpdate => ResumedPriHeader = running
    BY <1>3, <2>3, <2>4 DEF LastPageOfUpdate, GoingOn, UpdateTrailer
  <2>6. priT.size = Size[running] => ~Beyond(priT.size - 1, Size[ResumedPriHeader])
    <3>1. Size[ResumedPriHeader] \in Nat /\ Size[running] <= Size[ResumedPriHeader] + 1
      BY <2>1, <2>3
    <3> QED BY <2>1, <2>4, <3>1 DEF Beyond
  <2> QED BY <2>2, <2>3, <2>5, <2>6
<1>4. CASE GoingBack
  <2>1. priT.type = "revert" /\ ~LastPageOfUpdate
    BY <1>4 DEF GoingBack, RevertTrailer, LastPageOfUpdate
  <2>2. Leaving = Discarded /\ Entering = Restored
    BY <2>1 DEF Leaving, Entering, Discarded, Restored
  <2>3. ResumedPriHeader = Discarded /\ ResumedSecHeader = Restored
    BY <1>1, <1>4, <2>1, Involved, RevertHeaders DEF GoingBack
  <2> QED BY <2>1, <2>2, <2>3
<1> QED BY <1>2, <1>3, <1>4

(* Each page of the images that may have to run again is in flash at every *)
(* moment of a swap and of a revert, of images of every size.              *)
THEOREM LosesNothing == Benign => (Spec => []NothingLost)
<1>1. SwapProof => NothingLost
  BY NothingMissing DEF SwapProof
<1>2. CASE Benign
  <2>1. Spec => []SwapProof
    BY <1>2, SwapSafe
  <2> QED BY <1>1, <2>1, PTL
<1> QED BY <1>2

(* A resumed swap or revert reads the header of each of its two images     *)
(* where the status says it is, and not of the other one, except at the    *)
(* last page of an update, where the size it reads instead does not make   *)
(* it skip that page.                                                      *)
THEOREM FindsHeaders == Benign => (Spec => []ResumeFindsHeaders)
<1>1. Benign /\ SwapProof => ResumeFindsHeaders
  BY HeadersThere DEF SwapProof
<1>2. CASE Benign
  <2>1. Spec => []SwapProof
    BY <1>2, SwapSafe
  <2>2. SwapProof => ResumeFindsHeaders
    BY <1>1, <1>2
  <2> QED BY <2>1, <2>2, PTL
<1> QED BY <1>2

(* Only FinalCheck starts an application, and only it and the application  *)
(* touch the history.                                                      *)
LEMMA OtherSteps ==
  ASSUME TypeOK, RangeInv, BootStep \/ PowerCut, ~FinalCheck
  PROVE  history' = history /\ pc # "app" /\ pc' # "app"
<1>1. CASE Decided
  BY <1>1, DecidedFrame, FirstStepResult
     DEF Decided, StartSwap, StartOverwrite, StartWipe, NothingToDo, Resume, Go, CopyStep
<1>2. CASE FixupErase \/ FixupInit \/ InitErase \/ InitStatus \/ ClearSec
           \/ EraseSpare \/ EraseTail \/ SetImageOk \/ SetCopyDone
  BY <1>2 DEF FixupErase, FixupInit, InitErase, InitStatus, ClearSec, EraseSpare, EraseTail,
     SetImageOk, SetCopyDone, At, Go, Cut, CopyStep
<1>3. CASE SavePage \/ MovePage \/ WriteStatus
  BY <1>3 DEF SavePage, MovePage, WriteStatus, At, Go, Cut, CopyStep
<1>4. CASE Wipe \/ WipeTail \/ OverErase \/ OverCopy
  BY <1>4 DEF Wipe, WipeTail, OverErase, OverCopy, At, Go, Cut
<1>5. CASE PowerCut
  BY <1>5 DEF PowerCut, Cut
<1> QED BY <1>1, <1>2, <1>3, <1>4, <1>5 DEF BootStep, Decided

(* A scheduled image that the boot loader accepts does run, if power stays.*)
THEOREM TakesUpdate == Benign => (Spec => UpdateTaken)
<1>1. SwapProof /\ [Next]_vars =>
        [pc = "check" /\ pc' = "app" /\ cuts = 0 /\ scheduled \in SignedImages =>
           running' = scheduled /\ onTrial']_vars
  <2> SUFFICES ASSUME SwapProof, [Next]_vars, pc = "check", pc' = "app", cuts = 0,
                      scheduled \in SignedImages
               PROVE  running' = scheduled /\ onTrial'
    OBVIOUS
  <2>1. FinalCheck
    BY OtherSteps DEF SwapProof, Next, AppStep, Update, Confirm, Reset, At, vars
  <2>2. ~onTrial
    BY Involved DEF SwapProof, SwapInv
  <2>3. ~Steady /\ ~MayUndo
    BY <2>2 DEF Steady, MayUndo
  <2> QED BY <2>1, <2>3, Starts DEF SwapProof
<1>2. CASE Benign
  <2>1. Spec => []SwapProof
    BY <1>2, SwapSafe
  <2> QED BY <1>1, <2>1, PTL DEF Spec, UpdateTaken
<1> QED BY <1>2

(* An image on trial that nobody confirmed does not run again.             *)
THEOREM GoesBack == Benign => (Spec => UnconfirmedGoesBack)
<1>1. SwapProof /\ [Next]_vars =>
        [onTrial /\ pc # "app" /\ pc' = "app" => running' = fallback]_vars
  <2> SUFFICES ASSUME SwapProof, [Next]_vars, onTrial, pc # "app", pc' = "app"
               PROVE  running' = fallback
    OBVIOUS
  <2>1. FinalCheck
    BY OtherSteps DEF SwapProof, Next, AppStep, Update, Confirm, Reset, At, vars
  <2>2. ~Steady
    BY DEF Steady
  <2> QED BY <2>1, <2>2, Starts DEF SwapProof, Restored
<1>2. CASE Benign
  <2>1. Spec => []SwapProof
    BY <1>2, SwapSafe
  <2> QED BY <1>1, <2>1, PTL DEF Spec, UnconfirmedGoesBack
<1> QED BY <1>2

(* One cut, wherever it falls, never leads to halt.                        *)
THEOREM SurvivesCut == Benign => (Spec => CutsSurvived)
<1>1. SwapProof' => [pc' = "halt" => cuts = 0]_vars
  BY DEF SwapProof, SwapInv, Stage
<1>2. CASE Benign
  <2>1. Spec => []SwapProof
    BY <1>2, SwapSafe
  <2> QED BY <1>1, <2>1, PTL DEF Spec, CutsSurvived
<1> QED BY <1>2

LEMMA BootRefined ==
  ASSUME SwapProof, [Next]_vars
  PROVE  [Boot!Next]_(Boot!vars)
<1> USE DEF Boot!vars, Boot!Next
<1>1. ASSUME BootStep \/ PowerCut, ~FinalCheck PROVE UNCHANGED Boot!vars
  BY <1>1, OtherSteps DEF SwapProof, history
<1>2. ASSUME FinalCheck PROVE Boot!Next
  <2>1. /\ pc = "check" /\ ImagesInv /\ pc' = "app" /\ scheduled' = None
    BY <1>2, Starts DEF FinalCheck, At, SwapProof, SwapInv
  <2>2. CASE Steady /\ running' = running /\ ~onTrial' /\ fallback' = fallback /\ ~onTrial
    <3>1. onTrial' = onTrial
      BY <2>2, <1>2, FinalCheckTypes DEF SwapProof, TypeOK
    <3>2. Boot!BootSame
      BY <2>1, <2>2, <3>1 DEF Boot!BootSame, Boot!AppStarts
    <3> QED BY <3>2
  <2>3. CASE /\ ~onTrial /\ scheduled \in SignedImages
             /\ running' = scheduled /\ onTrial' /\ fallback' = running
    <3>1. onTrial' = TRUE
      BY <2>3, <1>2, FinalCheckTypes DEF SwapProof, TypeOK
    <3>2. Boot!BootNew
      BY <2>1, <2>3, <3>1 DEF Boot!BootNew, Boot!AppStarts
    <3> QED BY <3>2
  <2>4. CASE MayUndo /\ running' = Restored /\ ~onTrial' /\ fallback' = fallback
    <3>1. onTrial' = FALSE
      BY <2>4, <1>2, FinalCheckTypes DEF SwapProof, TypeOK
    <3>2. CASE onTrial
      <4>1. Boot!BootBack
        BY <2>1, <2>4, <3>1, <3>2 DEF Boot!BootBack, Boot!AppStarts, Restored, ImagesInv
      <4> QED BY <4>1
    <3>3. CASE ~onTrial
      <4>1. onTrial' = onTrial
        BY <3>1, <3>3 DEF SwapProof, TypeOK
      <4>2. Boot!BootSame
        BY <2>1, <2>4, <3>3, <4>1 DEF Boot!BootSame, Boot!AppStarts, Restored
      <4> QED BY <4>2
    <3> QED BY <3>2, <3>3
  <2> QED BY <1>2, <2>2, <2>3, <2>4, Starts DEF SwapProof
<1>3. ASSUME AppStep PROVE Boot!Next
  <2>1. CASE \E i \in Updates : Update(i)
    BY <2>1, Sizes DEF Update, At, Boot!Schedule, Boot!Withdraw, Boot!InApp
  <2>2. CASE Confirm
    BY <2>2 DEF Confirm, At, Boot!Confirm, Boot!InApp
  <2>3. CASE Reset
    BY <2>3 DEF Reset, At, history, Boot!Reset, Boot!InApp
  <2> QED BY <1>3, <2>1, <2>2, <2>3 DEF AppStep
<1>4. ASSUME UNCHANGED vars PROVE UNCHANGED Boot!vars
  BY <1>4 DEF vars, history
<1> QED BY <1>1, <1>2, <1>3, <1>4 DEF Next, BootStep

(* Swap, resumption and revert together implement the promise of BootSpec: *)
(* every start of an application is one that BootSpec allows, every other  *)
(* step of the boot loader a stutter.                                      *)
THEOREM SwapImplements == Benign => (Spec => Implements)
<1>1. Init => Boot!Init
  BY DEF Init, Boot!Init
<1>2. SwapProof /\ [Next]_vars => [Boot!Next]_(Boot!vars)
  BY BootRefined
<1>3. CASE Benign
  <2>1. Spec => []SwapProof
    BY <1>3, SwapSafe
  <2> QED BY <1>1, <1>2, <2>1, PTL DEF Spec, Implements, Boot!Spec
<1> QED BY <1>3
=============================================================================
