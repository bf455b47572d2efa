----------------------------- MODULE SwapOffset -----------------------------
(***************************************************************************)
(* MCUboot's swap using offset (swap_offset.c, swap_misc.c) with the       *)
(* decisions around it (loader.c, bootutil_public.c), page by page, with   *)
(* power cuts between and inside its flash operations.                     *)
(*                                                                         *)
(* An update lies in the secondary slot one page above its place in the    *)
(* primary slot, so that exchanging page k needs no scratch page: the old  *)
(* page k is saved to the secondary page k, then the new one moves down    *)
(* from k+1.  A revert runs the other way, from the last page to the       *)
(* first.  After each half of an exchange a status entry is written to the *)
(* trailer of the primary slot; a boot resumes from the entries it finds.  *)
(*                                                                         *)
(* Every flash operation is an action that either succeeds or is cut.      *)
(* Between two of them the boot loader only reads, which is part of the    *)
(* action before.  A cut loses the RAM and leads back to "boot".           *)
(***************************************************************************)
EXTENDS Integers

CONSTANTS
  Images,        \* images with a header
  SignedImages,  \* those boot_check_image accepts
  Installed,     \* the image the device is delivered with
  Updates,       \* the images a host sends
  Size,          \* their size in pages
  Pages,         \* pages of the primary slot, without its trailer
  MaxCuts,       \* bound: power cuts until an application runs again
  TornMagic,     \* a cut in the write or erase of an erased magic may leave it
                 \* neither erased nor good
  None

ASSUME SwapAssumption ==
  /\ SignedImages \subseteq Images /\ Installed \in SignedImages
  /\ Updates \subseteq Images
  /\ Pages \in Nat \ {0}
  /\ Size \in [Images -> 2 .. Pages]
  /\ MaxCuts \in Nat /\ TornMagic \in BOOLEAN
  /\ None \notin Images

(* A page holds page k of an image, or is erased, or neither; a copy that  *)
(* was cut has programmed the beginning, header included.                  *)
Whole(i, k) == <<i, k, "whole">>
Part(i, k) == <<i, k, "part">>
Blank == <<None, 0, "blank">>
Junk == <<None, 0, "junk">>
Page == ((Images \cup {None}) \X (0 .. Pages) \X {"whole", "part", "blank", "junk"})

(* struct boot_swap_state, the swap size and the number of status entries  *)
(* of a trailer.                                                           *)
Trailer == [magic: {"unset", "bad", "good"}, type: {"none", "test", "revert"},
            done: BOOLEAN, ok: BOOLEAN, size: 0 .. Pages, status: 0 .. 2 * Pages]
NoTrailer == [magic |-> "unset", type |-> "none", done |-> FALSE, ok |-> FALSE,
              size |-> 0, status |-> 0]

VARIABLES
  pc,        \* the next operation; "app", "boot", "halt" otherwise
  pri, priT, \* primary slot and its trailer
  sec, secT, \* secondary slot, which begins one page earlier, and its trailer
  bs,        \* struct boot_status and the two headers in RAM
  cuts,      \* power cuts since an application ran
  \* history
  running,   \* the image started last
  onTrial,   \* its trailer said unconfirmed when it started, and it still does
  fallback,  \* the image that ran before the latest trial
  scheduled  \* the image FW_FINISH has scheduled

flash == <<pri, priT, sec, secT>>
history == <<running, onTrial, fallback, scheduled>>
vars == <<pc, flash, bs, cuts, history>>

NoStatus == [type |-> "none", primarySource |-> FALSE, pos |-> 0, size |-> 0,
             usedPri |-> 0, usedSec |-> 0]

(* The slot from page off on holds image i.                                *)
Stored(slot, off, i) == \A k \in 0 .. (Size[i] - 1) : slot[off + k] = Whole(i, k)

StoredAt(off, i) ==
  [k \in 0 .. Pages |-> IF k \in off .. (off + Size[i] - 1) THEN Whole(i, k - off) ELSE Blank]

(* The header a page begins with.                                          *)
Header(page) == IF page[2] = 0 /\ page[1] # None THEN page[1] ELSE None

(* A delivered device has the image in the primary slot; a blank one finds *)
(* it in the secondary slot (MCUBOOT_BOOTSTRAP).                           *)
Init ==
  /\ pc = "boot" /\ cuts = 0 /\ bs = NoStatus
  /\ \/ /\ pri = [k \in 0 .. (Pages - 1) |-> StoredAt(0, Installed)[k]]
        /\ sec = [k \in 0 .. Pages |-> Blank]
     \/ /\ pri = [k \in 0 .. (Pages - 1) |-> Blank]
        /\ sec = StoredAt(1, Installed)
  /\ priT = NoTrailer /\ secT = NoTrailer
  /\ running = Installed /\ onTrial = FALSE
  /\ fallback = Installed /\ scheduled = None

----------------------------------------------------------------------------
(* Flash operations.                                                       *)

At(p) == pc = p
Go(p) == pc' = p /\ cuts' = cuts

Cut ==
  /\ cuts < MaxCuts /\ cuts' = cuts + 1
  /\ pc' = "boot" /\ bs' = NoStatus

(* What a cut leaves of a copied page, an erased page, an erased trailer   *)
(* and a trailer in writing, beside nothing and all of it.                 *)
TornCopy(page) ==
  {Blank, Junk} \cup (IF page[1] = None THEN {} ELSE {Part(page[1], page[2])})
TornErase(page) == {page, Junk}
TornTrailer(t) == {t} \cup
  (IF t.magic = "good" \/ TornMagic THEN {[NoTrailer EXCEPT !.magic = "bad"]} ELSE {})
TornInit(t) == {[t EXCEPT !.magic = m] : m \in {"unset"} \cup (IF TornMagic THEN {"bad"} ELSE {})}

(* Mutation of InitialTrailer: the size counts a page too many.            *)
InitialTrailerPadded == [NoTrailer EXCEPT !.magic = "good", !.type = bs.type,
                                          !.ok = secT.ok, !.size = bs.size + 1]

(* swap_status_init                                                        *)
InitialTrailer == [NoTrailer EXCEPT !.magic = "good", !.type = bs.type,
                                    !.ok = secT.ok, !.size = bs.size]

----------------------------------------------------------------------------
(* The decision at boot.                                                   *)

(* swap_status_source: the primary slot's trailer tells of a swap under    *)
(* way.                                                                    *)
Source == priT.magic = "good" /\ ~priT.done /\ secT.magic # "good"

(* boot_swap_type_multi.  Nothing here asks for a permanent swap.          *)
SwapType ==
  CASE secT.magic = "good" /\ ~secT.ok /\ secT.done -> "revert"
    [] secT.magic = "good" /\ ~secT.ok /\ ~secT.done -> "test"
    [] secT.magic # "good" /\ priT.magic = "good" /\ ~priT.ok /\ priT.done -> "revert"
    [] OTHER -> "none"

Wanted == IF Source /\ priT.type # "none" THEN priT.type ELSE SwapType

Larger(a, b) == IF a > b THEN a ELSE b

PrimaryValid == \E i \in SignedImages : Stored(pri, 0, i)

(* Mutation of SecondaryPage: an update begins at the slot's beginning.    *)
SecondaryPageFirst == IF SwapType = "test" THEN 0 ELSE 1

(* boot_read_image_header, no swap under way: the page of the secondary    *)
(* slot in which its image is taken to begin.                              *)
SecondaryPage ==
  LET reverting == "revert" \in {Wanted, SwapType}
      first == IF reverting THEN 0 ELSE 1
      other == IF SwapType = "revert" THEN 1 ELSE 0
  IN IF Header(sec[first]) # None THEN first ELSE other

SecondaryHeader == Header(sec[SecondaryPage])

(* boot_validate_slot: an update does not begin in the spare page.         *)
SecondaryValid ==
  /\ SecondaryHeader \in SignedImages
  /\ Stored(sec, SecondaryPage, SecondaryHeader)
  /\ ~(Wanted = "test" /\ ~Source /\ Header(sec[0]) # None)

Reverting == bs.type = "revert"

(* Mutation of FirstStep: without fixup_revert.                            *)
FirstStepNoFixup(type) == IF Source THEN "clearSec" ELSE "initErase"

(* The first operation of a swap (swap_run).                               *)
FirstStep(type) ==
  IF type = "revert" /\ secT.magic = "unset" THEN "fixErase"
  ELSE IF Source THEN "clearSec" ELSE "initErase"

(* The operation a swap goes on with from a status entry.                  *)
CopyStep(b) ==
  IF b.pos \div 2 < b.size THEN (IF b.pos % 2 = 0 THEN "save" ELSE "move")
  ELSE IF b.type = "revert" THEN "spare" ELSE "copyDone"

(* No swap under way, and both headers were read or are blank.             *)
Fresh == At("boot") /\ ~(Source /\ priT.status > 0)
Readable == Header(pri[0]) # None \/ pri[0] = Blank

StartSwap ==
  /\ Fresh /\ Readable
  /\ Wanted # "none" /\ SecondaryValid /\ PrimaryValid
  /\ bs' = [NoStatus EXCEPT
              !.type = Wanted, !.primarySource = Source,
              !.size = Larger(Size[Header(pri[0])], Size[SecondaryHeader]),
              !.usedPri = Size[Header(pri[0])], !.usedSec = Size[SecondaryHeader]]
  /\ Go(FirstStep(Wanted))
  /\ UNCHANGED <<flash, history>>

(* A primary slot that does not boot is replaced (boot_copy_image).        *)
StartOverwrite ==
  /\ Fresh /\ Readable
  /\ SecondaryValid /\ ~PrimaryValid
  /\ bs' = [NoStatus EXCEPT !.type = IF Wanted = "none" THEN "revert" ELSE Wanted]
  /\ Go("overErase")
  /\ UNCHANGED <<flash, history>>

(* An image that does not pass is wiped, or its trailer, when the header   *)
(* has gone already.                                                       *)
StartWipe ==
  /\ Fresh /\ Readable
  /\ Wanted # "none" \/ ~PrimaryValid
  /\ ~SecondaryValid
  /\ bs' = [NoStatus EXCEPT !.primarySource = Source]
  /\ Go(IF sec[SecondaryPage] = Blank THEN "wipeTail" ELSE "wipe")
  /\ UNCHANGED <<flash, history>>

NothingToDo ==
  /\ Fresh
  /\ ~Readable \/ (Wanted = "none" /\ PrimaryValid)
  /\ Go("check")
  /\ UNCHANGED <<flash, bs, history>>

(* Mutation of OldHeaderMoved: the end comes another page too early.       *)
OldHeaderMovedShort(pos) == pos >= 1 /\ pos \div 2 + 1 < priT.size - 1

(* boot_read_image_header, swap under way: where the headers of the images *)
(* are that were in the primary and secondary slot.  The code compares a   *)
(* number of sectors that begins at 1 with the last index that begins at 0.*)
OldHeaderMoved(pos) == pos >= 1 /\ pos \div 2 + 1 <= priT.size - 1

ResumedPriHeader ==
  IF priT.type = "revert"
  THEN IF priT.status >= 2 * priT.size - 1 THEN Header(sec[1]) ELSE Header(pri[0])
  ELSE IF OldHeaderMoved(priT.status) THEN Header(sec[0]) ELSE Header(pri[0])

ResumedSecHeader ==
  IF priT.type = "revert"
  THEN IF priT.status >= 2 * priT.size THEN Header(pri[0]) ELSE Header(sec[0])
  ELSE IF priT.status >= 2 THEN Header(pri[0]) ELSE Header(sec[1])

(* What the code asks of the headers it has read: that they are there, not *)
(* whose they are.                                                         *)
HeadersRead == ResumedPriHeader # None /\ ResumedSecHeader # None

(* Mutation of ResumeAt: half a page too far.                              *)
ResumeAtNext(status) == status + 1

ResumeAt(status) == status

(* boot_complete_partial_swap.  A swap cut within its first page prepares  *)
(* the trailers as a new one does, except that the status is kept.         *)
Resume ==
  /\ At("boot") /\ Source /\ priT.status > 0
  /\ IF HeadersRead
       THEN /\ bs' = [type |-> priT.type, primarySource |-> TRUE,
                      pos |-> ResumeAt(priT.status), size |-> priT.size,
                      usedPri |-> Size[ResumedPriHeader], usedSec |-> Size[ResumedSecHeader]]
            /\ Go(IF bs'.pos < 2 THEN FirstStep(bs'.type) ELSE CopyStep(bs'))
       ELSE Go("check") /\ UNCHANGED bs
  /\ UNCHANGED <<flash, history>>

----------------------------------------------------------------------------
(* The swap.                                                               *)

(* fixup_revert: the trailer of the secondary slot asks for the revert     *)
(* while that of the primary slot is replaced.                             *)
FixupErase ==
  /\ At("fixErase")
  /\ \/ secT' = NoTrailer /\ Go("fixInit") /\ UNCHANGED bs
     \/ secT' \in TornTrailer(secT) /\ Cut
  /\ UNCHANGED <<pri, priT, sec, history>>

FixupInit ==
  /\ At("fixInit")
  /\ LET t == [InitialTrailer EXCEPT !.done = TRUE]
     IN \/ secT' = t /\ Go(IF bs.primarySource THEN "clearSec" ELSE "initErase") /\ UNCHANGED bs
        \/ secT' \in TornInit(t) /\ Cut
  /\ UNCHANGED <<pri, priT, sec, history>>

InitErase ==
  /\ At("initErase")
  /\ \/ priT' = NoTrailer /\ Go("initStatus") /\ UNCHANGED bs
     \/ priT' \in TornTrailer(priT) /\ Cut
  /\ UNCHANGED <<pri, sec, secT, history>>

InitStatus ==
  /\ At("initStatus")
  /\ \/ priT' = InitialTrailer /\ Go("clearSec") /\ UNCHANGED bs
     \/ priT' \in TornInit(InitialTrailer) /\ Cut
  /\ UNCHANGED <<pri, sec, secT, history>>

ClearSec ==
  /\ At("clearSec")
  /\ \/ secT' = NoTrailer /\ Go(CopyStep(bs)) /\ UNCHANGED bs
     \/ secT' \in TornTrailer(secT) /\ Cut
  /\ UNCHANGED <<pri, priT, sec, history>>

(* Mutation of Beyond: the last page of an image counts as beyond it.      *)
BeyondTight(k, used) == k >= used - 1

(* Pages beyond an image need not be copied.                               *)
Beyond(k, used) == k > used

(* The page an exchange is about.                                          *)
Index == IF Reverting THEN bs.size - 1 - bs.pos \div 2 ELSE bs.pos \div 2

SavePage ==
  LET to == IF Reverting THEN Index + 1 ELSE Index
      skip == Beyond(Index, bs.usedPri)
  IN /\ At("save")
     /\ \/ /\ sec' = IF skip THEN sec ELSE [sec EXCEPT ![to] = pri[Index]]
           /\ Go("status") /\ UNCHANGED bs
        \/ /\ ~skip
           /\ \E torn \in TornCopy(pri[Index]) : sec' = [sec EXCEPT ![to] = torn]
           /\ Cut
     /\ UNCHANGED <<pri, priT, secT, history>>

MovePage ==
  LET from == IF Reverting THEN Index ELSE Index + 1
      skip == Beyond(Index, bs.usedSec)
  IN /\ At("move")
     /\ \/ /\ pri' = IF skip THEN pri ELSE [pri EXCEPT ![Index] = sec[from]]
           /\ Go("status") /\ UNCHANGED bs
        \/ /\ ~skip
           /\ \E torn \in TornCopy(sec[from]) : pri' = [pri EXCEPT ![Index] = torn]
           /\ Cut
     /\ UNCHANGED <<priT, sec, secT, history>>

(* boot_write_status                                                       *)
WriteStatus ==
  /\ At("status")
  /\ priT' = [priT EXCEPT !.status = bs.pos + 1]
  /\ bs' = [bs EXCEPT !.pos = bs.pos + 1]
  /\ Go(CopyStep(bs'))
  /\ UNCHANGED <<pri, sec, secT, history>>

(* The end of a revert: what is left in the secondary slot does not look   *)
(* like an update.                                                         *)
EraseSpare ==
  /\ At("spare")
  /\ \/ sec' = [sec EXCEPT ![0] = Blank] /\ Go("tail") /\ UNCHANGED bs
     \/ (\E torn \in TornErase(sec[0]) : sec' = [sec EXCEPT ![0] = torn]) /\ Cut
  /\ UNCHANGED <<pri, priT, secT, history>>

EraseTail ==
  /\ At("tail")
  /\ \/ secT' = NoTrailer /\ Go(IF Reverting THEN "imageOk" ELSE "copyDone") /\ UNCHANGED bs
     \/ secT' \in TornTrailer(secT) /\ Cut
  /\ UNCHANGED <<pri, priT, sec, history>>

(* Of a revert, or after BOOT_SWAP_TYPE_FAIL.                              *)
SetImageOk ==
  /\ At("imageOk")
  /\ priT' = [priT EXCEPT !.ok = TRUE]
  /\ Go(IF bs.type = "none" THEN "check" ELSE "copyDone")
  /\ UNCHANGED <<pri, sec, secT, bs, history>>

SetCopyDone ==
  /\ At("copyDone")
  /\ priT' = [priT EXCEPT !.done = TRUE]
  /\ Go("check")
  /\ UNCHANGED <<pri, sec, secT, bs, history>>

----------------------------------------------------------------------------
(* boot_scramble_slot, page by page, the trailer last.                     *)

Wipe ==
  /\ At("wipe")
  /\ \/ /\ sec' = [sec EXCEPT ![bs.pos] = Blank]
        /\ bs' = [bs EXCEPT !.pos = bs.pos + 1]
        /\ Go(IF bs.pos = Pages THEN "wipeTail" ELSE "wipe")
     \/ (\E torn \in TornErase(sec[bs.pos]) : sec' = [sec EXCEPT ![bs.pos] = torn]) /\ Cut
  /\ UNCHANGED <<pri, priT, secT, history>>

WipeTail ==
  /\ At("wipeTail")
  /\ \/ secT' = NoTrailer /\ Go(IF bs.primarySource THEN "imageOk" ELSE "check") /\ UNCHANGED bs
     \/ secT' \in TornTrailer(secT) /\ Cut
  /\ UNCHANGED <<pri, priT, sec, history>>

(* boot_copy_image erases the primary slot with its trailer and copies the *)
(* secondary slot with its trailer.  An erase of the first page that is    *)
(* torn, which would leave a header neither erased nor of an image, is     *)
(* left out: NothingToDo would then never get the slot written again.      *)
OverErase ==
  /\ At("overErase")
  /\ bs' = [bs EXCEPT !.pos = IF bs.pos = Pages THEN 0 ELSE bs.pos + 1]
  /\ IF bs.pos = Pages
       THEN priT' = NoTrailer /\ UNCHANGED pri /\ Go("overCopy")
       ELSE pri' = [pri EXCEPT ![bs.pos] = Blank] /\ UNCHANGED priT /\ Go("overErase")
  /\ UNCHANGED <<sec, secT, history>>

OverCopy ==
  /\ At("overCopy")
  /\ \/ /\ bs' = [bs EXCEPT !.pos = bs.pos + 1]
        /\ IF bs.pos = Pages
             THEN priT' = secT /\ UNCHANGED pri /\ Go("spare")
             ELSE pri' = [pri EXCEPT ![bs.pos] = sec[bs.pos + 1]] /\ UNCHANGED priT /\ Go("overCopy")
     \/ /\ bs.pos < Pages
        /\ \E torn \in TornCopy(sec[bs.pos + 1]) \ {Junk} : pri' = [pri EXCEPT ![bs.pos] = torn]
        /\ Cut /\ UNCHANGED priT
  /\ UNCHANGED <<sec, secT, history>>

----------------------------------------------------------------------------
(* MCUBOOT_VALIDATE_PRIMARY_SLOT, then the application or halt.            *)
Unconfirmed == priT.magic = "good" /\ priT.done /\ ~priT.ok

FinalCheck ==
  /\ At("check")
  /\ IF PrimaryValid
       THEN /\ pc' = "app" /\ cuts' = 0
            /\ running' = Header(pri[0]) /\ onTrial' = Unconfirmed
            /\ fallback' = IF Unconfirmed THEN running ELSE fallback
            /\ scheduled' = None
       ELSE Go("halt") /\ UNCHANGED history
  /\ bs' = NoStatus
  /\ UNCHANGED flash

PowerCut ==
  /\ pc \notin {"app", "boot", "halt"}
  /\ Cut
  /\ UNCHANGED <<flash, history>>

----------------------------------------------------------------------------
(* The application, in what matters here (see FwUpdate).                   *)

(* An update is stored; FW_FINISH schedules it, or it does not come to     *)
(* that.                                                                   *)
Update(i) ==
  /\ At("app") /\ ~onTrial
  /\ sec' = StoredAt(1, i)
  /\ \/ secT' \in {NoTrailer, [NoTrailer EXCEPT !.magic = "bad"]} /\ scheduled' = None
     \/ secT' = [NoTrailer EXCEPT !.magic = "good", !.type = "test"] /\ scheduled' = i
  /\ UNCHANGED <<pc, pri, priT, bs, cuts, running, onTrial, fallback>>

Confirm ==
  /\ At("app") /\ priT.magic = "good" /\ ~priT.ok
  /\ priT' = [priT EXCEPT !.ok = TRUE] /\ onTrial' = FALSE
  /\ UNCHANGED <<pc, pri, sec, secT, bs, cuts, running, fallback, scheduled>>

Reset ==
  /\ At("app") /\ pc' = "boot"
  /\ UNCHANGED <<flash, bs, cuts, history>>

----------------------------------------------------------------------------
BootStep ==
  \/ StartSwap \/ StartOverwrite \/ StartWipe \/ NothingToDo \/ Resume
  \/ FixupErase \/ FixupInit \/ InitErase \/ InitStatus \/ ClearSec
  \/ SavePage \/ MovePage \/ WriteStatus
  \/ EraseSpare \/ EraseTail \/ SetImageOk \/ SetCopyDone
  \/ Wipe \/ WipeTail \/ OverErase \/ OverCopy \/ FinalCheck

AppStep == (\E i \in Updates : Update(i)) \/ Confirm \/ Reset

Next == BootStep \/ PowerCut \/ AppStep

Spec == Init /\ [][Next]_vars

(* The boot loader runs; power cuts are bounded by MaxCuts.                *)
FairSpec == Spec /\ WF_vars(BootStep)

----------------------------------------------------------------------------
(* Properties.                                                             *)

(* Every variable keeps its type; in particular a status never counts more *)
(* entries than the trailer has room for.                                  *)
TypeOK ==
  /\ pc \in {"app", "boot", "halt", "check", "fixErase", "fixInit", "initErase",
             "initStatus", "clearSec", "save", "move", "status", "spare", "tail",
             "imageOk", "copyDone", "wipe", "wipeTail", "overErase", "overCopy"}
  /\ pri \in [0 .. (Pages - 1) -> Page] /\ sec \in [0 .. Pages -> Page]
  /\ priT \in Trailer /\ secT \in Trailer
  /\ bs \in [type: {"none", "test", "revert"}, primarySource: BOOLEAN,
             pos: 0 .. 2 * Pages + 1, size: 0 .. Pages,
             usedPri: 0 .. Pages, usedSec: 0 .. Pages]
  /\ cuts \in 0 .. MaxCuts
  /\ running \in Images /\ fallback \in Images
  /\ onTrial \in BOOLEAN /\ scheduled \in Images \cup {None}

Kept(i) ==
  \A k \in 0 .. (Size[i] - 1) :
    \/ \E j \in DOMAIN pri : pri[j] = Whole(i, k)
    \/ \E j \in DOMAIN sec : sec[j] = Whole(i, k)

(* At every moment of a swap or a revert, wherever it is cut, each page of *)
(* the images that may have to run again is in flash somewhere: of the one *)
(* that ran last, of the one to go back to, of the one to try              *)
(* (swap_offset.c:432, 500).  Two limits: one cut until an application     *)
(* runs again, and no image two pages longer than an update.  Beyond them  *)
(* CutsSurvived and UnconfirmedGoesBack below fail, and this does too.     *)
NothingLost ==
  /\ Kept(running)
  /\ onTrial => Kept(fallback)
  /\ scheduled \in SignedImages => Kept(scheduled)

(* The image a swap under way takes out of the primary slot and the one it *)
(* brings in, by what has run and what was scheduled.  Without a trial, a  *)
(* revert takes out an update that a cut has kept from running.            *)
Leaving == IF priT.type = "test" \/ onTrial THEN running ELSE scheduled
Entering ==
  IF priT.type = "test" THEN scheduled ELSE IF onTrial THEN fallback ELSE running

(* Of an update only the last page is left to exchange, or nothing.        *)
LastPageOfUpdate == priT.type = "test" /\ priT.status >= 2 * (priT.size - 1)

(* A resumed swap reads the header of the image that enters the primary    *)
(* slot in the place of that one, and of the image that leaves it in the   *)
(* place of this one, or it would work with the sizes of the wrong images  *)
(* (swap_offset.c:90).  The exception is the last page of an update: there *)
(* the code reads the entering image's header for the leaving image's too  *)
(* (line 146, see OldHeaderMoved).  The size it gets must then still not   *)
(* make it skip the last page of the leaving image.                        *)
ResumeFindsHeaders ==
  At("boot") /\ Source /\ priT.status > 0 =>
    /\ ResumedSecHeader = Entering
    /\ ~LastPageOfUpdate => ResumedPriHeader = Leaving
    /\ LastPageOfUpdate =>
         /\ ResumedPriHeader \in {Leaving, Entering}
         /\ priT.size = Size[Leaving] => ~Beyond(priT.size - 1, Size[ResumedPriHeader])

Boot == INSTANCE BootSpec WITH
  mode <- IF pc = "app" THEN "app" ELSE "boot",
  image <- running, trial <- onTrial, backup <- fallback, pending <- scheduled

(* Swap, resumption and revert amount to the promise of BootSpec: the      *)
(* scheduled image runs next, one that was not confirmed is replaced by    *)
(* the image before, and otherwise nothing changes.                        *)
Implements == Boot!Spec

(* A scheduled image that the boot loader accepts does run, if power stays *)
(* (swap_offset.c:582, bootutil_public.c:425).                             *)
UpdateTaken ==
  [][pc = "check" /\ pc' = "app" /\ cuts = 0 /\ scheduled \in SignedImages =>
       running' = scheduled /\ onTrial']_vars

(* Every boot ends with an application, after finitely many cuts, and not  *)
(* in halt (loader.c:1716, boot/main.c:8).                                 *)
BootEnds == pc = "boot" ~> pc = "app"

(* docs/USB_CAN_PROTOCOL_V2.md:138: the boot loader takes care of the      *)
(* recovery from power loss and of going back from an image that was not   *)
(* confirmed.  An image on trial does not run again without confirmation.  *)
UnconfirmedGoesBack ==
  [][onTrial /\ pc # "app" /\ pc' = "app" => running' = fallback]_vars

(* docs/BOOTLOADER_DECISION.md:117: a reset in any erase or copy of the    *)
(* exchange is followed by a boot that goes on with it or goes back; in    *)
(* particular it never ends without any image to start.                    *)
CutsSurvived == [][pc' = "halt" => cuts = 0]_vars
=============================================================================
