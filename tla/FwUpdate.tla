------------------------------ MODULE FwUpdate ------------------------------
(***************************************************************************)
(* The firmware update of the application image (firmware/src/fw_update.c) *)
(* with the flash it works on, the confirmation of the running image by    *)
(* the main task (firmware/src/app.c), and what MCUboot does with the two  *)
(* slots at the next boot.                                                 *)
(*                                                                         *)
(* Flash is counted in doublewords, the unit of programming.  The          *)
(* secondary slot has Pages pages: page 0 is spare (swap using offset), an *)
(* update is stored from page 1 on, the last page holds the trailer.       *)
(* Every flash operation can fail half way, and power can be cut during    *)
(* and between operations.  A command that is refused changes nothing and  *)
(* is not an action here; XcanUsb models its answer.                       *)
(***************************************************************************)
EXTENDS Naturals

CONSTANTS
  Images,        \* firmware images, and other data a host might send
  Length,        \* their lengths in doublewords
  HeaderImages,  \* those that begin with the magic of an image header
  SignedImages,  \* those the boot loader accepts
  Installed,     \* the image in the primary slot at first
  PageWords,     \* doublewords in a page
  Pages,         \* pages of the secondary slot
  MinWords,      \* shortest update
  ChunkMax,      \* longest write
  None

ImageMax == (Pages - 2) * PageWords      \* XCAN_SIGNED_IMAGE_MAX
Slot == 0 .. ((Pages - 1) * PageWords - 1)   \* the slot without its trailer page

ASSUME SizesAssumption ==
  /\ PageWords \in Nat \ {0} /\ Pages \in Nat /\ Pages > 2
  /\ MinWords \in Nat \ {0} /\ ChunkMax \in Nat \ {0}
  /\ ImageMax \in Nat

ASSUME ImagesAssumption ==
  /\ Length \in [Images -> 1 .. ImageMax]
  /\ SignedImages \subseteq HeaderImages /\ HeaderImages \subseteq Images
  /\ Installed \in SignedImages
  /\ None \notin Images

(* A doubleword of flash: of an image, erased, or neither.                 *)
Word == (Images \cup {None}) \X Nat
Blank == <<None, 0>>
Garbage == <<None, 1>>

States == {"IDLE", "ERASING", "READY", "RECEIVING", "COMPLETE", "ERROR"}
Errors == {"NONE", "IO", "MAGIC", "HASH", "PENDING"}

VARIABLES
  mode,          \* "app": the application runs; "off": halted or without power
  \* fw_update.c
  state, error,
  size, hash,    \* of the update the host announced; the hash names an image
  next,          \* doublewords received
  eraseOffset,   \* pages erased, counting the trailer page
  \* app.c
  confirm,       \* boot_set_confirmed: "wait", "writing", "done" (update_ready)
  \* flash
  sec,           \* the secondary slot
  trailer,       \* the magic of its trailer: "unset", "bad", "good"
  primary,       \* the image in the primary slot
  primaryState,  \* its trailer: "plain" (no magic), "test" (image_ok unset), "ok"
  \* history
  backup,        \* the image that primary replaced last
  acked          \* whose data the host has been told is stored, by doubleword

updateVars == <<state, error, size, hash, next, eraseOffset>>
flashVars  == <<sec, trailer>>
bootVars   == <<primary, primaryState, backup>>
vars == <<mode, updateVars, confirm, flashVars, bootVars, acked>>

NoneAcked == [k \in 0 .. (ImageMax - 1) |-> None]

(* xcan_fw_reset, and the RAM after a reset.                               *)
ResetUpdate ==
  /\ state' = "IDLE" /\ error' = "NONE"
  /\ size' = 0 /\ hash' = None /\ next' = 0 /\ eraseOffset' = 0
  /\ acked' = NoneAcked

Init ==
  /\ mode = "app"
  /\ state = "IDLE" /\ error = "NONE"
  /\ size = 0 /\ hash = None /\ next = 0 /\ eraseOffset = 0
  /\ confirm = "wait"
  /\ sec \in {[w \in Slot |-> Blank], [w \in Slot |-> Garbage]}
  /\ trailer = "unset"
  /\ primary = Installed /\ primaryState = "plain" /\ backup = Installed
  /\ acked = NoneAcked

(* A command of the usb task; usb_init resets the update state first.      *)
Fail(e) == state' = "ERROR" /\ error' = e

(* Power is lost, or the device halts until it is (xcan_fatal).            *)
PowerOff ==
  /\ mode' = "off" /\ confirm' = "wait"
  /\ ResetUpdate

(* A flash operation that did not succeed: the code sees an error, or      *)
(* power is lost.                                                          *)
FailOrPowerOff(e) ==
  \/ /\ Fail(e)
     /\ UNCHANGED <<mode, confirm, size, hash, next, eraseOffset, acked>>
  \/ PowerOff

----------------------------------------------------------------------------
(* flash_map_backend.c.                                                    *)

PageOf(p) == (p * PageWords) .. ((p + 1) * PageWords - 1)

Erased(p) == [w \in Slot |-> IF w \in PageOf(p) THEN Blank ELSE sec[w]]

(* An erase that did not finish leaves the page as it was, erased, or      *)
(* neither.                                                                *)
HalfErased(p) ==
  {sec, Erased(p), [w \in Slot |-> IF w \in PageOf(p) THEN Garbage ELSE sec[w]]}

HalfErasedTrailer == {trailer, "bad", "unset"}

(* The first n doublewords of img's data from offset on are programmed.    *)
Programmed(offset, img, n) ==
  [w \in Slot |-> IF w \in (PageWords + offset) .. (PageWords + offset + n - 1)
                    THEN <<img, w - PageWords>> ELSE sec[w]]

(* The flash refuses to program a doubleword that is not erased.           *)
Programmable(offset, length) ==
  \A k \in 0 .. (length - 1) : sec[PageWords + offset + k] = Blank

(* Programming stops at the first doubleword that fails, which may be torn. *)
HalfProgrammed(offset, img, length) ==
  UNION { {Programmed(offset, img, n),
           [Programmed(offset, img, n) EXCEPT ![PageWords + offset + n] = Garbage]} :
            n \in {n \in 0 .. (length - 1) : Programmable(offset, n)} }

----------------------------------------------------------------------------
(* The commands, as dispatch_v2 calls them.                                *)

Running == mode = "app"

Active == state \in {"ERASING", "READY", "RECEIVING"}

(* Mutation of BeginAllowed: update_ready is not asked.                    *)
BeginAlways(sz) == MinWords <= sz /\ sz <= ImageMax /\ ~Active

BeginAllowed(sz) ==
  confirm = "done" /\ MinWords <= sz /\ sz <= ImageMax /\ ~Active

Begin(sz, h) ==
  /\ Running /\ BeginAllowed(sz)
  /\ \/ /\ state' = "ERASING" /\ error' = "NONE"
        /\ size' = sz /\ hash' = h /\ next' = 0 /\ eraseOffset' = 1
        /\ acked' = NoneAcked
        /\ trailer' = "unset"
        /\ UNCHANGED <<mode, confirm>>
     \/ /\ trailer' \in HalfErasedTrailer
        /\ Fail("IO")
        /\ size' = sz /\ hash' = h /\ next' = 0 /\ eraseOffset' = 0
        /\ acked' = NoneAcked
        /\ UNCHANGED <<mode, confirm>>
     \/ /\ trailer' \in HalfErasedTrailer
        /\ PowerOff
  /\ UNCHANGED <<sec, bootVars>>

(* Mutations of the three operators below: the spare page is not erased;   *)
(* the erase stops one page early, or late, or begins again.               *)
StepPageSkipSpare == IF eraseOffset = 1 THEN Pages ELSE eraseOffset - 1
ErasedAllEarly(n) == n = Pages - 1
ErasedAllLate(n) == n = Pages + 1
AdvanceAgain(n) == IF n + 1 = Pages THEN 1 ELSE n + 1

StepPage == eraseOffset - 1
ErasedAll(n) == n = Pages
Advance(n) == n + 1

(* FW_STATUS erases the next page.                                         *)
Step ==
  /\ Running /\ state = "ERASING"
  /\ \/ /\ sec' = Erased(StepPage)
        /\ eraseOffset' = Advance(eraseOffset)
        /\ state' = IF ErasedAll(Advance(eraseOffset)) THEN "READY" ELSE state
        /\ UNCHANGED <<mode, confirm, error, size, hash, next, acked>>
     \/ /\ sec' \in HalfErased(StepPage)
        /\ FailOrPowerOff("IO")
  /\ UNCHANGED <<trailer, bootVars>>

(* The checks of xcan_fw_write; lengths are whole doublewords here, the    *)
(* last one of an image padded by the code.                                *)
WriteAllowed(offset, length) ==
  /\ 1 <= length /\ length <= ChunkMax /\ offset + length <= size
  /\ state \in {"READY", "RECEIVING"}

Write(offset, length, img) ==
  /\ Running /\ WriteAllowed(offset, length) /\ offset = next
  /\ \/ /\ Programmable(offset, length)
        /\ sec' = Programmed(offset, img, length)
        /\ next' = next + length /\ state' = "RECEIVING"
        /\ acked' = [k \in DOMAIN acked |->
                       IF k \in offset .. (offset + length - 1) THEN img ELSE acked[k]]
        /\ UNCHANGED <<mode, confirm, error, size, hash, eraseOffset>>
     \/ /\ sec' \in HalfProgrammed(offset, img, length)
        /\ FailOrPowerOff("IO")
  /\ UNCHANGED <<trailer, bootVars>>

(* Mutation of SameData: an old block is accepted unseen.                  *)
AnyData(offset, length, img) == offset + length <= next

SameData(offset, length, img) ==
  /\ offset + length <= next
  /\ \A k \in offset .. (offset + length - 1) : sec[PageWords + k] = <<img, k>>

(* A block that was written before is acknowledged if it is the same.      *)
WriteAgain(offset, length, img) ==
  /\ Running /\ WriteAllowed(offset, length) /\ offset < next
  /\ SameData(offset, length, img)
  /\ acked' = [k \in DOMAIN acked |->
                 IF k \in offset .. (offset + length - 1) THEN img ELSE acked[k]]
  /\ UNCHANGED <<mode, updateVars, confirm, flashVars, bootVars>>

(* The first doubleword is that of an image header.                        *)
HasMagic(w) == \E i \in HeaderImages : w = <<i, 0>>

(* The slot holds image i from page 1 on.                                  *)
Holds(i) == \A k \in 0 .. (Length[i] - 1) : sec[PageWords + k] = <<i, k>>

(* The SHA-256 of the received data is the announced one.                  *)
DigestMatches == size = Length[hash] /\ Holds(hash)

(* boot_set_next on the secondary slot: the magic, two doublewords, and    *)
(* then swap_info.                                                         *)
SetPendingOk == trailer \in {"unset", "good"}
HalfPending == IF trailer = "unset" THEN {"unset", "bad", "good"} ELSE {trailer}

FinishAllowed == state = "RECEIVING" /\ next = size

(* Mutation of Verified: FW_FINISH trusts the magic.                       *)
VerifiedMagic == HasMagic(sec[PageWords])

Verified == HasMagic(sec[PageWords]) /\ DigestMatches

FinishRefused ==
  /\ Running /\ FinishAllowed /\ ~Verified
  /\ Fail(IF HasMagic(sec[PageWords]) THEN "HASH" ELSE "MAGIC")
  /\ UNCHANGED <<mode, size, hash, next, eraseOffset, confirm, flashVars,
                 bootVars, acked>>

Finish ==
  /\ Running /\ FinishAllowed /\ Verified
  /\ \/ /\ SetPendingOk
        /\ trailer' = "good"
        /\ state' = "COMPLETE" /\ error' = "NONE"
        /\ UNCHANGED <<mode, size, hash, next, eraseOffset, confirm, acked>>
     \/ /\ trailer' \in HalfPending
        /\ FailOrPowerOff("PENDING")
  /\ UNCHANGED <<sec, bootVars>>

Abort ==
  /\ Running /\ state # "COMPLETE"
  /\ ResetUpdate
  /\ UNCHANGED <<mode, confirm, flashVars, bootVars>>

----------------------------------------------------------------------------
(* The main task confirms the running image: boot_set_next on the primary  *)
(* slot, preempted by the usb task at will.                                *)

ConfirmStart ==
  /\ Running /\ confirm = "wait"
  /\ confirm' = "writing"
  /\ UNCHANGED <<mode, updateVars, flashVars, bootVars, acked>>

ConfirmDone ==
  /\ Running /\ confirm = "writing"
  /\ confirm' = "done"
  /\ primaryState' = IF primaryState = "test" THEN "ok" ELSE primaryState
  /\ UNCHANGED <<mode, updateVars, flashVars, primary, backup, acked>>

(* A torn image_ok is not unset either.                                    *)
ConfirmFails ==
  /\ Running /\ confirm = "writing" /\ primaryState = "test"
  /\ primaryState' \in {"test", "ok"}
  /\ PowerOff
  /\ UNCHANGED <<flashVars, primary, backup>>

PowerCut ==
  /\ Running
  /\ PowerOff
  /\ UNCHANGED <<flashVars, bootVars>>

----------------------------------------------------------------------------
(* MCUboot at the next boot.  A swap is one step here: the boot loader     *)
(* resumes an interrupted one.                                             *)

(* boot_validate_slot: an image header in the spare page is taken for an   *)
(* image loaded to the wrong place.                                        *)
Bootable(i) == i \in SignedImages /\ Holds(i) /\ ~HasMagic(sec[0])

Booted == mode = "off" /\ mode' = "app"

BootTest(i) ==
  /\ Booted /\ trailer = "good" /\ Bootable(i)
  /\ primary' = i /\ primaryState' = "test" /\ backup' = primary
  /\ sec' = [w \in Slot |-> IF w < Length[primary] THEN <<primary, w>> ELSE Garbage]
  /\ trailer' = "unset"
  /\ UNCHANGED <<updateVars, confirm, acked>>

(* An image that does not pass is wiped.                                   *)
BootReject ==
  /\ Booted /\ trailer = "good" /\ ~\E i \in Images : Bootable(i)
  /\ sec' = [w \in Slot |-> Blank] /\ trailer' = "unset"
  /\ UNCHANGED <<updateVars, confirm, acked, bootVars>>

(* An unconfirmed image is replaced by what the secondary slot holds.      *)
BootRevert ==
  /\ Booted /\ trailer # "good" /\ primaryState = "test"
  /\ primary' = sec[0][1] /\ primaryState' = "ok"
  /\ sec' = [w \in Slot |-> Garbage] /\ trailer' = "unset"
  /\ UNCHANGED <<updateVars, confirm, acked, backup>>

BootPlain ==
  /\ Booted /\ trailer # "good" /\ primaryState # "test"
  /\ UNCHANGED <<updateVars, confirm, acked, flashVars, bootVars>>

----------------------------------------------------------------------------
Command ==
  \/ \E sz \in 0 .. ImageMax, h \in Images : Begin(sz, h)
  \/ Step
  \/ \E offset \in 0 .. ImageMax, length \in 0 .. ChunkMax, img \in Images :
       Write(offset, length, img) \/ WriteAgain(offset, length, img)
  \/ Finish \/ FinishRefused \/ Abort

Confirmation == ConfirmStart \/ ConfirmDone \/ ConfirmFails

Boot == (\E i \in Images : BootTest(i)) \/ BootReject \/ BootRevert \/ BootPlain

Next == Command \/ Confirmation \/ PowerCut \/ Boot

Spec == Init /\ [][Next]_vars

(* A host that polls FW_STATUS.                                            *)
HostPolls == WF_vars(Step)

FairSpec == Spec /\ HostPolls

----------------------------------------------------------------------------
(* Properties.                                                             *)

UpdateTypes ==
  /\ mode \in {"app", "off"} /\ confirm \in {"wait", "writing", "done"}
  /\ state \in States /\ error \in Errors
  /\ size \in 0 .. ImageMax /\ hash \in Images \cup {None}
  /\ next \in 0 .. ImageMax /\ eraseOffset \in 0 .. Pages

FlashTypes == sec \in [Slot -> Word] /\ trailer \in {"unset", "bad", "good"}

BootTypes ==
  /\ primary \in Images /\ primaryState \in {"plain", "test", "ok"}
  /\ backup \in Images

AckedTypes == acked \in [0 .. (ImageMax - 1) -> Images \cup {None}]

(* Every variable keeps its type: the erase never passes the slot, what is *)
(* received never passes the largest image, what boots is an image.        *)
TypeOK == UpdateTypes /\ FlashTypes /\ BootTypes /\ AckedTypes

(* Whenever the trailer would make the boot loader swap - at any moment,   *)
(* and with any failure or power cut behind it - the slot holds a whole    *)
(* image that some FW_FINISH has verified, and no header in the spare page *)
(* that would have the boot loader reject it (fw_update.c:45, 63, 162).    *)
PendingVerified ==
  trailer = "good" => /\ \E h \in HeaderImages : Holds(h)
                      /\ ~HasMagic(sec[0])

(* As long as the running image is on trial, the secondary slot holds the  *)
(* image to go back to, and no other update is scheduled (usb.c:173).      *)
RollbackIntact ==
  primaryState = "test" =>
    /\ trailer # "good"
    /\ \A w \in 0 .. (Length[backup] - 1) : sec[w] = <<backup, w>>

(* An image that was not confirmed does not survive the next boot.         *)
UnconfirmedReverts ==
  [][mode = "off" /\ mode' = "app" /\ primaryState = "test" =>
       primary' = backup /\ primaryState' = "ok"]_vars

(* What the host was told is stored is in flash, for every block it has    *)
(* written or repeated since FW_BEGIN (xcan_fw_write's two answers 0).     *)
AckedStored ==
  \A k \in DOMAIN acked : acked[k] # None => sec[PageWords + k] = <<acked[k], k>>

(* A write in sequence always finds erased flash: the erase has covered    *)
(* the whole area an image may use, whatever an earlier update left there. *)
WriteTargetErased ==
  state \in {"READY", "RECEIVING"} =>
    \A k \in next .. (ImageMax - 1) : sec[PageWords + k] = Blank

(* COMPLETE, which FW_REBOOT relies on, means that the announced image is  *)
(* in the slot and scheduled.                                              *)
CompleteMeansPending ==
  state = "COMPLETE" => trailer = "good" /\ DigestMatches

(* The usb task, which preempts the main task, does not start a flash      *)
(* operation while the main task is inside one.                            *)
FlashExclusive == confirm = "writing" => state = "IDLE"

(* docs/USB_CAN_PROTOCOL_V2.md:63: FW_ABORT is for before the image is     *)
(* pending; an abort that succeeds leaves nothing scheduled.               *)
AbortMeansNotPending ==
  [][state # "IDLE" /\ state' = "IDLE" /\ mode' = "app" => trailer # "good"]_vars

(* The state of the abstract register.                                     *)
RegisterMode == IF Running THEN "app" ELSE "boot"
OnTrial == primaryState = "test"
Scheduled == IF trailer = "good" THEN CHOOSE i \in HeaderImages : Holds(i) ELSE None

Register == INSTANCE BootSpec WITH
  mode <- RegisterMode, image <- primary, trial <- OnTrial, backup <- backup,
  pending <- Scheduled

(* Commands, failures, confirmation and boot amount to the promise of      *)
(* BootSpec: whatever the host sends and whenever power is cut, the image  *)
(* changes only to the one in the slot that FW_FINISH has scheduled, and   *)
(* back (fw_update.c:162, app.c:89).                                       *)
Implements == Register!Spec

(* The erase ends when the host keeps polling.                             *)
EraseEnds == state = "ERASING" ~> state # "ERASING"
=============================================================================
