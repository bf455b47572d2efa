# X-CAN: TLA+ models, checks and proofs

X-CAN is a USB-to-CAN adapter on an STM32G431. The repository holds its firmware
(`firmware/src`, on FreeRTOS and CherryUSB), the boot loader (`firmware/boot`, on
MCUboot), and a host library and tool in Rust (`host/src`). At this commit CAN
itself is not driven yet: what the firmware does is talk a request/response
protocol over a vendor bulk interface and replace its own image through it. These
modules describe that: the USB transport and its interrupt/task interleavings, and
the firmware update with its flash, power cuts and boots.

Run any of the checks below from this directory with
`tlc -config <cfg> <module>`, and the proofs with `tlapm <module>.tla`.

## 1. Inventory

### 1.1 Components

**USB transport** (`firmware/src/usb.c`, usb task in `firmware/src/app.c`).
State: `enabled`, `ready`, `reboot_after_tx`, the request buffer with `received`
and `expected`, `session`, `session_generation`, `last_request_id`,
`connection_generation`; locals of `usb_work` that survive its unlocked stretches.
Operations: `event` (reset, configured, disconnected), `out_done`, `in_done`,
`usb_work` with `prepare_v2` and `dispatch_v2`. The callbacks run in the USB
interrupt; `usb_work` runs in a task and takes the lock three times.
Correct when: no complete request is forgotten, a live connection always has
somebody who arms the OUT endpoint again, a response reaches only the connection
of its request, a command is executed at most once and never from bytes of an old
configuration, the reset of FW_REBOOT waits for its own response, session ids are
fresh, lengths stay inside the buffer.

**Firmware update** (`firmware/src/fw_update.c`). State: `update.status` (state,
error, image size, next offset, erase offset), the expected hash, the secondary
slot and its trailer in flash. Operations: begin, step (one page per FW_STATUS),
write, finish, abort, status. Correct when: whatever fails and whenever power is
cut, the boot loader only ever finds a verified image scheduled; what was
acknowledged is stored; erase covers what will be written and terminates; COMPLETE
means scheduled; the image to roll back to is never overwritten while it is needed.

**Application tasks** (`firmware/src/app.c`). The usb task (priority 2) and the
main task (priority 1): the latter confirms the running image one second after
start (`boot_set_confirmed`), sets `update_ready`, debounces the termination
switch, blinks. Correct when: the two never use the flash at once, the termination
is reported only when stable.

**Boot loader** (`firmware/boot/main.c`, MCUboot's `loader.c`, `swap_offset.c`,
`bootutil_public.c`). State: both slots, their trailers, the swap status.
Operations: decide the swap type, validate, swap sector by sector, resume. Correct
when: at every power cut one of the two images boots, an unconfirmed image reverts.

**Flash backend** (`firmware/boot/flash_map_backend.c`). Page erase, doubleword
program, bounds of the two slots. Correct when: no operation leaves its area, and a
programmed doubleword is never programmed again.

**CherryUSB and the FSDEV port** (`components/CherryUSB`). Endpoint and bus
interrupts, SET_CONFIGURATION, transfers. The order in which the interrupt handler
reports endpoint events and bus events is what the transport depends on.

**Protocol v2 and v1 codecs** (`protocol_v2.c`, `protocol.c`, and in Rust
`protocol_v2.rs`). Pure functions, except the stream decoder, which accumulates
bytes and latches an error. Correct when: both sides accept the same messages, and
the decoder's result does not depend on how the stream is cut.

**Host library and client** (`host/src/protocol_v2.rs`, `firmware_update.rs`,
`main.rs`). State: session, next id, update progress. Operations: open and HELLO,
transact with timeout, the update loop. Correct when: the loop ends with a complete
update or an error, and a retry is never taken for a new request.

Board and clock set-up (`Core/`), HAL, CMSIS, FreeRTOS, TinyCrypt, the build and
hardware test scripts and the archived Zephyr firmware are listed in PROJECT.json
as not modelled: vendored, straight-line, or no part of the running system.

### 1.2 Interactions

    host tool  --OUT packets-->  FSDEV interrupt --out_done-->  request, ready
        ^                                            | usb_wake (notification)
        |                                            v
        +----IN transfer----  in_done  <--start_write-- usb task: usb_work
                                                     | dispatch_v2 (unlocked)
                                                     v
                     fw_update.c --flash_area_*--> secondary slot, trailer
                     app.c main task --boot_set_confirmed--> primary trailer
                                                     | reset / power
                                                     v
                                     MCUboot: swap, test, revert

### 1.3 What is hard

Interrupt against task on shared statics with the lock released in between; bus
events at any point of a command; endpoint completions reported after the event
that should have cancelled them; a wake-up counted but not kept; a reset armed for
a transfer that may be cancelled; counters that wrap; flash operations that fail
half way, power cuts inside them; RAM state and flash state that must agree across
resets; the main task preempted inside a flash operation. PROJECT.json lists each
at its line with the properties that cover it.

## 2. Plan

| order | module | subject | state |
|---|---|---|---|
| 1 | `XcanUsb` | transport: interrupts, task, bus events, sessions | done |
| 2 | `FwUpdate` | update, flash, confirmation, boot decisions | done |
| 3 | `XcanUsb_proofs` | theorems about the transport | done |
| 4 | `FwUpdate_proofs` | theorems about the update | done |
| 5 | `BootSpec` | abstract specification: a register of the image that runs | done; implemented by `FwUpdate` and `SwapOffset` |
| 6 | `SwapOffset` | MCUboot's decision, swap, revert and resumption, page by page with power cuts | done |
| 7 | `XcanSystem` | the host tool's update command, the device's session and `FwUpdate` composed | done |
| 8 | `StreamDecoder` | the byte-stream decoder against the boundaries of the stream, for all cuts | done |
| 9 | `MainTask` | debouncing, the confirmation delay, the tick count's wrap | done |
| 10 | `XcanUsb_orderly_proofs` | theorems about hosts without late completions | done |
| 11 | `FwUpdate_refines` | `FwUpdate` implements `BootSpec` | done |
| 12 | `XcanSystem_proofs` | answers belong to the tool's own requests; what is promised boots; an undisturbed run succeeds | done |
| 13 | `StreamDecoder_proofs`, `MainTask_proofs` | the decoder's buffer, its independence of the cuts; reports and times of the main task | done |
| 14 | `SwapOffset_proofs` | recovery from one cut, and that the swap implements `BootSpec` | done |

How they hang together:

    BootSpec  <-- implements -- FwUpdate   <-- INSTANCE -- XcanSystem
              <-- implements -- SwapOffset
    XcanUsb (inside of usb.c)     StreamDecoder     MainTask

Every safety property a passing run checks is also proved. Still worth proving: the
variants behind the liveness properties (that each erase, block, page or piece brings the
loop nearer to its end), which the prover can do as action properties even though the
step from there to `~>` stays with TLC; and the hosts of `XcanUsb` with late completions,
for which `NothingDropped` does not hold, up to a bound on what they lose.

## 3. XcanUsb: the transport

One action per critical section or interrupt handler:

| action | code |
|---|---|
| `OutDone`, `InDone` | `out_done`, `in_done` (with `arm_out`, `set_expected`) |
| `BusReset`, `Configure`, `Deconfigure` | `event`, called by CherryUSB |
| `HostOut`, `HostIn` | the endpoint hardware takes or delivers a packet |
| `TakeNotification` | `ulTaskNotifyTake` in `usb_thread` |
| `WorkTake`, `WorkPrepare`, `Dispatch`, `WorkSend` | the locked sections of `usb_work`, and the command between the second and the third |
| `ConfirmImage` | the main task sets `update_ready` |

Correspondence: `request` is the received prefix of the request buffer (`received`
is its length); `work`, `generation`, `response`, `reboot` are `usb_work`'s locals
and the buffers only it uses. `lastExecuted` and `stale` are history variables.

Abstractions, and why they are sound:

- A *cell* stands for several bytes. What the code can tell about a message is its
  version byte, its length fields and whether it decodes; `Cell` keeps which
  message a byte belongs to and its position, so that a request glued together from
  two messages reads as it would in the code. A first cell that is not the first
  of its message reads as an unknown version.
- The code distinguishes 5 < 24 < 64 = packet size < 544; the model keeps the order,
  with 1 < 3 < 4 < 7 in the runs.
- The interrupt preempts the task at any point outside a critical section, but a
  task step runs only when no endpoint interrupt is pending (`NoIrq`): a transfer
  that completes inside a critical section is reported just after it.
- `USBD_IRQHandler` drains endpoint interrupts before it reports a bus reset, hence
  `NoIrq` in `BusReset`; a SETUP packet (endpoint 0) is handled before endpoint 1,
  hence none in `Configure` when `LateCompletions` is TRUE. With FALSE the
  host has no transfer pending when it sets the configuration.
- `usbd_ep_start_read` and `usbd_ep_start_write` may fail at any call.
- `BusReset` also stands for DISCONNECTED and ERROR, which reach the same branch of
  `event`. Suspend and resume do not reach it and are left out.
- SET_CONFIGURATION(0) gives `usb.c` no event: a request that waits, and the
  session, stay until the next configuration. `configured` gates every use.
- Update commands are what the transport sees of `fw_update.c`: a status, and
  whether the update is COMPLETE afterwards. `FwBegin`, `FwFinish` and `FwOther`
  allow more combinations than the code (any busy or error status at any time).
- A well-formed message with an event's opcode decodes, but its answer does not
  encode; `usb_work` has nothing to send and gives the connection up (`Encoded`).
- One power cycle: `xcan_reboot` ends the behaviour (`on` is FALSE); what the boot
  does is in `FwUpdate`.

Bounds: `MaxGeneration` bus events per behaviour (2 or 3: one before, one during
and one after a command), sessions modulo 3 (so that the counter wraps and skips 0
within two HELLOs), one OUT and one IN packet in flight (the hardware's own limit).

Fairness (`FairSpec`): the interrupt handler is called while an interrupt is
pending, and the usb task, which has the highest priority of all tasks, runs when
it can (`WF` on the handlers and the task), and the host reads an armed response
(`WF` on `HostIn`). Nothing is assumed of the host's sending or of the bus.

| run | question | states |
|---|---|---|
| `usb_all` | packets cut anywhere, undecodable, over-long, of unknown version; begin, finish and reboot, old ids and stale sessions; late completions; and that the link is always armed again (liveness) | 722k |
| `usb_orderly` | the update commands without late completions, three bus events | 172k |
| `usb_epoch` | finding: late packets enter the new configuration's first request | |

`RebootOnlyComplete` and `NothingDropped` are stated, and proved, for hosts without late
completions only. With a
transfer pending at SET_CONFIGURATION, `in_done` of the old transfer arms the OUT
endpoint again while a request is already waiting or being worked on; the next
packet is then dropped by `out_done`, or a second command overtakes. A host that keeps to
one request at a time, as docs/USB_CAN_PROTOCOL_V2.md asks, is not affected.

## 4. FwUpdate: update, flash and boot

Actions: `Begin`, `Step`, `Write`, `WriteAgain`, `Finish`, `FinishRefused`, `Abort`
(`fw_update.c`), `ConfirmStart`, `ConfirmDone`, `ConfirmFails` (the main task inside
`boot_set_confirmed`), `PowerCut`, and `BootTest`, `BootReject`, `BootRevert`,
`BootPlain` (MCUboot's decision). Each flash operation has its success, its failure
with any partial effect, and a power cut inside it with any partial effect.

- Flash is counted in doublewords, its unit of programming; a doubleword holds a
  part of an image, is erased, or is neither. A torn program leaves one garbage
  doubleword; a torn erase leaves the page as it was, erased, or garbage.
- The secondary slot has a spare page 0 (swap using offset), the image from page 1
  on, and a trailer page of which the magic is kept.
- Lengths are whole doublewords; `xcan_fw_write` pads the last one.
- A command that is refused changes nothing and is no action here.
- Reads and SHA-256 do not fail; a digest names the data it was computed from.
- A swap is one step here and a page-by-page affair in `SwapOffset`; both implement
  `BootSpec`. `boot_validate_slot`'s rejection of an image header in the spare page is
  kept, since it is why `xcan_fw_step` starts at page 0.
- `xcan_fatal` halts the device; it is off until the next power cycle.
- An erased primary slot and `MCUBOOT_BOOTSTRAP` are left to `SwapOffset`.

Bounds: 4 pages of 2 doublewords, three images (one that fills the slot, an unsigned
one with a header); any number of updates, power cuts and boots. The runs are
exhaustive over these. Two image pages are enough for an erase that stops early,
for a write across a page boundary and for images of different lengths.

Fairness: for `EraseEnds`, a host that keeps polling FW_STATUS (`WF` on `Step`),
which is how the host tool waits for READY.

| run | question |
|---|---|
| `fw_safety` | the safety properties over all failures, cuts and boots; `Implements`: the image that runs changes as `BootSpec` says; `EraseEnds`: the erase ends when the host polls (114k states) |
| `fw_abort` | finding: an abort after a failed finish leaves the image scheduled |

## 5. BootSpec and SwapOffset: what a boot promises, and how MCUboot keeps it

`BootSpec` is a register with five variables: whether an application runs, which,
whether it is on trial, the image before, and the image scheduled. It changes at a
boot only: to a scheduled image that the boot loader accepts (`BootNew`), from an
unconfirmed image back to the one before (`BootBack`), or not (`BootSame`). A
scheduled image may also be dropped: when power fails after the swap is complete and
before the new image has run, the next boot takes the image for one that failed and
goes back. `FwUpdate` (run `fw_safety`) and `SwapOffset` (`swap_safety`) are checked to implement
it, each with its own refinement mapping
(`Register`, `Boot`).

`SwapOffset` has one action per flash operation; everything the loader reads
before the operation is in the guard or in the choice of the next operation (`Go`).

| action | code |
|---|---|
| `StartSwap`, `StartOverwrite`, `StartWipe`, `NothingToDo`, `Resume` | `boot_prepare_image_for_update`: read the status and the headers, choose; `boot_complete_partial_swap` |
| `FixupErase`, `FixupInit` | `fixup_revert` |
| `InitErase`, `InitStatus`, `ClearSec` | the trailers prepared by `swap_run` |
| `SavePage`, `MovePage`, `WriteStatus` | `boot_swap_sectors`, `boot_swap_sectors_revert`, `boot_write_status` |
| `EraseSpare`, `EraseTail`, `SetImageOk`, `SetCopyDone` | the end of a swap |
| `Wipe`, `WipeTail` | `boot_scramble_slot` of an image that does not pass |
| `OverErase`, `OverCopy` | `boot_copy_image` (MCUBOOT_BOOTSTRAP) |
| `FinalCheck` | validation of the primary slot, then the application or `halt` |
| `PowerCut`, and the cut in each operation | between two operations, or inside one |
| `Update`, `Confirm`, `Reset` | the application |

- A page holds page k of an image, is erased, or is neither. A copy is an erase and
  a program; a cut in it leaves the page erased, garbage, or its beginning (header
  included) programmed.
- A trailer is its magic, swap type, copy_done, image_ok, swap size and the number of
  status entries. One doubleword is written or not. A cut in the erase of a
  programmed trailer may leave a bad magic; that a cut leaves something in a magic
  that was erased is a choice of `TornMagic`, since it needs the erase of blank flash
  or the write of the magic itself to be torn.
- `pos` is `2 * (idx - 1) + state` of `struct boot_status`.
- Images have at least two pages (their header and code fill one), sizes include the
  TLVs.
- Permanent swaps are never requested by this firmware (`boot_set_pending(false)`),
  and a status write does not fail.
- A torn erase of the first page in `OverErase` is left out; see the hazard at
  loader.c:1268.

Bounds: four pages; the image the device comes with has two, an update four, a newer and
an unsigned one three, so that an update may be longer by two pages, by one, or shorter;
any number of updates and boots. `MaxCuts` bounds the power cuts until an application
runs again. With 1 a cut can fall into each operation of each swap and revert, torn
magics included. Two are not survived in a revert (`swap_halts`), which is why
`swap_safety` stops at one. With two cuts and `TornMagic` the same model also shows that
`fixup_revert` (swap_offset.c:570) writes its trailer only over an UNSET magic: a first cut
that leaves a bad one, and a second while the primary trailer is replaced, lose the
revert. No run is kept for it, as it is the window of `swap_halts` with another outcome.

Fairness (`FairSpec`): the boot loader has the processor to itself, so it takes its
next step (`WF` on `BootStep`); cuts are bounded.

| run | question | states |
|---|---|---|
| `swap_safety` | one cut anywhere: nothing is lost, a resumed swap reads each image's own header or (last page of an update) a size that does no harm, a signed update is taken, every boot ends in an application, `BootSpec` is implemented | 8435 |
| `swap_lastpage` | finding: one cut, an update two pages shorter, cannot be reverted | |
| `swap_halts` | finding: two cuts in a revert | |

The model may stop when a fatal trailer or an image nobody can boot is left (`halt`), so
deadlock is not checked; `BootEnds` says that with one cut no boot ends there.

## 6. XcanSystem: the update command and the device

`XcanSystem` composes the tool (`host/src/main.rs`: `update`, `exchange_v2`,
`v2_request`; `host/src/protocol_v2.rs`: `ClientSession`), the buffer, session and
response of `usb.c`, and `FwUpdate` as an instance (`Fw`) whose actions are what a
command does. A user starts runs of the tool one after the other, stops them
(`Stop`), pulls the plug (`Unplug`); the host system resets the bus (`Reconfigure`).

| action | code |
|---|---|
| `Start` | `open`, `begin_payload`, a new `ClientSession` |
| `SendPacket` | the write loop of `exchange_v2` |
| `Read` | its read loop, `ClientSession::receive`, the status check and the next request of `update` |
| `Timeout` | the two seconds of `exchange_v2` |
| `Serve` | `usb_work`: `prepare_v2` and `dispatch_v2` |
| `Confirm`, `Boot`, `Attach`, `Unplug`, `Reconfigure` | the main task, reset and enumeration |

- A message is one packet, FW_WRITE two, so that a run can stop inside one. The next
  run's packet then continues it (`ForeignPacket`): the request lacks still more, is
  complete with mixed contents, becomes too long, which the device answers like a bad
  request of version 1 (`Noise`), or does not decode and the connection is given up.
- A new configuration between the two packets makes the device take the second for the
  beginning of a request (`OrphanPacket`).
- A request is served in one step; `XcanUsb` has the interleavings inside `usb_work`.
- The tool's two seconds pass only when no answer can come (`NothingComes`); that they
  pass for another reason is `Stop`.
- The main task confirms one second after the start and the tool's last FW_BEGIN
  comes 1.9 s after the first; `ServeBegin` uses this for the last attempt.
- `fresh`, `undisturbed` and `promised` are history: what a run may rely on, and what
  the user was told.

Bounds: three runs of the tool, two attempts at FW_BEGIN, a file of two blocks and an unsigned one
of one, a slot of two image pages. Three runs are enough for what one leaves to the
next.

Fairness: the tool does not stop by itself, and the usb task and the main task run
(`WF` on `ToolStep`, `Serve`, `Confirm`).

| run | question | states |
|---|---|---|
| `system_safety` | answers belong to requests; what is promised boots; an undisturbed run succeeds; every run ends | 125k |
| `system_hello` | finding: HELLO on an old configuration | |

`UndisturbedSucceeds` excludes a device that resumes an update into which another run's
bytes have got: FW_BEGIN with the same hash resumes it, and FW_FINISH then fails, again
in every further run, until the device is reset or another file is sent. The data is
never accepted (`PromiseKept`, `PendingVerified`).

## 7. StreamDecoder and MainTask

`StreamDecoder` is the loop of `xcan_v2_feed`, one action per turn, with the caller
that hands over pieces (`Hand`) and `xcan_v2_finish`; `Decoder` in
`host/src/protocol_v2.rs` is the same loop. A header has two bytes, a mark and a
length, in place of 24, and a payload is valid if a reserved byte is not in it; the
loop asks no more than this of `header` and `xcan_v2_decode`. The reference knows no pieces: it
describes where messages begin in the bytes handed over so far (`Boundaries`) and whether the
last of them is cut short or broken (`Partial`, `Broken`); `CutIndependent` says that the
decoder has delivered just the messages between these places. Checked for all streams of up to six bytes over four
values and all ways to cut them (`decoder_all`, 103k states); messages of zero, one
and two payload bytes occur, as do two errors and a stream cut inside header and
payload. `Terminates` is checked in the same run, with the weak fairness of a caller that
goes on.

`MainTask` is the loop of `main_thread`, a turn one action: the switch's samples, the
confirmation after `XCAN_CONFIRM_DELAY_MS`, the heartbeat. A turn comes ten ticks after
the one before, or later when the usb task keeps the processor; the tick count wraps at
32 in the runs, with a period of 5 and a confirmation after 7, so that every position of
the wrap against the heartbeat occurs (`main_wrap`). `TimesKept` compares what the loop decides from wrapped tick counts
with the time that really passed (`elapsed`, a history variable): one confirmation, not
before its delay and not later than the first turn after it, and heartbeats neither
missed nor early.
`TimeAssumption` asks that the delay and one late turn fit into a wrap of the tick count
(one second against 49 days in the code): the confirmation is decided by comparing
the tick count itself with the delay.

## 8. Proofs

`XcanUsb_proofs` proves, for every alphabet of messages, every way to cut them
into packets, every buffer and packet size, session modulus above 2 and number of
bus events allowed by the ASSUMEs of `XcanUsb`:

| theorem | property | along |
|---|---|---|
| `TypeCorrect` | `TypeOK` | `BaseInv` |
| `ReassemblyCorrect` | `Reassembly` | `BaseInv` |
| `WakeUpKept`, `LinkStaysAlive` | `WakeNotLost`, `LinkAlive` | `LinkInv` |
| `ResponsesMatchConnection` | `ResponseOfThisConnection` | `ResponseInv` |
| `RebootWaitsForResponse` | `RebootAfterOwnResponse` | `ResponseInv` |
| `CommandsAtMostOnce` | `AtMostOnce` | `OrderInv` |
| `StaleBytesNeverExecuted` | `StaleNeverExecuted` | `StaleInv` |
| `RequestKept` | `RequestStable` | single steps |
| `SessionsFresh` | `SessionFresh` | `BaseInv` |

The inductive invariants:

- `BaseInv` = types, reception state, task's message. Types alone are not inductive:
  `usb_work` looks at the first byte of the request, which exists because a request
  that waits on a served connection has the length it announced (`ReceptionInv`);
  `prepare_v2` and `dispatch_v2` use a decoded message (`WorkInv`).
- `LinkInv` = `WakeNotLost` and `LinkAlive`, inductive together: the request that
  keeps a connection alive is the one the wake-up is for.
- `ResponseInv` ties a response to the generation remembered by `usb_work`, and the
  `reboot` flag to a positive FW_REBOOT response.
- `OrderInv` relates `lastExecuted` to the session: on the present connection a
  session is open and has consumed the ids executed; an older generation at work
  cannot be mistaken for it, since generations only grow.
- `StaleInv` locates the bytes of an old configuration until they are gone.

`FwUpdate_proofs` proves, for every size of the slot and its pages, every set of
images that fit and every partial effect of a failing flash operation allowed by the
ASSUMEs of `FwUpdate`:

| theorem | property |
|---|---|
| `UpdateTypeCorrect` | `TypeOK` |
| `PendingIsVerified` | `PendingVerified` |
| `RollbackIsPossible` | `RollbackIntact` |
| `AcknowledgedIsStored` | `AckedStored` |
| `CompleteIsPending` | `CompleteMeansPending` |
| `WritesFindErasedFlash` | `WriteTargetErased` |
| `FlashHasOneUser` | `FlashExclusive` |
| `TrialEnds` | `UnconfirmedReverts` |

They follow from one inductive invariant, `IInv`, because its parts need each other:

- `TypeOK` is not inductive alone: a revert copies the secondary slot to the primary
  one, which is an image only because of `RollbackIntact`.
- `RollbackIntact` holds because no command changes the flash before the running
  image is confirmed, which `PhaseInv` states. `PhaseInv` also says that while blocks
  are received the trailer is unset, so no write can touch a scheduled image.
- `ErasedInv` follows the erase page by page (a prefix is blank) and then the writes
  (the spare page and everything behind `next_offset` are blank).
- `PendingVerified` rests on both: FW_FINISH compares the hash over the image, and the
  spare page it did not read is still blank.
- `CompleteMeansPending` relates the RAM state to the trailer FW_REBOOT relies on.
- `AckedInv` strengthens `AckedStored`: what is acknowledged lies below
  `next_offset`, where nothing is programmed again.

`FlashHasOneUser` follows from `PhaseInv`; `TrialEnds`, an action property, from
`RollbackIntact`, which makes the boot loader find the earlier image in its slot.

`XcanUsb_orderly_proofs` adds, for hosts that have no transfer pending at
SET_CONFIGURATION (`~LateCompletions`):

| theorem | property | along |
|---|---|---|
| `OrderlyHostLosesNothing` | `NothingDropped` | `TurnInv` |
| `OrderlyRebootIsComplete` | `RebootOnlyComplete` | `RebootInv` |

`TurnInv` says that on a served connection at most one of the OUT endpoint, a waiting
request, the task and a response has its turn. `RebootInv` needs it: between the
positive answer to FW_REBOOT and the reset no command runs that could begin another
update.

`FwUpdate_refines` proves `UpdateImplementsBoot` (`Implements`): the initial state maps to
that of `BootSpec`, and every command, failure, power cut and boot maps to a step of the
register or to none. It uses the invariants above: `PendingVerified` makes the scheduled
image the one the slot holds (`ScheduledIs`), `RollbackIntact` and `PhaseInv` the image
before the one a revert finds. A command that leaves a trailer nobody will take
withdraws what was scheduled.

`SwapOffset_proofs` proves `SwapTypeCorrect` (`TypeOK`) without a condition. The other
theorems have the hypothesis `Benign`:

- `MaxCuts <= 1`: at most one power cut from one start of an application to the next;
- no image that may run is two pages longer than a signed update.

Without either they are false: with two cuts `swap_halts` loses the device (and
`NothingLost` fails), with an update two pages shorter `swap_lastpage` loses the last page of the old
image. Both are properties of MCUboot's code, not of the model; `swap_safety` runs with constants
for which `Benign` holds.

| theorem | property |
|---|---|
| `LosesNothing` | `NothingLost` |
| `FindsHeaders` | `ResumeFindsHeaders` |
| `TakesUpdate` | `UpdateTaken` |
| `GoesBack` | `UnconfirmedGoesBack` |
| `SurvivesCut` | `CutsSurvived` |
| `SwapImplements` | `Implements` |

They follow from one inductive invariant, `SwapProof` (theorem `SwapSafe`), which says in
which *stage* the flash is. A stage is what a boot would find, so it must hold at every
moment at which power may fail:

- `Steady`, `Rejected`, `Scheduled`: before a swap; nothing to do, an update to wipe, one
  to take.
- `GoingOn`: a swap to the update, with `UpdateLayout(o, n, p)`: which page of which image is
  where after `p` status entries. Page `k` of the old image moves before page `k` of the
  new one, so of every page one whole copy exists; the page the next operation will erase
  is the one that is not needed.
- `Swapped`, `Recalled`, `GoingBack`, `Reverted`: the swap is complete; a revert has been
  asked for; it is under way, with `RevertLayout`, from the last page to the first; it is
  complete. A cut may turn `Swapped` into `Recalled` before the new image has run.
- `Bootstrap`: an erased primary slot beside a whole image.

Within a stage `pc` and `bs` say how far the present operation is. The lemmas about
`Lo`, `Hi` and `Halves` do the arithmetic of the status entries once; `UpdateHeaders` and
`RevertHeaders` derive from a layout which image's header a resumed boot reads, and `Benign`
bounds the harm where it reads the wrong one; `StoredHeader` and
the lemmas about torn trailers what the next boot reads. Refinement comes from the stages: which
image is first in the primary slot decides which `BootSpec` action a start is.

`XcanSystem_proofs` proves, for any number of runs, any files, any block size and any
geometry:

| theorem | property | along |
|---|---|---|
| `AnswersAreOwn` | `AnswerIsOwn` | `OwnInv` |
| `SystemTypeCorrect` | `TypeOK` | `SysInv` |
| `SystemIsUpdate` | `Spec => Fw!Spec` | `SysInv` |
| `ReportedUpdateBoots` | `PromiseKept` | `PromiseInv` |
| `UndisturbedRunSucceeds` | `UndisturbedSucceeds` | `SuccessInv` |

- `OwnInv` says that at most one message is under way and whose it may be: with a session
  only this run's, and before it possibly one of an earlier run, but after this run's first
  packet no HELLO of an earlier one. Ids alone would not do: every run counts them from 1.
- `SysInv` adds types, that a run sends one HELLO and so the device's session numbers do
  not pass the number of runs (`GrantInv`), and the invariant `IInv` of `FwUpdate`. Every
  step of the system is a step of `FwUpdate` or none (`FirmwareTakesStep`), so the theorems
  of `FwUpdate_proofs` hold under the tool as well (`SystemIsUpdate`).
- `PromiseInv`: in the session of a run, after its FW_BEGIN was answered, the announced
  hash is that of its file (`HashInv`), since any other FW_BEGIN of this session would be the
  run's own (`RequestInv`). So the answer to FW_REBOOT, read in that session, says that
  the run's file is scheduled; until the boot nothing can take it back, and the boot loader
  finds no other image in the slot.
- `SuccessInv`: what is stored ends where a block ends, whoever has sent it (`UpdateInv`,
  `BlocksInv`), so the tool can resume there; while nothing disturbs a run, one request, its
  packets or its response is under way (`ExchangeInv`) and the device is where the run
  believes it to be (`InStepInv`), with all stored blocks the file's. No response is refused
  then, no deadline passes (`NoTimeout`), and FW_FINISH finds the digest to match (`OwnVerified`).

`StreamDecoder_proofs` proves `DecoderStaysInBuffer` (`TypeOK`), for streams and payloads
of every length: while the decoder has not failed it waits for at least one byte, of the
header or of an accepted payload (`WaitsInv`), so it never takes more than fits. It also
proves `CutDoesNotMatter` (`CutIndependent`): `AgreesInv` says that the places at which the
decoder has delivered a message are boundaries of the stream, and that what it has
collected is the stream's beginning behind the last; a turn of the loop either collects
more of it or reaches the next boundary, wherever the pieces were cut (`FeedAgrees`,
`FinishAgrees`). The reference is therefore stated without recursion.

`MainTask_proofs` proves `MainTypeCorrect`, `OnlyStableReported` (`ReportedWhenStable`)
and `MainTimesKept` (`TimesKept`), for every tick modulus, period and delay allowed by
`TimeAssumption`. `SeenInv` relates the counter of samples to the samples themselves,
`ConfirmInv` says that the tick count has not wrapped before the confirmation, `BlinkInv`
that the heartbeat is due when a period has passed, modulo the wrap (lemmas `Wrap`,
`DueAfterPeriod`).

Only model-checked is liveness: `Rearmed`, `EraseEnds`, `BootEnds`, `RunEnds` and
`Terminates`, which the prover cannot derive from fairness. The findings' runs show
violations, of which there is nothing to prove.

## 9. Findings

- `usb_epoch` / `OldPacketRejected`: docs/USB_BRINGUP_PROTOCOL.md:23 says the epoch
  rejects callbacks of an old configuration. `out_done` compares no generation. A
  command in such a request does not run (`StaleNeverExecuted`): its session is over, or
  the request does not decode and the connection is given up. What needs no session is
  served, however. A whole HELLO is one packet with session 0: it passes `prepare_v2`
  (usb.c:144) and opens a session in the new configuration. The client's own HELLO is then
  dropped while the old one waits, or answered BAD_STATE; and the answer to the old one has
  the opcode and the id (1) of the first request of every client, all that `ClientSession`
  compares before it has a session, so it may pass for the answer to its own. A stale v1
  record is answered too.
- `fw_abort` / `AbortMeansNotPending`: docs/USB_CAN_PROTOCOL_V2.md:63 describes
  FW_ABORT as something before "pending". When `boot_set_pending` fails after writing
  the magic, the abort is accepted and the image is tested at the next reset.
- `swap_lastpage` / `UnconfirmedGoesBack`: swap_offset.c:146 compares an index that
  begins at 1 with one that begins at 0. After one power cut late in the swap to an
  update two pages shorter, the last page of the old image is not saved; the new image
  cannot be reverted. The wrong header itself is read at the last page of every update
  that is resumed there, whatever the sizes: `ResumeFindsHeaders` names this as its one
  exception and asks that the wrong size does no harm, which is so in `swap_safety` and not
  with the sizes of `swap_lastpage`. With the comparison corrected the invariant holds
  for both.
- `swap_halts` / `CutsSurvived`: a revert cut in its first page is resumed with
  `fixup_revert`, which marks the secondary slot good; a second cut before that mark is
  erased hides the revert, and the bootstrap copy that is tried instead reads the
  secondary slot from the wrong page and destroys the only image. The device halts in
  the boot loader.
- `system_hello` / `HelloOnNewConfiguration`: docs/USB_CAN_PROTOCOL_V2.md:17 and
  protocol_v2.rs:352 ask for a new configuration before HELLO; the tool does not make
  one. After a run that did not end with a reboot the next is refused.

The two in MCUboot need power cuts within one boot, the first one cut; the power-cut
test docs/BOOTLOADER_DECISION.md asks for would meet them only with images of different
length, or with two cuts.

## 10. Not modelled

- The info, status and v1 commands of the tool and protocol v1's contents: they read
  constants and change nothing.
- `ClientSession`'s CAN events and the CAN opcodes: no device in this repository
  serves them (`dispatch_v2` answers UNSUPPORTED); the archived Zephyr firmware that
  did is not built, and `usb_can.c`, which its CMakeLists
  names, is missing.
- Payload layouts (`xcan_v2_valid`, `Message::validate`): pure tables on both sides.
- Descriptors and control requests (constant data), start-up code, pin and clock set-up,
  cryptography, build and test scripts.
- FreeRTOS, CherryUSB, HAL, CMSIS and TinyCrypt beyond the behaviour used here. They
  are by far the largest part of the repository's lines (the HAL and CMSIS headers alone
  are two thirds), vendored unchanged, and are modelled by what the program uses of them;
  the share of all lines that the modules cover stays small for that reason. Of the
  program's own files that change state, `usb.c`, `fw_update.c`, `app.c`,
  `flash_map_backend.c` and the update path of the host tool are covered, and of
  MCUboot the swap.
