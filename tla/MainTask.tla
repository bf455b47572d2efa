------------------------------ MODULE MainTask ------------------------------
(***************************************************************************)
(* The loop of the main task (main_thread in firmware/src/app.c): it       *)
(* debounces the termination switch, confirms the running image once, and  *)
(* blinks.  Time is the kernel's tick count, which wraps.  A turn comes    *)
(* Turn ticks after the one before, or later, when the usb task keeps the  *)
(* processor.                                                              *)
(***************************************************************************)
EXTENDS Integers, Sequences

CONSTANTS
  Ticks,         \* modulus of the tick count, 2^32 in the code
  Turn,          \* vTaskDelay between two turns
  Late,          \* bound: ticks by which a turn may come late
  ConfirmDelay,  \* XCAN_CONFIRM_DELAY_MS
  Period         \* of the heartbeat

ASSUME TimeAssumption ==
  /\ Ticks \in Nat /\ Turn \in Nat \ {0} /\ Late \in Nat
  /\ ConfirmDelay \in Nat \ {0} /\ ConfirmDelay + Turn + Late <= Ticks
  /\ Period \in Nat \ {0} /\ 2 * (Period + Turn + Late) < Ticks

Unknown == -1

VARIABLES
  input,       \* the switch
  now,         \* uptime_ms at the turn
  termination, candidate, samples,
  confirmed,   \* image_confirmed, update_ready
  heartbeat,   \* when the next blink is due
  \* history
  seen,        \* the last four samples
  confirms,    \* calls of boot_set_confirmed
  elapsed,     \* ticks since the start, counted up to ConfirmDelay
  sinceBlink   \* ticks since the LED was toggled

vars == <<input, now, termination, candidate, samples, confirmed, heartbeat,
          seen, confirms, elapsed, sinceBlink>>

Init ==
  /\ input \in {0, 1} /\ now = 0
  /\ termination = Unknown /\ candidate = Unknown /\ samples = 0
  /\ confirmed = FALSE /\ heartbeat = 0
  /\ seen = <<>> /\ confirms = 0 /\ elapsed = 0 /\ sinceBlink = Period

(* Mutation of Samples: a change does not begin a new count.               *)
SamplesGoOn == IF samples < 4 THEN samples + 1 ELSE samples

Samples ==
  IF input # candidate THEN 1 ELSE IF samples < 4 THEN samples + 1 ELSE samples

Debounce ==
  /\ candidate' = input
  /\ samples' = Samples
  /\ termination' = IF samples' = 4 THEN input ELSE termination
  /\ seen' = SubSeq(<<input>> \o seen, 1, IF Len(seen) < 4 THEN Len(seen) + 1 ELSE 4)

ConfirmDue(t) == ~confirmed /\ t >= ConfirmDelay

Confirm(t) ==
  /\ confirmed' = (confirmed \/ ConfirmDue(t))
  /\ confirms' = IF ConfirmDue(t) /\ confirms < 2 THEN confirms + 1 ELSE confirms

(* Mutation of Due: times are compared as they are.                        *)
DueUnsigned(t) == t >= heartbeat

(* (int32_t)(now - heartbeat) >= 0                                         *)
Due(t) == (t - heartbeat + Ticks) % Ticks < Ticks \div 2

Blink(t, passed) ==
  IF Due(t) THEN heartbeat' = (t + Period) % Ticks /\ sinceBlink' = 0
            ELSE UNCHANGED heartbeat /\ sinceBlink' = sinceBlink + passed

(* A turn, passed ticks after the one before.                              *)
Turns(passed) ==
  LET t == (now + passed) % Ticks
  IN /\ now' = t
     /\ elapsed' = IF elapsed + passed < ConfirmDelay THEN elapsed + passed ELSE ConfirmDelay
     /\ Debounce /\ Confirm(t) /\ Blink(t, passed)
     /\ UNCHANGED input

Switch ==
  /\ input' = 1 - input
  /\ UNCHANGED <<now, termination, candidate, samples, confirmed, heartbeat,
                 seen, confirms, elapsed, sinceBlink>>

Next == (\E passed \in Turn .. (Turn + Late) : Turns(passed)) \/ Switch

Spec == Init /\ [][Next]_vars

----------------------------------------------------------------------------
(* Properties.                                                             *)

(* Every variable keeps its type; the count of samples stops at four and   *)
(* the next blink stays a tick count (app.c:78, 98).                       *)
TypeOK ==
  /\ input \in {0, 1} /\ now \in 0 .. (Ticks - 1)
  /\ termination \in {Unknown, 0, 1} /\ candidate \in {Unknown, 0, 1}
  /\ samples \in 0 .. 4 /\ confirmed \in BOOLEAN
  /\ heartbeat \in 0 .. (Ticks - 1)
  /\ seen \in Seq({0, 1}) /\ Len(seen) <= 4
  /\ confirms \in 0 .. 2 /\ elapsed \in 0 .. ConfirmDelay
  /\ sinceBlink \in 0 .. Period

(* A position of the switch is reported only when the last four samples    *)
(* agree on it, and then it is (app.c:76).                                 *)
ReportedWhenStable ==
  [][/\ termination' # termination => seen' = <<termination', termination', termination', termination'>>
     /\ \A v \in {0, 1} : seen' = <<v, v, v, v>> => termination' = v]_vars

(* The LED is toggled by the first turn at which Period ticks have passed, *)
(* and the image is confirmed once, by the first turn after the delay,     *)
(* across every wrap of the tick count (app.c:88, 97).                     *)
TimesKept ==
  [][now' # now =>
       /\ (sinceBlink' = 0) = (sinceBlink + ((now' - now + Ticks) % Ticks) >= Period)
       /\ (confirms' # confirms) = (elapsed # ConfirmDelay /\ elapsed' = ConfirmDelay)]_vars
=============================================================================
