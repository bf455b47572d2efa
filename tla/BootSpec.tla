------------------------------ MODULE BootSpec ------------------------------
(***************************************************************************)
(* What update and boot loader promise together, without flash: a register *)
(* of the image that runs.  It changes at a boot only, only to an image    *)
(* that was scheduled and that the boot loader accepts, and from an image  *)
(* nobody confirmed only back to the one before.  FwUpdate and SwapOffset  *)
(* are shown to implement it.                                              *)
(***************************************************************************)

CONSTANTS Images, SignedImages, Installed, None

VARIABLES
  mode,     \* "app": an application runs; "boot": it does not
  image,    \* the image that runs, or ran last
  trial,    \* it runs for the first time and is not confirmed
  backup,   \* the image that ran before the latest update
  pending   \* the image scheduled for the next boot, or None

vars == <<mode, image, trial, backup, pending>>

Init ==
  /\ mode \in {"app", "boot"}
  /\ image = Installed /\ trial = FALSE /\ backup = Installed
  /\ pending = None

(* The device may lose power in whatever the application does.             *)
InApp == mode = "app" /\ mode' \in {"app", "boot"}

Schedule ==
  /\ InApp /\ ~trial
  /\ pending' \in Images
  /\ UNCHANGED <<image, trial, backup>>

Withdraw ==
  /\ InApp
  /\ pending' = None
  /\ UNCHANGED <<image, trial, backup>>

Confirm ==
  /\ InApp
  /\ trial' = FALSE
  /\ UNCHANGED <<image, backup, pending>>

Reset == InApp /\ UNCHANGED <<image, trial, backup, pending>>

AppStarts == mode = "boot" /\ mode' = "app" /\ pending' = None

BootNew ==
  /\ AppStarts /\ pending \in SignedImages
  /\ image' = pending /\ trial' = TRUE /\ backup' = image

BootBack ==
  /\ AppStarts /\ pending = None /\ trial
  /\ image' = backup /\ trial' = FALSE
  /\ UNCHANGED backup

(* Nothing was scheduled, or an image the boot loader does not accept, or  *)
(* power was lost after the swap and before the new image ran: then the    *)
(* boot loader has gone back already.                                      *)
BootSame ==
  /\ AppStarts /\ ~trial
  /\ UNCHANGED <<image, trial, backup>>

Next ==
  \/ Schedule \/ Withdraw \/ Confirm \/ Reset
  \/ BootNew \/ BootBack \/ BootSame

Spec == Init /\ [][Next]_vars
=============================================================================
