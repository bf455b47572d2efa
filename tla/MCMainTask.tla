----------------------------- MODULE MCMainTask -----------------------------
(* A tick count that wraps every 32 ticks: turns of two to four ticks, a   *)
(* heartbeat every five, the confirmation after seven.                     *)
EXTENDS MainTask
=============================================================================
