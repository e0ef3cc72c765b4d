--------------------------- MODULE MCTimerService ---------------------------
(* Instances of TimerService for TLC. *)
EXTENDS TimerService
=============================================================================
