---------------------------- MODULE MCTimerManager ----------------------------
(* TimerManager on a small instance: two timers, started up to three times.   *)
EXTENDS TimerManager

=============================================================================
