--------------------------- MODULE MCTimerThread ---------------------------
(***************************************************************************)
(* TimerThread on a small instance: a timer that is armed twice, as a      *)
(* timeout or an interval, and a task that awaits a delay, so that three   *)
(* requests compete for an instant, while from instant 2 on the rest of    *)
(* the program always has another request at hand.                         *)
(***************************************************************************)
EXTENDS TimerThread
=============================================================================
