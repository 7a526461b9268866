----------------------------- MODULE MCHotkeys -----------------------------
(***************************************************************************)
(* Hotkeys with two combinations of keys: one press at a time on its way   *)
(* to the listener thread, and two from there to the UI thread.            *)
(***************************************************************************)
EXTENDS Hotkeys
=============================================================================
