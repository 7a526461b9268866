---------------------------- MODULE MCConfigSync ----------------------------
(***************************************************************************)
(* ConfigSync on small instances: two choices differ; three changes are    *)
(* enough for one that is being published, one the window makes meanwhile  *)
(* and one from elsewhere; three uses of the tray icon open, close and     *)
(* open the window again before the first thread has ended.                *)
(***************************************************************************)
EXTENDS ConfigSync
=============================================================================
