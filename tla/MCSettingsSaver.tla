-------------------------- MODULE MCSettingsSaver --------------------------
(***************************************************************************)
(* SettingsSaver on small instances: three settings objects per run are    *)
(* enough for a save to be overtaken twice, and two runs for a crash to be *)
(* followed by a load of what it left.                                     *)
(***************************************************************************)
EXTENDS SettingsSaver
=============================================================================
