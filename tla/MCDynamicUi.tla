----------------------------- MODULE MCDynamicUi -----------------------------
(***************************************************************************)
(* DynamicUi on small instances: two numbers of desktops and two choices   *)
(* of shortcuts differ, and four events are enough for the menu to be      *)
(* opened, for two changes that meet in one rebuild, and for one that      *)
(* arrives while it runs.                                                  *)
(***************************************************************************)
EXTENDS DynamicUi
=============================================================================
