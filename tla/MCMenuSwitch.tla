---------------------------- MODULE MCMenuSwitch ----------------------------
(***************************************************************************)
(* MenuSwitch on small instances: numbers of desktops around the powers of *)
(* ten and where the last submenu is short; a shortcut for a desktop that  *)
(* may not exist; two switches, the second of which finds the window of    *)
(* the first.                                                              *)
(***************************************************************************)
EXTENDS MenuSwitch

MCDesktopCounts == {1, 9, 10, 12, 29, 99, 100, 113, 209}
MCMaxUses == [desktops \in MCDesktopCounts |-> IF desktops = 12 THEN 2 ELSE 1]
MCShortcuts == {[key |-> 102, index |-> 3]}
=============================================================================
