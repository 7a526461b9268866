------------------------- MODULE MCDesktopTracking -------------------------
(***************************************************************************)
(* DesktopTracking on small instances: three desktops have a first, a      *)
(* middle and a last position.                                             *)
(***************************************************************************)
EXTENDS DesktopTracking
=============================================================================
