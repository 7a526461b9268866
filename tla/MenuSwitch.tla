----------------------------- MODULE MenuSwitch -----------------------------
(***************************************************************************)
(* Switching desktops by typing into the context menu: the quick switch    *)
(* menu (QuickSwitch), what its keys lead to, and the switch (SmoothSwitch)*)
(* with the timers that follow it.                                         *)
(*                                                                         *)
(* Choosing an item closes the menu, and the item's handler runs when it   *)
(* is closed.  A space is handled while the menu is open: the menu closes  *)
(* after the switch.  A menu that is shown begins at its root.             *)
(***************************************************************************)
EXTENDS QuickSwitch, SmoothSwitch

CONSTANT MaxUses    \* bound: menus and switches, for each number of desktops

ASSUME MenuSwitchAssumption == MaxUses \in [DesktopCounts -> Nat]

menu_switch_vars == <<menu_vars, switch_vars>>

InMenu == IsBuilt /\ menu = "open" /\ switching.pc = "idle"

(* A number was chosen that is not handled yet. *)
Pending == chosen # NoChoice

Build ==
    /\ BuildMenu
    /\ UNCHANGED switch_vars

Navigate ==
    /\ InMenu
    /\ (\E key \in Digits : Descend(key)) \/ Backspace
    /\ UNCHANGED switch_vars

(* An item of the menu is chosen. *)
SelectItem ==
    /\ InMenu
    /\ \E key \in Digits \cup {shortcut.key : shortcut \in Shortcuts} : ChooseItem(key)
    /\ menu' = "closing"
    /\ UNCHANGED <<reshow_tray_menu, window_vars, timers, notices, switching, focus, current,
                   switches, shown, cut_short, skipped>>

(* QuickSwitchMenuUiAdapter.process_event *)
ItemSelected ==
    /\ Pending /\ menu = "closed"
    /\ SwitchDesktop(chosen.index)
    /\ chosen' = NoChoice
    /\ UNCHANGED <<menu, built, here, typed>>

(* on_menu_key_press, for a space. *)
SpacePressed ==
    /\ InMenu
    /\ ChooseSoFar
    /\ SwitchDesktop(submenus[here].index)
    /\ menu' = "closing"

(* The menu is shown. *)
MenuShown ==
    /\ IsBuilt /\ ~Pending
    /\ OpenContextMenu \/ Reshow
    /\ ShowRoot
    /\ UNCHANGED chosen

(* The menu goes, with the choice that a space has made. *)
MenuGone ==
    /\ MenuClosed
    /\ chosen' = IF chosen.keys # <<>> /\ chosen.keys[Len(chosen.keys)] = Space THEN NoChoice ELSE chosen
    /\ UNCHANGED <<built, here, typed>>

Elsewhere ==
    /\ \/ Timeouts \/ OnCloseTick \/ OnRefocusTick \/ IgnoreReshow \/ FinishSwitch
       \/ ReopenContextMenu \/ Escape \/ Age
    /\ UNCHANGED menu_vars

InitMenuSwitch ==
    /\ InitMenu
    /\ InitSwitch
    /\ switches = MaxUses[desktop_count - 1] /\ shown = MaxUses[desktop_count - 1]

NextMenuSwitch ==
    /\ Running
    /\ \/ Build \/ Navigate \/ SelectItem \/ ItemSelected \/ SpacePressed
       \/ MenuShown \/ MenuGone \/ Elsewhere

MenuSwitchSpec == InitMenuSwitch /\ [][NextMenuSwitch]_menu_switch_vars

(* Timers fire, the program handles events and Windows closes the menu     *)
(* when it is told to; the user need not do anything.                      *)
FairMenuSwitch ==
    /\ MenuSwitchSpec
    /\ WF_menu_switch_vars(Running /\ Timeouts /\ UNCHANGED menu_vars)
    /\ WF_menu_switch_vars(Running /\ (OnCloseTick \/ OnRefocusTick \/ IgnoreReshow) /\ UNCHANGED menu_vars)
    /\ WF_menu_switch_vars(Running /\ IsBuilt /\ ~Pending /\ Reshow /\ ShowRoot /\ UNCHANGED chosen)
    /\ WF_menu_switch_vars(Running /\ FinishSwitch /\ UNCHANGED menu_vars)
    /\ WF_menu_switch_vars(Running /\ MenuGone)
-----------------------------------------------------------------------------
MenuSwitchTypeOK ==
    /\ \A item \in items : item.index \in Nat /\ item.menu \in 0..Len(submenus)
    /\ \A m \in DOMAIN submenus : submenus[m].index \in Nat /\ submenus[m].menu \in 0..m - 1
    /\ here \in 0..Len(submenus)
    /\ menu \in {"closed", "open", "closing"}
    /\ reshow_tray_menu \in {"none", "recent", "old"}
    /\ {window, close_timer} \subseteq 0..MaxUses[desktop_count - 1]
    /\ refocus_timer \in BOOLEAN /\ reshow_tray_menu_delay \in BOOLEAN
    /\ \A i \in DOMAIN notices : notices[i].timer \in {"close", "refocus", "reshow"}
    /\ switching.pc \in {"idle", "moving", "retrying", "panicked"}
    /\ focus \in {"last", "menu", "window"}

(* The window that carries a switch is closed by its own timer or by a     *)
(* later switch, but not by the timer of the window before it, which       *)
(* close_window cancels: only a notice that was already on its way when    *)
(* the window was created (FastTimerControl cannot take one back) closes   *)
(* it early.                                                               *)
WindowIsNotCutShort == ~cut_short

(* Once the menu is closed the focus returns to a window of the user's     *)
(* desktop, whether the switch succeeds, fails, animates or is overtaken   *)
(* by another (refocus_last_window, the order of cancel_refocus and of the *)
(* failure in switch_desktop_to, on_refocus_tick while a window is open).  *)
(* It stays with the closed menu where the timer that takes it back finds  *)
(* a window that does not have it (`skipped`): on_refocus_tick returns     *)
(* early then, and nothing asks again until a menu or a window is shown.   *)
(* Nor does it return where the switch panics, as its window was closed    *)
(* while it was moved.                                                     *)
FocusReturns ==
    menu = "closed" /\ focus # "last" ~>
        focus = "last" \/ menu # "closed" \/ skipped \/ ~Running

(* The window that is found gives the focus back when it is closed.  It    *)
(* does not if it was not shown yet and is not going to be, or if it was   *)
(* shown, and a menu was opened before its close timer.                    *)
WindowGivesFocusBack == ~skipped
=============================================================================
