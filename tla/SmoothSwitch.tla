---------------------------- MODULE SmoothSwitch ----------------------------
(***************************************************************************)
(* Switching desktops from the context menu (tray.rs) with an animation    *)
(* (invisible_window.rs): an invisible window is created, moved to the     *)
(* desktop and shown, so that Windows goes there to focus it, and closed a *)
(* little later.  Another such window takes the focus back from a menu     *)
(* that was closed.                                                        *)
(*                                                                         *)
(* Moving the window can call other window procedures (the comment on      *)
(* switch_desktop_to): notices that timers have sent are handled then.     *)
(***************************************************************************)
EXTENDS Naturals, Sequences, SequencesExt

VARIABLES
    menu,           \* the context menu
    reshow_tray_menu, \* a wish to show it again, and whether it is recent
    window,         \* the invisible window: a number, or 0 for none (`active`)
    close_timer,    \* the window for which it is armed, or 0
    refocus_timer,  \* whether it is armed
    reshow_tray_menu_delay, \* whether it is armed
    notices,        \* the timers' notices
    switching,      \* where switch_desktop_to is
    focus,          \* what has the focus
    current,        \* the current desktop
    switches,       \* bound: how often desktops are switched from here on
    shown,          \* bound: how often a menu is asked for from here on
    on_its_way,     \* history: the window was created with a close notice on its way
    cut_short,      \* history: a window was closed by another window's timer
    skipped         \* history: the focus of the menu was not taken back, as there was a
                    \*     window, and nothing has taken it since

timers == <<close_timer, refocus_timer, reshow_tray_menu_delay>>
window_vars == <<window, on_its_way>>

switch_vars == <<menu, reshow_tray_menu, window, close_timer, refocus_timer,
                 reshow_tray_menu_delay, notices, switching, focus, current,
                 switches, shown, on_its_way, cut_short, skipped>>

Idle == [pc |-> "idle", target |-> 0]
Running == switching.pc # "panicked"
-----------------------------------------------------------------------------
(***************************************************************************)
(* The window.                                                             *)
(***************************************************************************)

(* Mutant: the timer of the window that is closed is left armed. *)
LeaveClose == UNCHANGED close_timer

CancelClose == close_timer' = IF window = 0 THEN close_timer ELSE 0

(* Windows gives the focus of a window that is closed to the one before. *)
LoseFocus == focus' = IF focus = "window" THEN "last" ELSE focus

(* close_window *)
CloseWindow ==
    /\ window' = 0
    /\ on_its_way' = FALSE
    /\ CancelClose
    /\ LoseFocus

CloseNotices == {i \in DOMAIN notices : notices[i].timer = "close"}

(* create_invisible_window *)
CreateInvisibleWindow ==
    /\ window' = switches
    /\ on_its_way' = (CloseNotices # {})
    /\ CancelClose
    /\ LoseFocus
-----------------------------------------------------------------------------
(***************************************************************************)
(* Timers: one that was not cancelled sends a notice, which nothing takes  *)
(* back.                                                                   *)
(***************************************************************************)
Send(timer, for) == notices' = Append(notices, [timer |-> timer, for |-> for])

FireClose ==
    /\ close_timer # 0
    /\ close_timer' = 0
    /\ Send("close", close_timer)
    /\ UNCHANGED <<menu, reshow_tray_menu, window_vars, refocus_timer, reshow_tray_menu_delay,
                   switching, focus, current, switches, shown, cut_short, skipped>>

FireRefocus ==
    /\ refocus_timer
    /\ refocus_timer' = FALSE
    /\ Send("refocus", 0)
    /\ UNCHANGED <<menu, reshow_tray_menu, window_vars, close_timer, reshow_tray_menu_delay,
                   switching, focus, current, switches, shown, cut_short, skipped>>

FireReshow ==
    /\ reshow_tray_menu_delay
    /\ reshow_tray_menu_delay' = FALSE
    /\ Send("reshow", 0)
    /\ UNCHANGED <<menu, reshow_tray_menu, window_vars, close_timer, refocus_timer,
                   switching, focus, current, switches, shown, cut_short, skipped>>

(* Notices are handled between other events and while a window is moved;   *)
(* a menu is shown only between them.                                      *)
Received(timer) ==
    /\ switching.pc \in IF timer = "reshow" THEN {"idle"} ELSE {"idle", "moving", "retrying"}
    /\ notices # <<>>
    /\ Head(notices).timer = timer
    /\ notices' = Tail(notices)

OnCloseTick ==
    /\ Received("close")
    /\ CloseWindow
    /\ cut_short' = (cut_short \/ (window # 0 /\ window # Head(notices).for /\ ~on_its_way))
    /\ UNCHANGED <<menu, reshow_tray_menu, refocus_timer, reshow_tray_menu_delay, switching,
                   current, switches, shown, skipped>>

(* on_refocus_tick: a window is created, takes the focus and is closed.    *)
(* One that is open will give the focus back when it is closed, unless the *)
(* menu has it: the window was not shown yet, or lost it to the menu.      *)
OnRefocusTick ==
    /\ Received("refocus")
    /\ focus' = IF window = 0 THEN "last" ELSE focus
    /\ skipped' = (window # 0 /\ focus = "menu")
    /\ UNCHANGED <<menu, reshow_tray_menu, window, timers, switching, current, switches, shown,
                   on_its_way, cut_short>>

(* show_menu *)
ShowMenu ==
    /\ menu' = "open"
    /\ focus' = "menu"
    /\ skipped' = FALSE
    /\ refocus_timer' = FALSE

(* notify_reshow_tray_menu_delayed, while a menu is wanted. *)
Reshow ==
    /\ Received("reshow")
    /\ reshow_tray_menu # "none"
    /\ reshow_tray_menu' = "none"
    /\ ShowMenu
    /\ UNCHANGED <<window_vars, close_timer, reshow_tray_menu_delay, switching, current,
                   switches, shown, cut_short>>

IgnoreReshow ==
    /\ Received("reshow")
    /\ reshow_tray_menu = "none"
    /\ UNCHANGED <<menu, reshow_tray_menu, window_vars, timers, switching, focus, current,
                   switches, shown, cut_short, skipped>>
-----------------------------------------------------------------------------
(***************************************************************************)
(* The menu.                                                               *)
(***************************************************************************)

(* A click on the icon or a hotkey: reshow_menu, when it is not open. *)
OpenContextMenu ==
    /\ switching.pc = "idle"
    /\ menu = "closed"
    /\ shown > 0
    /\ shown' = shown - 1
    /\ ShowMenu
    /\ UNCHANGED <<reshow_tray_menu, window_vars, close_timer, reshow_tray_menu_delay, notices,
                   switching, current, switches, cut_short>>

(* reshow_menu, when it is open: the menu closes, to be opened elsewhere. *)
ReopenContextMenu ==
    /\ switching.pc = "idle"
    /\ menu = "open"
    /\ shown > 0
    /\ shown' = shown - 1
    /\ menu' = "closing"
    /\ reshow_tray_menu' = "recent"
    /\ UNCHANGED <<window_vars, timers, notices, switching, focus, current, switches, cut_short, skipped>>

(* Five seconds pass. *)
Age ==
    /\ reshow_tray_menu = "recent"
    /\ reshow_tray_menu' = "old"
    /\ UNCHANGED <<menu, window_vars, timers, notices, switching, focus, current, switches,
                   shown, cut_short, skipped>>

Escape ==
    /\ switching.pc = "idle"
    /\ menu = "open"
    /\ menu' = "closing"
    /\ UNCHANGED <<reshow_tray_menu, window_vars, timers, notices, switching, focus, current,
                   switches, shown, cut_short, skipped>>

(* notify_tray_menu_closed *)
MenuClosed ==
    /\ switching.pc = "idle"
    /\ menu = "closing"
    /\ menu' = "closed"
    /\ IF reshow_tray_menu = "recent"
       THEN /\ reshow_tray_menu_delay' = TRUE
            /\ UNCHANGED refocus_timer
       ELSE /\ refocus_timer' = TRUE
            /\ UNCHANGED reshow_tray_menu_delay
    /\ UNCHANGED <<reshow_tray_menu, window_vars, close_timer, notices, switching, focus,
                   current, switches, shown, cut_short, skipped>>
-----------------------------------------------------------------------------
(***************************************************************************)
(* switch_desktop: by the library, which animates it if it can and wanted, *)
(* or by moving a window.                                                  *)
(***************************************************************************)
CanSwitch ==
    /\ switching.pc = "idle"
    /\ switches > 0
    /\ switches' = switches - 1

SwitchByLibrary(desktop) ==
    /\ CanSwitch
    /\ refocus_timer' \in {refocus_timer, TRUE}
    /\ current' \in {current, desktop}
    /\ UNCHANGED <<reshow_tray_menu, window_vars, close_timer, reshow_tray_menu_delay, notices,
                   switching, focus, shown, cut_short, skipped>>

(* Mutant: the focus is not taken back, before it is known that the switch *)
(* will take it.                                                           *)
CancelFirst(desktop) ==
    /\ CanSwitch
    /\ CreateInvisibleWindow
    /\ refocus_timer' = FALSE
    /\ switching' = [pc |-> "moving", target |-> desktop]
    /\ UNCHANGED <<reshow_tray_menu, reshow_tray_menu_delay, notices, current, shown, cut_short,
                   skipped>>

(* switch_desktop_to *)
SwitchByWindow(desktop) ==
    /\ CanSwitch
    /\ CreateInvisibleWindow
    /\ switching' = [pc |-> "moving", target |-> desktop]
    /\ UNCHANGED <<reshow_tray_menu, refocus_timer, reshow_tray_menu_delay, notices, current,
                   shown, cut_short, skipped>>

SwitchDesktop(desktop) == SwitchByLibrary(desktop) \/ SwitchByWindow(desktop)

Retry ==
    /\ switching.pc = "moving"
    /\ switching' = [switching EXCEPT !.pc = "retrying"]
    /\ UNCHANGED <<menu, reshow_tray_menu, window_vars, timers, notices, focus, current,
                   switches, shown, cut_short, skipped>>

MoveFails ==
    /\ switching.pc = "retrying"
    /\ CloseWindow
    /\ switching' = Idle
    /\ UNCHANGED <<menu, reshow_tray_menu, refocus_timer, reshow_tray_menu_delay, notices,
                   current, switches, shown, cut_short, skipped>>

(* The window is shown, which takes the focus and goes to its desktop. *)
MoveSucceeds ==
    /\ switching.pc \in {"moving", "retrying"}
    /\ window # 0
    /\ refocus_timer' = FALSE
    /\ focus' = "window"
    /\ skipped' = FALSE
    /\ current' = switching.target
    /\ close_timer' = window
    /\ switching' = Idle
    /\ UNCHANGED <<menu, reshow_tray_menu, window_vars, reshow_tray_menu_delay, notices,
                   switches, shown, cut_short>>

(* The window was moved, and closed before it can be shown. *)
ShowClosedWindow ==
    /\ switching.pc \in {"moving", "retrying"}
    /\ window = 0
    /\ switching' = [switching EXCEPT !.pc = "panicked"]
    /\ UNCHANGED <<menu, reshow_tray_menu, window_vars, timers, notices, focus, current,
                   switches, shown, cut_short, skipped>>
-----------------------------------------------------------------------------
InitSwitch ==
    /\ menu = "closed"
    /\ reshow_tray_menu = "none"
    /\ window = 0
    /\ close_timer = 0 /\ refocus_timer = FALSE /\ reshow_tray_menu_delay = FALSE
    /\ notices = <<>>
    /\ switching = Idle
    /\ focus = "last"
    /\ current = 0
    /\ on_its_way = FALSE
    /\ cut_short = FALSE /\ skipped = FALSE

Timeouts == FireClose \/ FireRefocus \/ FireReshow
OnNotice == OnCloseTick \/ OnRefocusTick \/ Reshow \/ IgnoreReshow
FinishSwitch == Retry \/ MoveFails \/ MoveSucceeds \/ ShowClosedWindow
=============================================================================
