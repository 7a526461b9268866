------------------------------ MODULE Hotkeys ------------------------------
(***************************************************************************)
(* The two global hotkeys (tray_plugins/hotkeys.rs): they are registered   *)
(* as the settings say, and a press goes from Windows to a listener thread *)
(* and from there, followed by a notice, to the UI thread.                 *)
(*                                                                         *)
(* External: a hotkey can be registered once, by this program or another   *)
(* one; the library registers a list one by one and stops at the first     *)
(* that it cannot register, which leaves those before it registered.       *)
(***************************************************************************)
EXTENDS Naturals, Sequences, SequencesExt

CONSTANTS
    Hotkeys,            \* combinations of keys
    NoText, Invalid,    \* settings that are empty, or do not parse
    MaxPresses,         \* bound: presses on their way to the listener thread
    MaxEvents           \* bound: presses on their way to the UI thread

ASSUME HotkeysAssumption ==
    /\ NoText \notin Hotkeys /\ Invalid \notin Hotkeys
    /\ MaxPresses \in Nat /\ MaxEvents \in Nat

VARIABLES
    settings,           \* the texts of the two hotkeys
    built,              \* whether the plugin's notice exists
    registered_hotkeys, action_lookup,  \* current_hotkeys
    held,               \* what Windows has registered for this program
    others,             \* what Windows has registered for other programs
    heard,              \* presses on their way to the listener thread
    notify,             \* whether that thread has sent a press and not its notice
    latest_notice_sender,   \* whether the plugin was ever built
    events,             \* presses on their way to the UI thread
    notice,             \* whether a notice is on its way
    missed,             \* history: a notice was lost with the plugin that it was for
    refused,            \* history: what others held when hotkeys were registered last
    left                \* history: what a failed register_all has left registered

cell == <<registered_hotkeys, action_lookup>>
windows == <<held, refused, left>>
pressed == <<heard, notify, latest_notice_sender, events, notice, missed>>
vars == <<settings, built, cell, windows, others, pressed>>
-----------------------------------------------------------------------------
Texts == Hotkeys \cup {NoText, Invalid}
HotkeySettings == {"quick_switch_hotkey", "open_menu_at_mouse_pos_hotkey"}

(* parse and add_hotkey *)
Parsed(text) == IF text \in Hotkeys THEN <<text>> ELSE <<>>

NewHotkeys(ui) == Parsed(ui.quick_switch_hotkey) \o Parsed(ui.open_menu_at_mouse_pos_hotkey)

(* Of two equal hotkeys, the second replaces the action of the first. *)
NewLookup(ui) ==
    [hotkey \in ToSet(NewHotkeys(ui)) |->
        IF hotkey = ui.open_menu_at_mouse_pos_hotkey
        THEN "OpenContextMenuAtMousePos" ELSE "OpenQuickSwitchMenu"]

Nothing == [hotkey \in {} |-> "OpenQuickSwitchMenu"]

(* register_all: what cannot be registered, and what is before that. *)
Refused(hotkeys, taken) ==
    {i \in DOMAIN hotkeys : hotkeys[i] \in taken \/ \E j \in 1..(i - 1) : hotkeys[j] = hotkeys[i]}

Registered(hotkeys, taken) ==
    {hotkeys[i] : i \in {i \in DOMAIN hotkeys : \A j \in 1..i : j \notin Refused(hotkeys, taken)}}

(* If it fails, the cell stays as mem::take has left it: empty. *)
RegisterAll(new, lookup, kept) ==
    /\ held' = kept \cup Registered(new, kept \cup others)
    /\ refused' = others
    /\ IF Refused(new, kept \cup others) = {}
       THEN registered_hotkeys' = new /\ action_lookup' = lookup /\ UNCHANGED left
       ELSE /\ registered_hotkeys' = <<>> /\ action_lookup' = Nothing
            /\ left' = left \cup Registered(new, kept \cup others)

(* Mutant: what was registered before is not unregistered. *)
RegisterOnly(ui) == RegisterAll(NewHotkeys(ui), NewLookup(ui), held)

(* unregister_all comes first. *)
UpdateHotkeys(ui) ==
    RegisterAll(NewHotkeys(ui), NewLookup(ui), held \ ToSet(registered_hotkeys))
-----------------------------------------------------------------------------
(***************************************************************************)
(* The UI thread.                                                          *)
(***************************************************************************)
(* Mutant: the listener thread is not told of the notice. *)
BuildOnly ==
    /\ ~built
    /\ built' = TRUE
    /\ UpdateHotkeys(settings)
    /\ UNCHANGED <<settings, others, pressed>>

AfterPartialBuild ==
    /\ ~built
    /\ built' = TRUE
    /\ latest_notice_sender' = TRUE
    /\ UpdateHotkeys(settings)
    /\ UNCHANGED <<settings, others, heard, notify, events, notice, missed>>

(* The notices for the control that goes away are not handled any more. *)
BeforeRebuild ==
    /\ built
    /\ built' = FALSE
    /\ notice' = FALSE
    /\ missed' = (missed \/ notice)
    /\ UNCHANGED <<settings, cell, windows, others, heard, notify, latest_notice_sender, events>>

(* Mutant: only the quick switch menu's hotkey is compared. *)
QuickOnly(new) ==
    IF built /\ new.quick_switch_hotkey # settings.quick_switch_hotkey
    THEN UpdateHotkeys(new)
    ELSE UNCHANGED <<cell, windows>>

(* A plugin that is not built is passed over by for_each_ui. *)
OnSettingsChanged(new) ==
    IF built /\ new # settings THEN UpdateHotkeys(new) ELSE UNCHANGED <<cell, windows>>

ChangeSettings ==
    \E new \in [HotkeySettings -> Texts] :
        /\ settings' = new
        /\ OnSettingsChanged(new)
        /\ UNCHANGED <<built, others, pressed>>

(* Every press that has arrived is looked up now, whatever was registered  *)
(* when the hotkey was pressed.  What the menus then do is in SmoothSwitch. *)
OnBackgroundNotice ==
    /\ built /\ notice
    /\ notice' = FALSE
    /\ events' = <<>>
    /\ missed' = FALSE
    /\ UNCHANGED <<settings, built, cell, windows, others, heard, notify, latest_notice_sender>>
-----------------------------------------------------------------------------
(***************************************************************************)
(* The listener thread.                                                    *)
(***************************************************************************)
SendEvent ==
    /\ ~notify
    /\ heard # <<>> /\ Len(events) < MaxEvents
    /\ heard' = Tail(heard)
    /\ events' = Append(events, Head(heard))
    /\ notify' = TRUE
    /\ UNCHANGED <<settings, built, cell, windows, others, latest_notice_sender, notice, missed>>

SendNotice ==
    /\ notify
    /\ notify' = FALSE
    /\ notice' = (notice \/ (latest_notice_sender /\ built))
    /\ missed' = (missed \/ ~built)
    /\ UNCHANGED <<settings, built, cell, windows, others, heard, latest_notice_sender, events>>
-----------------------------------------------------------------------------
(***************************************************************************)
(* Windows.                                                                *)
(***************************************************************************)
Press ==
    \E hotkey \in held :
        /\ Len(heard) < MaxPresses
        /\ heard' = Append(heard, hotkey)
        /\ UNCHANGED <<settings, built, cell, windows, others, notify, latest_notice_sender,
                       events, notice, missed>>

OthersRegister ==
    \E hotkey \in Hotkeys \ (held \cup others) :
        /\ others' = others \cup {hotkey}
        /\ UNCHANGED <<settings, built, cell, windows, pressed>>

OthersUnregister ==
    \E hotkey \in others :
        /\ others' = others \ {hotkey}
        /\ UNCHANGED <<settings, built, cell, windows, pressed>>
-----------------------------------------------------------------------------
Init ==
    /\ settings \in [HotkeySettings -> Texts]
    /\ built = FALSE
    /\ registered_hotkeys = <<>> /\ action_lookup = Nothing
    /\ held = {} /\ refused = {} /\ left = {}
    /\ others \in SUBSET Hotkeys
    /\ heard = <<>> /\ events = <<>>
    /\ notify = FALSE /\ notice = FALSE
    /\ latest_notice_sender = FALSE
    /\ missed = FALSE

UiThread == AfterPartialBuild \/ OnBackgroundNotice
ListenerThread == SendEvent \/ SendNotice
Environment == BeforeRebuild \/ ChangeSettings \/ Press \/ OthersRegister \/ OthersUnregister

Next == UiThread \/ ListenerThread \/ Environment

Spec == Init /\ [][Next]_vars

(* Both threads run. *)
FairSpec == Spec /\ WF_vars(UiThread) /\ WF_vars(ListenerThread)
-----------------------------------------------------------------------------
TypeOK ==
    /\ settings \in [HotkeySettings -> Texts]
    /\ registered_hotkeys \in Seq(Hotkeys)
    /\ DOMAIN action_lookup = ToSet(registered_hotkeys)
    /\ held \in SUBSET Hotkeys /\ others \in SUBSET Hotkeys
    /\ refused \in SUBSET Hotkeys /\ left \in SUBSET Hotkeys
    /\ heard \in Seq(Hotkeys) /\ Len(heard) <= MaxPresses
    /\ events \in Seq(Hotkeys) /\ Len(events) <= MaxEvents
    /\ built \in BOOLEAN /\ notify \in BOOLEAN /\ notice \in BOOLEAN
    /\ latest_notice_sender \in BOOLEAN /\ missed \in BOOLEAN

(* What Windows has registered for the program is what the program knows,  *)
(* whatever settings, rebuilds and other programs did before, except for   *)
(* hotkeys that a register_all which failed has registered before it did.  *)
(* Two programs never hold the same hotkey.                                *)
RegisteredIsKnown ==
    /\ held = ToSet(registered_hotkeys) \cup left
    /\ ToSet(registered_hotkeys) \cap left = {}
    /\ held \cap others = {}

(* While the plugin is built, the hotkeys do what the settings say now,    *)
(* even if these were changed during a rebuild; or none of them does       *)
(* anything, and then one could not be registered: another program had it, *)
(* both are equal, or it was left behind by an earlier failure.            *)
HotkeysFollowSettings ==
    built =>
        \/ action_lookup = NewLookup(settings) /\ registered_hotkeys = NewHotkeys(settings)
        \/ /\ action_lookup = Nothing
           /\ \/ ToSet(NewHotkeys(settings)) \cap (refused \cup left) # {}
              \/ settings.quick_switch_hotkey = settings.open_menu_at_mouse_pos_hotkey

(* A press that was sent to the UI thread is handled, unless its notice    *)
(* was lost in a rebuild: it then waits for the next press.                *)
PressIsHandled == events # <<>> ~> events = <<>> \/ missed

(* "Global keyboard shortcut for opening the quick switch menu.": it is    *)
(* in effect if its text is valid, differs from the other hotkey's and no  *)
(* other program had it when it was last registered.                       *)
QuickSwitchHotkeyWorks ==
    (/\ built
     /\ settings.quick_switch_hotkey \in Hotkeys \ refused
     /\ settings.quick_switch_hotkey # settings.open_menu_at_mouse_pos_hotkey)
    => settings.quick_switch_hotkey \in DOMAIN action_lookup
=============================================================================
