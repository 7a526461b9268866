----------------------------- MODULE ConfigSync -----------------------------
(***************************************************************************)
(* How the configuration window (config_window.rs, a thread of its own)    *)
(* and the program (lib.rs of gui-winsafe, on the UI thread) keep their    *)
(* settings alike.                                                         *)
(*                                                                         *)
(* Both lock SharedStateMut.  The window writes the settings it wants to   *)
(* `new` and wakes the UI thread with a notice; the UI thread makes them   *)
(* the program's and is then, like every plugin, told of the change.  When *)
(* something else changes the settings the UI thread replaces `new` and    *)
(* wakes the window with a message.  A step is what a thread does between  *)
(* two unlocks of the shared state; the UI thread's own data (settings,    *)
(* debouncer) is invisible to the window.                                  *)
(*                                                                         *)
(* A settings object is a revision, the identity of its Arc, and a value   *)
(* of three parts: one the user edits in the context menu while the        *)
(* window's panel shows it too (icon), one the user edits in the panel     *)
(* (click), and one the window edits without the panel (filters, like the  *)
(* window's position).                                                     *)
(***************************************************************************)
EXTENDS Naturals, Sequences

CONSTANTS
    Choices,        \* what each part of the settings can be
    Initial,        \* what each part is when the program starts
    MaxChanges,     \* bound: changes the user makes, in the menu or the window
    MaxOpens,       \* bound: how often the tray icon toggles the window
    MaxRebuilds     \* bound: how often explorer.exe restarts

ASSUME ConfigAssumption ==
    /\ Initial \in Choices
    /\ MaxChanges \in Nat
    /\ MaxOpens \in Nat
    /\ MaxRebuilds \in Nat

VARIABLES
    ui,         \* where the UI thread is
    settings,   \* the program's settings, UiSettingsPlugin::get
    expected,   \* UiSettingsChangeDebouncer.new_versions
    notices,    \* update_settings_waker's notices in the UI thread's queue
    shared,     \* SharedStateMut, as long as there is a window thread
    thread,     \* where the window thread is
    messages,   \* messages posted to the window
    loaded,     \* WinsafeSettingsWindow.loaded_settings
    panel,      \* what ProgramSettingsPanel's controls show
    draft,      \* update_settings' new
    orphan,     \* a window the UI thread has replaced still runs
    last_rev,   \* the newest revision allocated
    changes, opens, rebuilds,
    chosen,     \* history: the icon last chosen in the menu, at first that of Init
    author,     \* history: who made the program's settings what they are
    silenced    \* history: a rebuild has lost a notice, and none came since

program == <<settings, expected>>
window == <<loaded, panel, draft>>
counts == <<changes, opens, rebuilds>>
history == <<chosen, author, silenced>>

vars == <<ui, settings, expected, notices, shared, thread, messages, loaded,
          panel, draft, orphan, last_rev, changes, opens, rebuilds,
          chosen, author, silenced>>
-----------------------------------------------------------------------------
Values == [icon : Choices, click : Choices, filters : Choices]
Objects == [rev : Nat, val : Values]
Panels == [icon : Choices, click : Choices]

WindowStates == {"Open", "Refocus", "Closed"}
SharedStates == [old : Objects, new : Objects, state : WindowStates, window : BOOLEAN]
NewShared(o) == [old |-> o, new |-> o, state |-> "Open", window |-> FALSE]

UiStates == {"idle", "notifying", "rebuilding", "exited"}

(* Only while the window exists can messages be posted to it; before that *)
(* its handle is null.                                                     *)
HasWindow == {"creating", "idle", "writing", "reloading"}
ThreadStates == {"none", "starting", "loaded", "built", "closing"} \cup HasWindow
Messages == {"state", "setting", "close"}

(* active_window.upgrade(): the thread owns the only strong reference. *)
Active == thread # "none"

PanelOf(v) == [icon |-> v.icon, click |-> v.click]

Init ==
    /\ ui = "idle"
    /\ settings = [rev |-> 0, val |-> [icon |-> Initial, click |-> Initial, filters |-> Initial]]
    /\ expected = <<>>
    /\ notices = 0
    /\ shared = NewShared(settings)
    /\ thread = "none"
    /\ messages = <<>>
    /\ loaded = settings
    /\ panel = PanelOf(settings.val)
    /\ draft = settings
    /\ orphan = FALSE
    /\ last_rev = 0
    /\ changes = 0 /\ opens = 0 /\ rebuilds = 0
    /\ chosen = settings.val.icon
    /\ author = "menu"
    /\ silenced = FALSE
-----------------------------------------------------------------------------
(***************************************************************************)
(* The UI thread.                                                          *)
(***************************************************************************)

(* notify_window_of_change: PostMessage, to no window before there is one. *)
NotifyWindow ==
    messages' = IF thread \in HasWindow THEN Append(messages, "state") ELSE messages

(* UiSettingsChangeDebouncer.  gc only drops objects nobody holds any more, *)
(* which can never become the settings, so it is left out.                  *)

(* Mutant: the request is not tracked. *)
TrackNothing(o) == UNCHANGED expected

TrackUnpublishedVersion(o) == expected' = Append(expected, o.rev)

Requests == {i \in DOMAIN expected : expected[i] = settings.rev}
WasRequested == Requests # {}

(* What was requested before the new version is forgotten with it. *)
NotifiedNewVersion ==
    expected' = IF WasRequested
                THEN LET i == CHOOSE i \in Requests : TRUE
                     IN  SubSeq(expected, i + 1, Len(expected))
                ELSE <<>>

(* UiSettingsPlugin::set, up to the notification: nothing for equal values. *)
Set(o, who) ==
    IF o.val = settings.val
    THEN UNCHANGED <<ui, settings, author>>
    ELSE /\ settings' = o
         /\ author' = who
         /\ ui' = "notifying"

(* A plugin of the context menu changes one part of the current settings. *)
ChangeInMenu(choice) ==
    /\ ui = "idle"
    /\ changes < MaxChanges
    /\ changes' = changes + 1
    /\ Set([rev |-> last_rev + 1, val |-> [settings.val EXCEPT !.icon = choice]], "menu")
    /\ last_rev' = last_rev + 1
    /\ chosen' = choice
    /\ UNCHANGED <<expected, notices, shared, thread, messages, window, orphan,
                   opens, rebuilds, silenced>>

(* on_notice_settings.  set() notifies at once, so nobody else can have     *)
(* changed the settings unseen and the second case is dead code             *)
(* (OldTracksSettings).                                                     *)
HandleNotice ==
    /\ ui = "idle"
    /\ notices > 0
    /\ notices' = notices - 1
    /\ IF ~Active \/ shared.old.rev = shared.new.rev
       THEN UNCHANGED <<ui, program, shared, messages, author>>
       ELSE IF shared.old.rev # settings.rev
       THEN /\ shared' = [shared EXCEPT !.old = settings, !.new = settings]
            /\ NotifyWindow
            /\ UNCHANGED <<ui, program, author>>
       ELSE /\ TrackUnpublishedVersion(shared.new)
            /\ Set(shared.new, "window")
            /\ UNCHANGED <<shared, messages>>
    /\ UNCHANGED <<thread, window, orphan, last_rev, counts, chosen, silenced>>

(* on_settings_changed: for a change that was not the window's own its wish *)
(* is forgotten and it is told.                                             *)
NotifySettingsChanged ==
    /\ ui = "notifying"
    /\ ui' = "idle"
    /\ NotifiedNewVersion
    /\ IF ~Active \/ shared.old.rev = settings.rev
       THEN UNCHANGED <<shared, messages>>
       ELSE IF WasRequested
       THEN /\ shared' = [shared EXCEPT !.old = settings]
            /\ UNCHANGED messages
       ELSE /\ shared' = [shared EXCEPT !.old = settings, !.new = settings]
            /\ IF shared.state # "Closed" THEN NotifyWindow ELSE UNCHANGED messages
    /\ UNCHANGED <<settings, notices, thread, window, orphan, last_rev, counts, history>>

(* configure_filters: from the tray icon (a toggle) or the menu (refocus). *)
ToggleWindow(refocus) ==
    /\ ui = "idle"
    /\ opens < MaxOpens
    /\ opens' = opens + 1
    /\ Active /\ shared.state # "Closed"
    /\ shared' = [shared EXCEPT !.state = IF refocus THEN "Refocus" ELSE "Closed"]
    /\ NotifyWindow
    /\ UNCHANGED <<ui, program, notices, thread, window, orphan, last_rev,
                   changes, rebuilds, history>>

(* The old thread, if it has not ended, no longer matters to the UI thread. *)
OpenWindow ==
    /\ ui = "idle"
    /\ opens < MaxOpens
    /\ opens' = opens + 1
    /\ Active => shared.state = "Closed"
    /\ shared' = NewShared(settings)
    /\ thread' = "starting"
    /\ messages' = <<>>
    /\ loaded' = settings
    /\ panel' = PanelOf(settings.val)
    /\ draft' = settings
    /\ orphan' = (orphan \/ Active)
    /\ silenced' = FALSE
    /\ UNCHANGED <<ui, program, notices, last_rev, changes, rebuilds, chosen, author>>

(* before_rebuild: notices posted to the old handle are no longer known.    *)
BeforeRebuild ==
    /\ ui = "idle"
    /\ rebuilds < MaxRebuilds
    /\ rebuilds' = rebuilds + 1
    /\ ui' = "rebuilding"
    /\ notices' = 0
    /\ silenced' = (silenced \/ notices > 0)
    /\ UNCHANGED <<program, shared, thread, messages, window, orphan, last_rev,
                   changes, opens, chosen, author>>

(* after_partial_build: the window gets the new wakers. *)
AfterPartialBuild ==
    /\ ui = "rebuilding"
    /\ ui' = "idle"
    /\ UNCHANGED <<program, notices, shared, thread, messages, window, orphan,
                   last_rev, counts, history>>

(* Drop for ConfigWindow, when the program exits. *)
DropConfigWindow ==
    /\ ui = "idle"
    /\ ui' = "exited"
    /\ notices' = 0
    /\ IF Active THEN /\ shared' = [shared EXCEPT !.state = "Closed"]
                      /\ NotifyWindow
                 ELSE UNCHANGED <<shared, messages>>
    /\ UNCHANGED <<program, thread, window, orphan, last_rev, counts, history>>
-----------------------------------------------------------------------------
(***************************************************************************)
(* The window thread.                                                      *)
(***************************************************************************)
Goto(here, there) == thread = here /\ thread' = there

Reload(o) ==
    /\ loaded' = o
    /\ panel' = PanelOf(o.val)

(* WinsafeSettingsWindow::new *)
ReadSettings ==
    /\ Goto("starting", "loaded")
    /\ loaded' = shared.new
    /\ UNCHANGED <<ui, program, notices, shared, messages, panel, draft, orphan,
                   last_rev, counts, history>>

ShareWindow ==
    /\ Goto("loaded", "built")
    /\ shared' = [shared EXCEPT !.window = TRUE, !.state = "Open"]
    /\ UNCHANGED <<ui, program, notices, messages, window, orphan, last_rev,
                   counts, history>>

(* run: run_main creates the window or fails. *)
CreateWindow ==
    /\ Goto("built", "creating") \/ Goto("built", "closing")
    /\ UNCHANGED <<ui, program, notices, shared, messages, window, orphan,
                   last_rev, counts, history>>

(* Mutant: the settings were read when the window was set up. *)
WmCreateLoaded ==
    /\ Goto("creating", "idle")
    /\ Reload(loaded)
    /\ UNCHANGED <<ui, program, notices, shared, messages, draft, orphan,
                   last_rev, counts, history>>

(* WM_CREATE *)
WmCreate ==
    /\ Goto("creating", "idle")
    /\ Reload(shared.new)
    /\ UNCHANGED <<ui, program, notices, shared, messages, draft, orphan,
                   last_rev, counts, history>>

Receive(msg) ==
    /\ thread = "idle"
    /\ messages # <<>>
    /\ Head(messages) = msg

(* Mutant: a window that is to be focused has nothing new to show. *)
StateChangedOrRefocus ==
    /\ Receive("state")
    /\ IF shared.state = "Closed"
       THEN /\ messages' = Append(Tail(messages), "close")
            /\ UNCHANGED <<shared, loaded, panel>>
       ELSE /\ messages' = Tail(messages)
            /\ shared' = [shared EXCEPT !.state = "Open"]
            /\ IF shared.new.rev # loaded.rev /\ shared.state = "Open"
               THEN Reload(shared.new)
               ELSE UNCHANGED <<loaded, panel>>
    /\ UNCHANGED <<ui, program, notices, thread, draft, orphan, last_rev,
                   counts, history>>

(* STATE_CHANGED: wnd.close() posts WM_CLOSE. *)
StateChanged ==
    /\ Receive("state")
    /\ IF shared.state = "Closed"
       THEN /\ messages' = Append(Tail(messages), "close")
            /\ UNCHANGED <<shared, loaded, panel>>
       ELSE /\ messages' = Tail(messages)
            /\ shared' = [shared EXCEPT !.state = "Open"]
            /\ IF shared.new.rev # loaded.rev
               THEN Reload(shared.new)
               ELSE UNCHANGED <<loaded, panel>>
    /\ UNCHANGED <<ui, program, notices, thread, draft, orphan, last_rev,
                   counts, history>>

Destroy ==
    /\ Goto("idle", "closing")
    /\ messages' = <<>>
    /\ UNCHANGED <<ui, program, notices, shared, window, orphan, last_rev,
                   counts, history>>

WmClose == Receive("close") /\ Destroy
UserCloses == Destroy

(* A control changes what it shows; the panel posts WM_SETTING_CHANGED. *)
PostChange(choice) ==
    /\ thread = "idle"
    /\ changes < MaxChanges
    /\ changes' = changes + 1
    /\ panel' = [panel EXCEPT !.click = choice]
    /\ messages' = Append(messages, "setting")
    /\ UNCHANGED <<ui, program, notices, shared, thread, loaded, draft, orphan,
                   last_rev, opens, rebuilds, history>>

(* update_settings: f is applied to a copy of `new` with the state unlocked. *)
BeginUpdate(val) ==
    /\ Goto("idle", "writing")
    /\ draft' = [rev |-> last_rev + 1, val |-> val]
    /\ last_rev' = last_rev + 1
    /\ UNCHANGED <<ui, program, notices, shared, loaded, panel, orphan, opens,
                   rebuilds, history>>

(* on_setting_change: everything the panel shows, not just what was clicked. *)
SettingChanged ==
    /\ Receive("setting")
    /\ messages' = Tail(messages)
    /\ BeginUpdate([icon |-> panel.icon, click |-> panel.click,
                    filters |-> shared.new.val.filters])
    /\ UNCHANGED changes

(* Editing, moving, importing rules, or moving the window. *)
EditFilters(choice) ==
    /\ changes < MaxChanges
    /\ changes' = changes + 1
    /\ BeginUpdate([shared.new.val EXCEPT !.filters = choice])
    /\ UNCHANGED messages

Publish ==
    /\ Goto("writing", "reloading")
    /\ shared' = [shared EXCEPT !.new = draft]
    /\ notices' = IF ui \in {"idle", "notifying"} THEN notices + 1 ELSE notices
    /\ silenced' = (ui \in {"rebuilding", "exited"})
    /\ UNCHANGED <<ui, program, messages, window, orphan, last_rev, counts, chosen, author>>

ReloadFromSettings ==
    /\ Goto("reloading", "idle")
    /\ Reload(draft)
    /\ UNCHANGED <<ui, program, notices, shared, messages, draft, orphan,
                   last_rev, counts, history>>

(* Drop for WinsafeSettingsWindow, and with it the last strong reference. *)
DropWindow ==
    /\ Goto("closing", "none")
    /\ shared' = [shared EXCEPT !.state = "Closed", !.window = FALSE]
    /\ UNCHANGED <<ui, program, notices, messages, window, orphan, last_rev,
                   counts, history>>

(* All that a replaced window can still do to the UI thread. *)
OrphanNotice ==
    /\ orphan
    /\ orphan' = FALSE
    /\ ui \in {"idle", "notifying"}
    /\ notices' = notices + 1
    /\ UNCHANGED <<ui, program, shared, thread, messages, window, last_rev,
                   counts, history>>
-----------------------------------------------------------------------------
UiSteps == HandleNotice \/ NotifySettingsChanged \/ AfterPartialBuild

WindowSteps ==
    \/ ReadSettings \/ ShareWindow \/ CreateWindow \/ WmCreate
    \/ StateChanged \/ SettingChanged \/ WmClose
    \/ Publish \/ ReloadFromSettings \/ DropWindow

Environment ==
    \/ \E choice \in Choices :
           ChangeInMenu(choice) \/ PostChange(choice) \/ EditFilters(choice)
    \/ \E refocus \in BOOLEAN : ToggleWindow(refocus)
    \/ OpenWindow \/ BeforeRebuild \/ DropConfigWindow
    \/ UserCloses \/ OrphanNotice

Next == UiSteps \/ WindowSteps \/ Environment

Spec == Init /\ [][Next]_vars

(* Both threads run their message loops; users and explorer.exe need do     *)
(* nothing.                                                                 *)
FairSpec == Spec /\ WF_vars(UiSteps) /\ WF_vars(WindowSteps)
-----------------------------------------------------------------------------
(* Types, and: the window is shared exactly from its building to its drop,  *)
(* and messages are queued only while it exists (lib.rs:141, 148-163).      *)
ProgramTypeOK ==
    /\ ui \in UiStates
    /\ settings \in Objects
    /\ expected \in Seq(Nat)
    /\ notices \in Nat
    /\ last_rev \in Nat

SharedTypeOK ==
    /\ thread \in ThreadStates
    /\ shared \in SharedStates
    /\ shared.window <=> thread \in HasWindow \cup {"built", "closing"}

WindowTypeOK == loaded \in Objects /\ panel \in Panels /\ draft \in Objects

MessageTypeOK ==
    /\ messages \in Seq(Messages)
    /\ messages # <<>> => thread \in HasWindow

CountTypeOK ==
    /\ changes \in 0..MaxChanges /\ opens \in 0..MaxOpens /\ rebuilds \in 0..MaxRebuilds
    /\ orphan \in BOOLEAN /\ silenced \in BOOLEAN
    /\ chosen \in Choices /\ author \in {"menu", "window"}

TypeOK == ProgramTypeOK /\ SharedTypeOK /\ WindowTypeOK /\ MessageTypeOK /\ CountTypeOK

(* `old` refers to the latest known state of the program's settings         *)
(* (lib.rs:135): whenever the UI thread takes an event it is the current    *)
(* object, whoever changed it, and whenever the window was opened.          *)
OldTracksSettings == Active /\ ui # "notifying" => shared.old = settings

(* Wishes that are not the program's settings yet. *)
Unpublished == Active /\ shared.new.rev # shared.old.rev /\ shared.new.val # settings.val

Announced == notices > 0 \/ (ui = "notifying" /\ author = "menu")

(* A wish of the window waits for nothing but an event the UI thread will   *)
(* get, or is about to be taken back (lib.rs:138 "Wake main thread if `new` changes should be published"), *)
(* unless a rebuild lost the notice: also when the wish replaces one that   *)
(* is just being published.                                                 *)
UnpublishedIsAnnounced == Unpublished /\ ui # "exited" /\ ~silenced => Announced

(* An open window that has handled its messages shows the settings in `new`: *)
(* a change from elsewhere during creation, an update or a reload is not    *)
(* missed (config_window.rs:381, 470, lib.rs:138).                          *)
WindowShowsDesired ==
    /\ thread = "idle"
    /\ shared.state # "Closed"
    /\ \A i \in DOMAIN messages : messages[i] # "state"
    => loaded = shared.new

(* Publishing a change of the window never takes back a newer change made   *)
(* in the window meanwhile: only a change from elsewhere does (lib.rs:207-209). *)
OnlyOthersRollBack ==
    [][/\ ui = "notifying" /\ ui' = "idle"
       /\ shared'.new # shared.new
       => author = "menu"]_vars

(* When nothing more happens an open window shows the program's settings,   *)
(* unless a rebuild lost a notice.                                          *)
Converges ==
    <>[](thread = "idle" /\ shared.state # "Closed" /\ ui # "exited" /\ ~silenced
         => loaded.val = settings.val /\ panel = PanelOf(settings.val))

(* What the user chose in the menu, and never in the window, is not taken   *)
(* back by a change the window makes (lib.rs:225 "Someone else changed      *)
(* settings while our changes were pending, so ignore those changes").      *)
MenuChoiceStays == settings.val.icon = chosen
=============================================================================
