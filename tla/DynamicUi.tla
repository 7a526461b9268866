------------------------------ MODULE DynamicUi ------------------------------
(***************************************************************************)
(* DynamicUi (dynamic_gui.rs) with the plugins whose controls share the    *)
(* tray's context menu (tray_plugins/menus.rs).  Plugins are kept in a     *)
(* list.  Building one appends its controls to the menu of another, so     *)
(* when one is rebuilt everything that comes later in the same menu, and   *)
(* everything inside it, has to be rebuilt too, in order.                  *)
(*                                                                         *)
(* All of this runs on the UI thread, but building a control, and a        *)
(* handler that opens the context menu, let Windows deliver further events *)
(* before they return.  While plugins are rebuilt such events are queued;  *)
(* while the menu is open they are handled at once, inside the outer       *)
(* handler, which keeps the plugin list borrowed.                          *)
(*                                                                         *)
(* Plugins that never ask to be rebuilt and are always children of the     *)
(* root behave like TopMenuItems, before the quick switch menu, or         *)
(* BottomMenuItems, after it; those without a parent are left out.         *)
(***************************************************************************)
EXTENDS Naturals, Sequences, FiniteSets, SequencesExt, FiniteSetsExt

CONSTANTS
    Counts,         \* numbers of virtual desktops
    Shortcuts,      \* values of the two settings for the quick menu's shortcuts
    MaxEvents       \* bound: how many events reach the UI thread

ASSUME CountAssumption ==
    /\ Counts \subseteq Nat \ {0}
    /\ MaxEvents \in Nat

VARIABLES
    quick_switch_menu,  \* the setting
    shortcuts,          \* quick_switch_menu_shortcuts and .._only_in_root, settings too
    desktop_count,      \* SystemTray.desktop_count
    need_rebuild,       \* TrayRoot.need_rebuild
    plugins,            \* PluginData of each, with the count and shortcuts it keeps
    menu,               \* the plugins whose controls each plugin's menu holds, in order
    event_queue,        \* DynamicUi.event_queue
    action,             \* the event being handled, until its handler has run
    pc,                 \* where preform_action_and_maybe_rebuild is
    resume,             \* where it goes when the context menu closes
    rebuild_ids,        \* plugins to rebuild
    rebuild_id,         \* the one of this pass over the list
    ix,                 \* the position of this pass
    affected_parents,   \* menus that were appended to in this pass
    arrived             \* events so far

settings == <<quick_switch_menu, shortcuts>>
data == <<settings, desktop_count, need_rebuild>>
built == <<plugins, menu>>
pass == <<rebuild_ids, rebuild_id, ix, affected_parents>>

vars == <<quick_switch_menu, shortcuts, desktop_count, need_rebuild, plugins, menu,
          event_queue, action, pc, resume, rebuild_ids, rebuild_id, ix,
          affected_parents, arrived>>
-----------------------------------------------------------------------------
Root == "TrayRoot"
Top == "TopMenuItems"
Submenu == "QuickSwitchTopMenu"
Quick == "QuickSwitchMenuUiAdapter"
Flat == "FlatSwitchMenu"
Bottom == "BottomMenuItems"

(* The order of run_gui. *)
List == <<Root, Top, Submenu, Quick, Flat, Bottom>>
Plugins == Range(List)
Position(p) == CHOOSE i \in DOMAIN List : List[i] = p

(* Some of the plugins, as a loop over the list finds them. *)
InListOrder(chosen) ==
    LET Place(p) == Cardinality({q \in chosen : Position(q) <= Position(p)})
    IN [k \in 1..Cardinality(chosen) |-> CHOOSE p \in chosen : Place(p) = k]

None == "none"
Destroyed == [built |-> FALSE, parent |-> None, count |-> 0, shortcuts |-> None]
PluginData == [built : BOOLEAN, parent : Plugins \cup {None}, count : Counts \cup {0},
               shortcuts : Shortcuts \cup {None}]

Modes == {"Disabled", "TopMenu", "SubMenu"}

ModeEvent(m) == [kind |-> "mode", mode |-> m]
CountEvent(c) == [kind |-> "count", count |-> c]
ShortcutsEvent(s) == [kind |-> "shortcuts", shortcuts |-> s]
Events == {ModeEvent(m) : m \in Modes} \cup {CountEvent(c) : c \in Counts}
              \cup {ShortcutsEvent(s) : s \in Shortcuts}
              \cup {[kind |-> "explorer"], [kind |-> "menu"]}
NoEvent == [kind |-> "none"]

Init ==
    /\ quick_switch_menu \in Modes
    /\ shortcuts \in Shortcuts
    /\ desktop_count \in Counts
    /\ need_rebuild = FALSE
    /\ plugins = [p \in Plugins |-> Destroyed]
    /\ menu = [p \in Plugins |-> <<>>]
    /\ event_queue = <<>>
    /\ action = NoEvent
    /\ pc = "initial"
    /\ resume = "loop"
    /\ rebuild_ids = <<>>
    /\ rebuild_id = None
    /\ ix = 1
    /\ affected_parents = {}
    /\ arrived = 0
-----------------------------------------------------------------------------
(***************************************************************************)
(* The plugins' hooks.                                                     *)
(***************************************************************************)

(* The number of desktops a quick switch or flat menu should be built for. *)
Wanted(p) ==
    IF \/ p = Quick /\ quick_switch_menu = "Disabled"
       \/ p = Flat /\ quick_switch_menu = "TopMenu"
    THEN 0 ELSE desktop_count

(* need_rebuild; a disabled quick menu too compares the shortcuts. *)
Invalid(p) ==
    \/ p = Root /\ need_rebuild
    \/ p = Submenu /\ plugins[p].built # (quick_switch_menu = "SubMenu")
    \/ p \in {Quick, Flat} /\ plugins[p].count # Wanted(p)
    \/ p = Quick /\ plugins[p].shortcuts # shortcuts

(* before_partial_build *)
ShouldBuild(p) ==
    CASE p = Submenu -> quick_switch_menu = "SubMenu"
      [] p = Quick -> quick_switch_menu # "Disabled"
      [] p = Flat -> quick_switch_menu # "TopMenu"
      [] OTHER -> TRUE

Parent(p) ==
    CASE p = Root -> None
      [] p = Quick /\ plugins[Submenu].built -> Submenu
      [] OTHER -> Root

(* Mutant: a disabled quick menu does not look at the shortcuts.           *)
TakenShortcutsIfBuilt(p) == IF p = Quick /\ ShouldBuild(p) THEN shortcuts ELSE None

(* The quick menu takes the shortcuts before it asks whether it is built.  *)
TakenShortcuts(p) == IF p = Quick THEN shortcuts ELSE None

BuiltData(p) ==
    [built |-> TRUE, parent |-> Parent(p),
     count |-> IF p \in {Quick, Flat} THEN desktop_count ELSE 0,
     shortcuts |-> TakenShortcuts(p)]

(* What is left of a plugin that is not to be built. *)
NotBuilt(p) == [Destroyed EXCEPT !.shortcuts = TakenShortcuts(p)]

(* before_rebuild: the plugin's controls go, and the menus it owns. *)
WithoutControls(p) ==
    [q \in Plugins |-> IF q = p THEN <<>>
                       ELSE IF q = plugins[p].parent THEN RemoveFirst(menu[q], p)
                       ELSE menu[q]]

WithControls(p, m) ==
    [q \in Plugins |-> IF q = Parent(p) THEN Append(m[q], p) ELSE m[q]]

(* All hooks of one build; need_rebuild is a field of the root. *)
Build(p) ==
    LET cleared == IF plugins[p].built THEN WithoutControls(p) ELSE menu
    IN  /\ need_rebuild' = (need_rebuild /\ p # Root)
        /\ plugins' = [plugins EXCEPT ![p] = IF ShouldBuild(p) THEN BuiltData(p) ELSE NotBuilt(p)]
        /\ menu' = IF ShouldBuild(p) THEN WithControls(p, cleared) ELSE cleared
        /\ UNCHANGED <<settings, desktop_count>>
-----------------------------------------------------------------------------
(***************************************************************************)
(* Events.                                                                 *)
(***************************************************************************)
Handle(e) ==
    /\ quick_switch_menu' = IF e.kind = "mode" THEN e.mode ELSE quick_switch_menu
    /\ shortcuts' = IF e.kind = "shortcuts" THEN e.shortcuts ELSE shortcuts
    /\ desktop_count' = IF e.kind = "count" THEN e.count ELSE desktop_count
    /\ need_rebuild' = (need_rebuild \/ e.kind = "explorer")
    /\ UNCHANGED <<built, pass>>

(* preform_action when nothing is being done. *)
Arrive(e) ==
    /\ pc = "idle" /\ arrived < MaxEvents
    /\ arrived' = arrived + 1
    /\ action' = e
    /\ pc' = "loop"
    /\ UNCHANGED <<data, built, pass, event_queue, resume>>

(* preform_action while controls are built: the event is queued. *)
Delay(e) ==
    /\ pc = "hooks" /\ arrived < MaxEvents
    /\ arrived' = arrived + 1
    /\ event_queue' = Append(event_queue, e)
    /\ UNCHANGED <<data, built, pass, action, pc, resume>>

(* preform_action while the context menu is open: queued events and the    *)
(* new one are handled, but the list is borrowed by the handler that       *)
(* opened the menu, so a rebuild is left to the outer call.                *)
NestedQueued ==
    /\ pc = "modal" /\ event_queue # <<>>
    /\ Handle(Head(event_queue))
    /\ event_queue' = Tail(event_queue)
    /\ UNCHANGED <<action, pc, resume, arrived>>

NestedArrive(e) ==
    /\ pc = "modal" /\ event_queue = <<>> /\ arrived < MaxEvents
    /\ arrived' = arrived + 1
    /\ Handle(e)
    /\ UNCHANGED <<event_queue, action, pc, resume>>

(* Mutant: what came inside the menu was dealt with there. *)
CloseMenuDone ==
    /\ pc = "modal"
    /\ pc' = IF resume = "check" THEN "idle" ELSE resume
    /\ UNCHANGED <<data, built, pass, event_queue, action, resume, arrived>>

(* TrackPopupMenu returns. *)
CloseMenu ==
    /\ pc = "modal"
    /\ pc' = resume
    /\ UNCHANGED <<data, built, pass, event_queue, action, resume, arrived>>

(* The loop: queued events first, each without looking for invalid plugins *)
Run(e, next) ==
    /\ Handle(e)
    /\ pc' = IF e.kind = "menu" THEN "modal" ELSE next
    /\ resume' = next
    /\ UNCHANGED arrived

RunQueued ==
    /\ pc = "loop" /\ event_queue # <<>>
    /\ Run(Head(event_queue), "loop")
    /\ event_queue' = Tail(event_queue)
    /\ UNCHANGED action

RunAction ==
    /\ pc = "loop" /\ event_queue = <<>>
    /\ IF action = NoEvent THEN pc' = "check" /\ UNCHANGED <<data, built, pass, resume, arrived>>
                           ELSE Run(action, "check")
    /\ action' = NoEvent
    /\ UNCHANGED event_queue
-----------------------------------------------------------------------------
(***************************************************************************)
(* Rebuilding.                                                             *)
(***************************************************************************)
RebuildOnly == UNCHANGED <<action, resume, arrived, event_queue>>

(* initial_build; no handler is bound before it ends. *)
InitialBuild ==
    /\ pc = "initial"
    /\ Build(List[ix])
    /\ IF ix = Len(List) THEN pc' = "idle" /\ ix' = 1 ELSE ix' = ix + 1 /\ UNCHANGED pc
    /\ RebuildOnly
    /\ UNCHANGED <<rebuild_ids, rebuild_id, affected_parents>>

(* Collect the invalid plugins in the order of the list. *)
Check ==
    /\ pc = "check"
    /\ rebuild_ids' = InListOrder({p \in Plugins : Invalid(p)})
    /\ pc' = IF rebuild_ids' = <<>> THEN "idle" ELSE "next"
    /\ RebuildOnly
    /\ UNCHANGED <<data, built, rebuild_id, ix, affected_parents>>

NextPass ==
    /\ pc = "next"
    /\ IF rebuild_ids = <<>> THEN pc' = "bind" /\ UNCHANGED <<rebuild_ids, rebuild_id, ix>>
       ELSE /\ rebuild_id' = Head(rebuild_ids)
            /\ rebuild_ids' = Tail(rebuild_ids)
            /\ ix' = 1
            /\ pc' = "visit"
    /\ affected_parents' = {}
    /\ RebuildOnly
    /\ UNCHANGED <<data, built>>

(* Mutant: siblings are left where they are. *)
ToRebuildAlone(p) == affected_parents = {} /\ p = rebuild_id

(* The plugin of this pass, or a later sibling in a menu it affected. *)
ToRebuild(p) == IF affected_parents = {} THEN p = rebuild_id ELSE plugins[p].parent \in affected_parents

(* Take the next plugin to rebuild out of the list. *)
TakeOut ==
    /\ pc = "visit"
    /\ LET found == {i \in DOMAIN List : i >= ix /\ ToRebuild(List[i])}
       IN  IF found = {} THEN pc' = "next" /\ UNCHANGED <<ix, rebuild_ids>>
           ELSE /\ ix' = Min(found)
                /\ rebuild_ids' = RemoveFirst(rebuild_ids, List[Min(found)])
                /\ pc' = "hooks"
    /\ RebuildOnly
    /\ UNCHANGED <<data, built, rebuild_id, affected_parents>>

(* Mutant: a child that is already waiting is queued again. *)
ChildrenAgain(p) == InListOrder({q \in Plugins : plugins'[q].parent = p})

Children(p) ==
    InListOrder({q \in Plugins : plugins'[q].parent = p /\ ~Contains(rebuild_ids, q)})

(* Build it, put it back, queue its children and go on in its menu. *)
PutBack ==
    /\ pc = "hooks"
    /\ Build(List[ix])
    /\ affected_parents' = affected_parents \cup ({plugins'[List[ix]].parent} \ {None})
    /\ rebuild_ids' = rebuild_ids \o Children(List[ix])
    /\ pc' = IF affected_parents' = {} THEN "next" ELSE "visit"
    /\ ix' = ix + 1
    /\ RebuildOnly
    /\ UNCHANGED rebuild_id

(* bind_event_handlers; then the loop goes on with what was queued. *)
Bind ==
    /\ pc = "bind"
    /\ pc' = "loop"
    /\ RebuildOnly
    /\ UNCHANGED <<data, built, pass>>

(* destroy_ui, when the message loop has ended. *)
Destroy ==
    /\ pc = "idle"
    /\ pc' = "destroyed"
    /\ plugins' = [p \in Plugins |-> [plugins[p] EXCEPT !.built = FALSE]]
    /\ menu' = [p \in Plugins |-> <<>>]
    /\ RebuildOnly
    /\ UNCHANGED <<data, pass>>
-----------------------------------------------------------------------------
Step ==
    \/ RunQueued \/ RunAction \/ CloseMenu
    \/ InitialBuild \/ Check \/ NextPass \/ TakeOut \/ PutBack \/ Bind

Next ==
    \/ \E e \in Events : Arrive(e) \/ Delay(e) \/ NestedArrive(e)
    \/ NestedQueued
    \/ Step
    \/ Destroy

Spec == Init /\ [][Next]_vars

(* The UI thread runs and the user closes the menu. *)
FairSpec == Spec /\ WF_vars(Step)
-----------------------------------------------------------------------------
(***************************************************************************)
(* Properties.                                                             *)
(***************************************************************************)

(* Every variable has its type. *)
TypeOK ==
    /\ quick_switch_menu \in Modes /\ shortcuts \in Shortcuts /\ desktop_count \in Counts
    /\ plugins \in [Plugins -> PluginData]
    /\ menu \in [Plugins -> Seq(Plugins)]
    /\ event_queue \in Seq(Events) /\ action \in Events \cup {NoEvent}
    /\ rebuild_ids \in Seq(Plugins) /\ IsInjective(rebuild_ids)
    /\ affected_parents \subseteq Plugins
    /\ need_rebuild \in BOOLEAN

(* Whatever was rebuilt, for whatever reasons at once, and wherever the    *)
(* quick switch menu moved: every menu holds the controls of its plugins,  *)
(* all of them and once, in the order of the plugin list.                  *)
MenuInOrder ==
    pc = "idle" =>
        \A p \in Plugins :
            /\ Range(menu[p]) = {q \in Plugins : plugins[q].built /\ plugins[q].parent = p}
            /\ \A i, j \in DOMAIN menu[p] :
                   i < j => Position(menu[p][i]) < Position(menu[p][j])

(* When the UI comes to rest it shows the present settings, the shortcuts  *)
(* of the quick menu among them, and the present number of desktops, also  *)
(* after events that were queued or came inside a menu.                    *)
MenuIsCurrent ==
    pc = "idle" =>
        /\ ~need_rebuild
        /\ \A p \in Plugins : plugins[p].built = ShouldBuild(p)
        /\ \A p \in {Quick, Flat} : plugins[p].built => plugins[p].count = desktop_count
        /\ plugins[Quick].built =>
               /\ plugins[Quick].parent = IF quick_switch_menu = "SubMenu" THEN Submenu ELSE Root
               /\ plugins[Quick].shortcuts = shortcuts

(* The loop ends: rebuilding does not ask for rebuilding for ever, and     *)
(* every queued event has been handled by then.                            *)
ComesToRest == pc # "idle" ~> pc \in {"idle", "destroyed"} /\ event_queue = <<>>
=============================================================================
