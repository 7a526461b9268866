--------------------------- MODULE DesktopTracking ---------------------------
(***************************************************************************)
(* SystemTray's cached view of the virtual desktops (tray.rs): how many    *)
(* there are, which one is current, and the index the tray icon shows.     *)
(*                                                                         *)
(* Windows owns the desktops and tells nobody in particular what it did:   *)
(* the events go through the winvd listener thread, a forwarder thread and *)
(* two channels (desktop_events.rs), or through posted messages and a poll *)
(* timer when VirtualDesktopAccessor.dll is loaded                         *)
(* (desktop_events_dynamic.rs), and are handled by the UI thread some time *)
(* later, when the desktops may already be different.  Handlers ask        *)
(* Windows again, which fails while explorer.exe is not there.             *)
(*                                                                         *)
(* A handler runs to its end on the UI thread: one action.  A position in  *)
(* "desktops" is a one-based index, the icon's number; the code's are      *)
(* zero-based.  Desktop names are left out.                                *)
(***************************************************************************)
EXTENDS Naturals, Sequences, SequencesExt

CONSTANTS
    Ids,            \* the desktops Windows ever has
    MaxChanges,     \* bound: what the user does to the desktops
    MaxOutages      \* bound: how often explorer.exe goes away

ASSUME DesktopAssumption ==
    /\ Ids # {}
    /\ MaxChanges \in Nat
    /\ MaxOutages \in Nat

VARIABLES
    desktops,       \* Windows' desktops in order
    current,        \* Windows' current desktop
    available,      \* does Windows answer calls about virtual desktops?
    events,         \* desktop events sent and not yet handled
    phase,          \* where the program is
    library,        \* is VirtualDesktopAccessor.dll loaded?
    listening,      \* do events reach the program?
    desktop_count,  \* SystemTray.desktop_count
    desktop_index,  \* SystemTray.desktop_index
    icon,           \* the number the tray icon shows
    prev_count,     \* prev_window_count of the poll
    recheck,        \* is recheck_virtual_desktop_init armed?
    need_rebuild,   \* TrayRoot.need_rebuild
    late,           \* was the program started more than two minutes ago?
    changes,        \* what the user has done to the desktops
    outages,        \* how often explorer.exe went away
    excused         \* history: why a cached value may be wrong, see Excuses

windows == <<desktops, current, available>>
cache == <<desktop_count, desktop_index, icon>>
program == <<phase, library, listening, prev_count, recheck, need_rebuild>>

vars == <<desktops, current, available, events, phase, library, listening,
          desktop_count, desktop_index, icon, prev_count, recheck, need_rebuild,
          late, changes, outages, excused>>
-----------------------------------------------------------------------------
Exists(d) == \E i \in DOMAIN desktops : desktops[i] = d
IndexIn(d, list) == CHOOSE i \in DOMAIN list : list[i] = d
Index(d) == IndexIn(d, desktops)
Count == Len(desktops)

(* Events carry a desktop; the library's carry the index it had then. *)
Created(d) == [kind |-> "created", desktop |-> d, index |-> 0]
Destroyed(d) == [kind |-> "destroyed", desktop |-> d, index |-> 0]
Changed(d, i) == [kind |-> "changed", desktop |-> d, index |-> i]

Pending(kinds) == \E i \in DOMAIN events : events[i].kind \in kinds

Orders == {<<d>> : d \in Ids} \cup {s \in Ids \X Ids : s[1] # s[2]}

Init ==
    /\ desktops \in Orders
    /\ \E i \in DOMAIN desktops : current = desktops[i]
    /\ available \in BOOLEAN
    /\ events = <<>>
    /\ phase = "starting"
    /\ library \in BOOLEAN
    /\ listening = FALSE
    /\ desktop_count = 1
    /\ desktop_index = 2
    /\ icon = 0
    /\ prev_count = 0
    /\ recheck = FALSE
    /\ need_rebuild = FALSE
    /\ late = FALSE
    /\ changes = 0
    /\ outages = 0
    /\ excused = {"count", "index"}

(* "count", "index": Windows did not tell of a change or did not answer;   *)
(* with "dropped", it told and the program's own rebuild threw the event   *)
(* away unread, and nothing asks again after a rebuild.  Each until the    *)
(* next event that is answered.  "shift": the current desktop got another  *)
(* position without being left, for which there is no event to handle.     *)
CountExcuses == {"count", "count dropped"}
IndexExcuses == {"index", "index dropped", "shift"}
Excuses == CountExcuses \cup IndexExcuses
-----------------------------------------------------------------------------
(***************************************************************************)
(* Windows and the user.                                                   *)
(***************************************************************************)

(* Of the events of a change, the library only tells of the switches.      *)
Told(list, switches) == IF library THEN switches ELSE list

(* What an event is about.                                                 *)
Subject(e) == IF e.kind = "changed" THEN "index" ELSE "count"
Subjects(list) == {Subject(list[i]) : i \in DOMAIN list}
Dropped(list) ==
    {IF subject = "count" THEN "count dropped" ELSE "index dropped" : subject \in Subjects(list)}

Shifted == current' = current /\ IndexIn(current, desktops') # Index(current)

Change(list, switches) ==
    /\ available /\ changes < MaxChanges
    /\ changes' = changes + 1
    /\ events' = IF listening THEN events \o Told(list, switches) ELSE events
    /\ excused' = excused
                  \cup (IF listening THEN {} ELSE Subjects(list))
                  \cup (IF ~Shifted THEN {} ELSE IF listening THEN {"shift"} ELSE {"index"})
    /\ UNCHANGED <<available, program, cache, late, outages>>

CreateDesktop(d) ==
    /\ ~Exists(d)
    /\ desktops' = Append(desktops, d)
    /\ current' = current
    /\ Change(<<Created(d)>>, <<>>)

SwitchTo(d) ==
    /\ Exists(d) /\ d # current
    /\ current' = d
    /\ desktops' = desktops
    /\ Change(<<Changed(d, Index(d))>>, <<Changed(d, Index(d))>>)

(* The current desktop is left for a neighbour when it is removed. *)
RemoveDesktop(d) ==
    /\ Exists(d) /\ Count > 1
    /\ desktops' = RemoveAt(desktops, Index(d))
    /\ IF d # current
       THEN current' = current /\ Change(<<Destroyed(d)>>, <<>>)
       ELSE \E fallback \in Range(desktops') :
                LET changed == Changed(fallback, IndexIn(fallback, desktops'))
                IN  /\ current' = fallback
                    /\ \/ Change(<<changed, Destroyed(d)>>, <<changed>>)
                       \/ Change(<<Destroyed(d), changed>>, <<changed>>)

(* A DesktopMoved event, which notify_desktop_event ignores. *)
MoveDesktop(d, i) ==
    /\ Exists(d) /\ i \in DOMAIN desktops /\ i # Index(d)
    /\ desktops' = InsertAt(RemoveAt(desktops, Index(d)), i, d)
    /\ current' = current
    /\ Change(<<>>, <<>>)

(* explorer.exe goes away, and comes back with a TaskbarCreated message. *)
ExplorerStops ==
    /\ available /\ outages < MaxOutages
    /\ available' = FALSE
    /\ outages' = outages + 1
    /\ UNCHANGED <<desktops, current, events, program, cache, late, changes, excused>>

ExplorerStarts ==
    /\ ~available
    /\ available' = TRUE
    /\ need_rebuild' = (phase = "running")
    /\ UNCHANGED <<desktops, current, events, phase, library, listening, prev_count,
                   recheck, cache, late, changes, outages, excused>>

TwoMinutesPass ==
    /\ ~late
    /\ late' = TRUE
    /\ UNCHANGED <<windows, events, program, cache, changes, outages, excused>>
-----------------------------------------------------------------------------
(***************************************************************************)
(* The program: starting and rebuilding.                                   *)
(***************************************************************************)

(* update_desktop_info: an index of 1 (the second desktop) when it fails. *)
CurrentIndex == IF available THEN Index(current) ELSE 2

(* SystemTray::new. *)
NewTray ==
    /\ phase = "starting"
    /\ phase' = "loaded"
    /\ desktop_count' = IF available THEN Count ELSE 1
    /\ desktop_index' = CurrentIndex
    /\ excused' = IF available THEN {} ELSE excused
    /\ UNCHANGED <<windows, events, library, listening, icon, prev_count, recheck,
                   need_rebuild, late, changes, outages>>

(* after_partial_build of TrayRoot and of the event plugin: the icon shows *)
(* the cached index, the recheck is armed for a count of one, and a new    *)
(* listener replaces the old one and what it had queued.  Listening may    *)
(* fail: then the old listener's notice or window is gone.                 *)
BuildTray ==
    /\ icon' = desktop_index
    /\ recheck' = (desktop_count = 1)
    /\ listening' \in IF available THEN {TRUE} ELSE BOOLEAN
    /\ prev_count' = 0
    /\ events' = <<>>
    /\ excused' = excused \cup Dropped(events)
    /\ need_rebuild' = FALSE
    /\ phase' = "running"
    /\ UNCHANGED <<windows, library, desktop_count, desktop_index, late, changes, outages>>

BuildUi == phase = "loaded" /\ BuildTray
Rebuild == phase = "running" /\ need_rebuild /\ BuildTray

(* notify_startup_rebuild: 30, 60 and 90 seconds after the start. *)
StartupRebuild ==
    /\ phase = "running" /\ ~late
    /\ need_rebuild' = TRUE
    /\ UNCHANGED <<windows, events, phase, library, listening, prev_count, recheck,
                   cache, late, changes, outages, excused>>

(* notify_check_desktop_count.  Its condition arms the timer again only    *)
(* when the program was started more than two minutes ago; otherwise       *)
(* update_desktop_info refreshes the index, not the count nor the icon.    *)
CheckDesktopCount ==
    /\ phase = "running" /\ recheck
    /\ IF desktop_count <= 1 /\ (~available \/ Count <= 1) /\ late
       THEN UNCHANGED <<recheck, desktop_index, excused>>
       ELSE /\ recheck' = FALSE
            /\ desktop_index' = IF desktop_count <= 1 THEN CurrentIndex ELSE desktop_index
            /\ excused' = IF desktop_count <= 1 /\ ~available THEN excused \cup {"index"} ELSE excused
    /\ UNCHANGED <<windows, events, phase, library, listening, prev_count, need_rebuild,
                   desktop_count, icon, late, changes, outages>>
-----------------------------------------------------------------------------
(***************************************************************************)
(* The program: desktop events.                                            *)
(***************************************************************************)

(* update_desktop_count: nothing but a log entry when Windows does not answer. *)
UpdateDesktopCount(subjects) ==
    IF available THEN desktop_count' = Count /\ excused' = excused \ (subjects \cup CountExcuses)
    ELSE UNCHANGED desktop_count /\ excused' = excused \cup {"count"}

HandlerOnly == UNCHANGED <<windows, phase, library, listening, recheck, need_rebuild,
                           late, changes, outages>>

NextEvent(kinds) ==
    /\ phase = "running"
    /\ events # <<>> /\ Head(events).kind \in kinds
    /\ events' = Tail(events)
    /\ UNCHANGED prev_count
    /\ HandlerOnly

(* Mutant: a removed desktop is not counted. *)
HandleCreatedOnly ==
    /\ NextEvent({"created", "destroyed"})
    /\ IF Head(events).kind = "created" THEN UpdateDesktopCount({})
       ELSE UNCHANGED <<desktop_count, excused>>
    /\ UNCHANGED <<desktop_index, icon>>

HandleCount ==
    /\ NextEvent({"created", "destroyed"})
    /\ UpdateDesktopCount({})
    /\ UNCHANGED <<desktop_index, icon>>

(* Desktop::get_index asks Windows, except for the library's indices. *)
Known(e) == library \/ (available /\ Exists(e.desktop))
NewIndex(e) == IF library THEN e.index ELSE Index(e.desktop)

(* The last event about a switch sets the index right if it is about the   *)
(* current desktop and its index is still true.                            *)
SetsRight(e) ==
    IF /\ e.desktop = current /\ NewIndex(e) = Index(current)
       /\ \A i \in 2..Len(events) : events[i].kind # "changed"
    THEN IndexExcuses ELSE {}

(* An index that cannot be asked for ends the handler.                     *)
HandleUnknown ==
    /\ NextEvent({"changed"})
    /\ ~Known(Head(events))
    /\ excused' = excused \cup {"index"}
    /\ UNCHANGED cache

(* Mutant: an index beyond the known desktops is not trusted. *)
HandleChangedChecked ==
    /\ NextEvent({"changed"})
    /\ Known(Head(events))
    /\ LET index == NewIndex(Head(events))
           told == SetsRight(Head(events))
       IN  IF index > desktop_count
           THEN UpdateDesktopCount(told) /\ UNCHANGED <<desktop_index, icon>>
           ELSE /\ desktop_index' = index /\ icon' = index
                /\ excused' = excused \ told
                /\ UNCHANGED desktop_count

HandleChanged ==
    /\ NextEvent({"changed"})
    /\ Known(Head(events))
    /\ LET index == NewIndex(Head(events))
           told == SetsRight(Head(events))
       IN  /\ desktop_index' = index
           /\ icon' = index
           /\ IF index > desktop_count THEN UpdateDesktopCount(told)
              ELSE UNCHANGED desktop_count /\ excused' = excused \ told

(* on_poll_timer of the library's plugin: an event of its own making when  *)
(* the number of desktops is not the one it saw last.                      *)
PollTimer ==
    /\ phase = "running" /\ library /\ available
    /\ prev_count # Count
    /\ prev_count' = Count
    /\ UpdateDesktopCount({})
    /\ HandlerOnly
    /\ UNCHANGED <<events, desktop_index, icon>>
-----------------------------------------------------------------------------
UserStep ==
    \/ \E d \in Ids : CreateDesktop(d) \/ SwitchTo(d) \/ RemoveDesktop(d)
    \/ \E d \in Ids : \E i \in DOMAIN desktops : MoveDesktop(d, i)
    \/ ExplorerStops \/ ExplorerStarts \/ TwoMinutesPass

Handle == HandleCount \/ HandleUnknown \/ HandleChanged

Next ==
    \/ UserStep
    \/ NewTray \/ BuildUi \/ Rebuild \/ StartupRebuild
    \/ CheckDesktopCount
    \/ Handle
    \/ PollTimer

Spec == Init /\ [][Next]_vars

(* The UI thread handles what is queued, timers fire, time passes, and     *)
(* explorer.exe is started again; nobody has to do anything to a desktop.  *)
Fairness ==
    /\ WF_vars(NewTray \/ BuildUi \/ Rebuild)
    /\ WF_vars(Handle)
    /\ WF_vars(PollTimer)
    /\ WF_vars(CheckDesktopCount)
    /\ WF_vars(ExplorerStarts)
    /\ WF_vars(TwoMinutesPass)

FairSpec == Spec /\ Fairness
-----------------------------------------------------------------------------
(***************************************************************************)
(* Properties.                                                             *)
(***************************************************************************)

(* Every variable has its type. *)
TypeOK ==
    /\ desktops \in Seq(Ids) /\ desktops # <<>> /\ Exists(current)
    /\ phase \in {"starting", "loaded", "running"}
    /\ {available, library, listening, recheck, need_rebuild, late} \subseteq BOOLEAN
    /\ {desktop_count, desktop_index} \subseteq Nat \ {0}
    /\ {icon, prev_count, changes, outages} \subseteq Nat
    /\ excused \subseteq Excuses

(* The static listener keeps the number of desktops right, however many    *)
(* events are queued or handled while explorer.exe is away: a wrong count  *)
(* is one that an event still queued will set right, one Windows did not   *)
(* tell, or one whose event was dropped by a rebuild (desktop_events.rs:   *)
(* 39-61), and then only until another event is answered.  The menus are   *)
(* built from this number.                                                 *)
CountTracksWindows ==
    phase = "running" /\ ~library /\ desktop_count # Count
        => Pending({"created", "destroyed"}) \/ excused \cap CountExcuses # {}

(* The icon follows every switch of desktops, also the one that a removal  *)
(* of the current desktop forces and one to a desktop the program does not *)
(* know of: a wrong number has an event queued, was never told or could    *)
(* not be asked for, had its event dropped by a rebuild, or is that of a   *)
(* desktop that was shifted; until a switch is told and answered.          *)
IconTracksSwitches ==
    phase = "running" /\ icon # Index(current)
        => Pending({"changed"}) \/ excused \cap IndexExcuses # {}

(* Not so: a rebuild keeps the cached values as if they were still true,   *)
(* so after it a wrong one has an excuse of Windows' making.  An event that *)
(* waits when the rebuild replaces the listener is never handled, and both *)
(* can stay wrong although Windows told.                                   *)
CacheSurvivesRebuild ==
    phase = "running" /\ ~library /\ events = <<>>
        => /\ desktop_count = Count \/ "count" \in excused
           /\ icon = Index(current) \/ excused \cap {"index", "shift"} # {}

(* README.md:26, "Tray icon shows one-based index of current virtual       *)
(* desktop": with every event told and handled it need not.                *)
IconShowsCurrentDesktop ==
    phase = "running" /\ events = <<>> /\ excused \cap {"index", "index dropped"} = {}
        => icon = Index(current)

(* README.md:78, "We need to regularly call the library to check if the    *)
(* number of virtual desktops have changed": the poll need not notice.     *)
(* A switch to a desktop that is not known yet updates the count and not   *)
(* prev_window_count, so a desktop that is created, switched to and        *)
(* removed between two polls leaves a count that is one too high.          *)
LibraryCountIsPolled == library /\ phase = "running" ~> desktop_count = Count
=============================================================================
