---------------------------- MODULE ApplyFilters ----------------------------
(***************************************************************************)
(* Applying the rules for windows and stopping windows from flashing       *)
(* (tray_plugins/apply_filters.rs and stop_flashing_window in vd.rs).      *)
(*                                                                         *)
(* The UI thread sends requests to a thread that is started with the first *)
(* one.  That thread merges what it finds in its channel into one batch,   *)
(* lists all windows, applies to each what its first matching rule says,   *)
(* and then lets one future per window hide the window and show it again.  *)
(* The futures run interleaved, a step is what one does between two        *)
(* awaits; the windows' own programs and the user act at any time.         *)
(*                                                                         *)
(* A list of rules is what find_first_action makes of it: a rule for each  *)
(* window.  Delays end when they like, and TimerThread does not promise    *)
(* that they all do: one that ends at the same instant as another may be   *)
(* lost.                                                                   *)
(***************************************************************************)
EXTENDS Naturals, Sequences

CONSTANTS
    Windows,
    Desktops,
    RuleLists,      \* lists of rules: functions from windows to rules
    InitialPins,    \* what windows may be like when the program starts,
    InitialPlaces,  \* and the desktops they may be on
    NoFilters,      \* no list, in a request or a batch
    NoJob,          \* a window that is not to be stopped from flashing
    NoTarget,       \* one that is, but not to be moved
    HideChecks,     \* how often to look whether a window is hidden (10)
    MoveAttempts,   \* how often to try to move it back (5)
    MaxRequests,    \* bound: requests of the user
    MaxEvents       \* bound: what programs, the user and other timers do to windows

(* What else a rule may name: no desktop, or not even an index of one. *)
Missing == "missing"
BeyondU32 == "beyond u32"

Actions == {"Move", "UnpinAndMove", "Unpin", "Pin", "Nothing"}
Rules == [action : Actions, target : Desktops \cup {Missing, BeyondU32}]

ASSUME FiltersAssumption ==
    /\ RuleLists \subseteq [Windows -> Rules]
    /\ InitialPins \subseteq [Windows -> {"no", "window", "app"}]
    /\ InitialPlaces \subseteq [Windows -> Desktops]
    /\ Desktops \cap {"WindowPinned", "AppPinned", "none", Missing, BeyondU32} = {}
    /\ NoFilters \notin [rev : Nat, rules : [Windows -> Rules]]
    /\ {NoJob, NoTarget} \cap [by : {"index", "guid"}, desktop : Desktops \cup {Missing}] = {}
    /\ NoJob # NoTarget
    /\ HideChecks \in Nat \ {0} /\ MoveAttempts \in Nat \ {0}
    /\ MaxRequests \in Nat /\ MaxEvents \in Nat

VARIABLES
    ui,         \* the UI thread: LazyThreadInfo's drop closes and joins
    thread,     \* where the thread is
    queue,      \* the channel
    batch,      \* what queue_action has collected
    todo,       \* windows apply_filters has not come to yet
    info,       \* WindowInfo.virtual_desktop, from when windows were listed
    jobs,       \* windows_to_prevent_flashing
    future,     \* where stop_flashing_window is, for each window
    tries,      \* how many of its retry_times it has used
    lost,       \* windows whose future waits for a delay that was lost
    shown,      \* Windows: is the window shown, or hidden by whom
    pin,        \* Windows: is the window, or its program, pinned
    place,      \* Windows: the desktop of the window
    requests, events,
    unserved,   \* history: requests that no batch has taken care of
    wanted      \* history: where the last batch wants windows to be, unless
                \* somebody else moved or hid them, or a move at once or the
                \* last attempt to move them fails

worker == <<thread, batch, todo, info, jobs>>
futures == <<future, tries, lost>>
world == <<shown, pin, place>>
counts == <<requests, events>>
history == <<unserved, wanted>>

vars == <<ui, thread, queue, batch, todo, info, jobs, future, tries, lost, shown, pin,
          place, requests, events, unserved, wanted>>
-----------------------------------------------------------------------------
Filters == [rev : Nat, rules : [Windows -> Rules]]
Requests == [filters : Filters \cup {NoFilters}, stop : BOOLEAN]
StopFlashingWindows == [filters |-> NoFilters, stop |-> FALSE]

Batches == [filters : Filters \cup {NoFilters}, stop_flashing : BOOLEAN, globally : BOOLEAN]
EmptyBatch == [filters |-> NoFilters, stop_flashing |-> FALSE, globally |-> FALSE]

(* A desktop the rules name is an index, that of a window is a GUID; ==     *)
(* takes them for different.                                                *)
Targets == [by : {"index", "guid"}, desktop : Desktops \cup {Missing}]
Jobs == Targets \cup {NoJob, NoTarget}

Infos == Desktops \cup {"WindowPinned", "AppPinned", "none"}
Info(w) == CASE pin[w] = "app" -> "AppPinned"
             [] pin[w] = "window" -> "WindowPinned"
             [] OTHER -> place[w]

ThreadStates == {"none", "recv", "drain", "apply", "stopping", "ended"}
FutureStates == {"none", "start", "settling", "hiding", "placing"}

(* The locals of apply_filters, before and after a batch. *)
NoInfo == [w \in Windows |-> "none"]
NoJobs == [w \in Windows |-> NoJob]
NowhereWanted == [w \in Windows |-> NoTarget]

(* hiding and showing: its program has not handled the message yet.         *)
(* withdrawn: its own program has hidden it.                                *)
ShownStates == {"visible", "hiding", "hidden", "showing", "withdrawn"}
HiddenByUs(w) == shown[w] \in {"hiding", "hidden"}

Init ==
    /\ ui = "running"
    /\ thread = "none"
    /\ queue = <<>>
    /\ batch = EmptyBatch
    /\ todo = {}
    /\ pin \in InitialPins
    /\ place \in InitialPlaces
    /\ shown = [w \in Windows |-> "visible"]
    /\ info = NoInfo
    /\ jobs = NoJobs
    /\ future = [w \in Windows |-> "none"]
    /\ tries = [w \in Windows |-> 0]
    /\ lost = {}
    /\ requests = 0 /\ events = 0
    /\ unserved = {}
    /\ wanted = NowhereWanted
-----------------------------------------------------------------------------
(***************************************************************************)
(* The UI thread.                                                          *)
(***************************************************************************)

(* Sending initializes the OnceCell, which starts the thread. *)
Send(request) ==
    /\ ui = "running"
    /\ requests < MaxRequests
    /\ requests' = requests + 1
    /\ queue' = Append(queue, request)
    /\ thread' = IF thread = "none" THEN "recv" ELSE thread
    /\ unserved' = unserved \cup {request}
    /\ UNCHANGED <<ui, batch, todo, info, jobs, futures, world, events, wanted>>

RequestFilters(rules, stop) ==
    Send([filters |-> [rev |-> requests + 1, rules |-> rules], stop |-> stop])
RequestStop == Send(StopFlashingWindows)

(* LazyThreadInfo::drop: the sender first, then the join. *)
DropSender ==
    /\ ui = "running"
    /\ ui' = IF thread = "none" THEN "closed" ELSE "closing"
    /\ UNCHANGED <<worker, queue, futures, world, counts, history>>

(* Mutant: the thread is detached. *)
Detach ==
    /\ ui = "closing"
    /\ ui' = "closed"
    /\ UNCHANGED <<worker, queue, futures, world, counts, history>>

Join ==
    /\ ui = "closing"
    /\ thread = "ended"
    /\ ui' = "closed"
    /\ UNCHANGED <<worker, queue, futures, world, counts, history>>

(* Mutant: the sender is dropped after the join. *)
NeverDisconnected == FALSE

Disconnected == ui # "running"
-----------------------------------------------------------------------------
(***************************************************************************)
(* The thread: background_work.                                            *)
(***************************************************************************)

(* Mutant: what is done about flashing is decided by the latest list. *)
QueueLatest(b, request) ==
    IF request.filters = NoFilters
    THEN [b EXCEPT !.globally = TRUE]
    ELSE [b EXCEPT !.filters = request.filters, !.stop_flashing = request.stop]

QueueAction(b, request) ==
    IF request.filters = NoFilters
    THEN [b EXCEPT !.globally = TRUE]
    ELSE [b EXCEPT !.filters = request.filters, !.stop_flashing = @ \/ request.stop]

Recv ==
    /\ thread = "recv"
    /\ queue # <<>>
    /\ thread' = "drain"
    /\ batch' = QueueAction(EmptyBatch, Head(queue))
    /\ queue' = Tail(queue)
    /\ info' = NoInfo /\ wanted' = NowhereWanted
    /\ UNCHANGED <<ui, todo, jobs, futures, world, counts, unserved>>

TryRecv ==
    /\ thread = "drain"
    /\ queue # <<>>
    /\ batch' = QueueAction(batch, Head(queue))
    /\ queue' = Tail(queue)
    /\ UNCHANGED <<ui, thread, todo, info, jobs, futures, world, counts, history>>

(* recv fails, or try_recv does: what was collected is not applied. *)
Leave ==
    /\ thread \in {"recv", "drain"}
    /\ queue = <<>>
    /\ Disconnected
    /\ thread' = "ended"
    /\ batch' = EmptyBatch
    /\ UNCHANGED <<ui, queue, todo, info, jobs, futures, world, counts, history>>

(* Served: a list at least as new, and its wish about flashing windows. *)
Serves(b, request) ==
    IF request.filters = NoFilters
    THEN b.globally
    ELSE /\ b.filters # NoFilters
         /\ b.filters.rev >= request.filters.rev
         /\ request.stop => b.stop_flashing

Rule(w) == IF batch.filters = NoFilters
           THEN [action |-> "Nothing", target |-> place[w]]
           ELSE batch.filters.rules[w]

(* Only windows whose programs are not pinned have a desktop of their own,  *)
(* once they are not pinned themselves.                                     *)
Wanted(w) ==
    LET action == IF pin[w] = "app" THEN "Nothing" ELSE Rule(w).action
        moves == action = "UnpinAndMove" \/ (action = "Move" /\ pin[w] = "no")
        stays == action = "Nothing" \/ (moves /\ Rule(w).target = BeyondU32)
    IN  CASE moves /\ Rule(w).target \in Desktops -> Rule(w).target
          [] stays /\ batch.globally /\ pin[w] = "no" -> place[w]
          [] OTHER -> NoTarget

(* Nothing more to receive: apply_filters lists all windows; of one that is  *)
(* not shown Windows may not know the desktop.                              *)
ListWindows ==
    /\ thread = "drain"
    /\ queue = <<>>
    /\ ~Disconnected
    /\ thread' = "apply"
    /\ todo' \in {known \in SUBSET Windows : \A w \in Windows \ known : shown[w] # "visible"}
    /\ info' = [w \in Windows |-> IF w \in todo' THEN Info(w) ELSE "none"]
    /\ unserved' = {r \in unserved : ~Serves(batch, r)}
    /\ wanted' = [w \in Windows |-> IF w \in todo' THEN Wanted(w) ELSE NoTarget]
    /\ UNCHANGED <<ui, queue, batch, jobs, futures, world, counts>>
-----------------------------------------------------------------------------
(***************************************************************************)
(* The loop over the windows in apply_filters.                             *)
(***************************************************************************)
AtDesktop(w) == info[w] \in Desktops

ByIndex(d) == [by |-> "index", desktop |-> d]
ByGuid(d) == [by |-> "guid", desktop |-> d]

(* What is pushed for every window, before its rule is looked at. *)
GlobalJob(w) == IF ~batch.globally THEN NoJob
                ELSE IF AtDesktop(w) THEN ByGuid(info[w]) ELSE NoTarget

(* stop_flashing_without_move *)
StayJob == IF batch.globally \/ batch.stop_flashing THEN NoTarget ELSE NoJob

Consider(w) ==
    /\ thread = "apply"
    /\ w \in todo
    /\ todo' = todo \ {w}
    /\ UNCHANGED <<ui, thread, queue, batch, info, futures, shown, counts, unserved>>

Job(w, job) == jobs' = [jobs EXCEPT ![w] = job]
Excuse(w) == wanted' = [wanted EXCEPT ![w] = NoTarget]
NotMoved == UNCHANGED <<place, wanted>>

CanMove(w, d) == shown[w] = "visible" /\ d \in Desktops

(* Windows moves a window, unless it is hidden or refuses. *)
MoveOrRefuse(w, d) ==
    \/ CanMove(w, d) /\ place' = [place EXCEPT ![w] = d] /\ UNCHANGED wanted
    \/ Excuse(w) /\ UNCHANGED place

(* No rule, a rule to do nothing, or all windows of the program are pinned. *)
LeaveWindow(w) ==
    /\ Consider(w)
    /\ Rule(w).action = "Nothing" \/ info[w] = "AppPinned"
    /\ Job(w, GlobalJob(w))
    /\ UNCHANGED pin /\ NotMoved

(* move_to_target_desktop, with the desktop from when windows were listed. *)
MoveToTarget(w, d) ==
    IF d = BeyondU32 \/ ~AtDesktop(w) THEN Job(w, GlobalJob(w)) /\ NotMoved
    ELSE IF batch.globally THEN Job(w, ByIndex(d)) /\ NotMoved
    ELSE IF info[w] = d THEN Job(w, NoJob) /\ NotMoved
    ELSE IF batch.stop_flashing THEN Job(w, ByIndex(d)) /\ NotMoved
    ELSE Job(w, NoJob) /\ MoveOrRefuse(w, d)

MoveWindow(w) ==
    /\ Consider(w)
    /\ Rule(w).action = "Move" /\ info[w] # "AppPinned"
    /\ MoveToTarget(w, Rule(w).target)
    /\ UNCHANGED pin

(* unpin_window, if the window was pinned; it may fail. *)
Unpinned(w) == info[w] = "WindowPinned" /\ pin' = [pin EXCEPT ![w] = "no"]
StaysPinned(w) == info[w] = "WindowPinned" /\ UNCHANGED pin
NotPinned(w) == info[w] # "WindowPinned" /\ UNCHANGED pin

UnpinAndMoveWindow(w) ==
    /\ Consider(w)
    /\ Rule(w).action = "UnpinAndMove" /\ info[w] # "AppPinned"
    /\ \/ /\ Unpinned(w) \/ NotPinned(w)
          /\ MoveToTarget(w, Rule(w).target)
       \/ /\ StaysPinned(w)
          /\ Job(w, GlobalJob(w))
          /\ Excuse(w) /\ UNCHANGED place

UnpinWindow(w) ==
    /\ Consider(w)
    /\ Rule(w).action = "Unpin" /\ info[w] # "AppPinned"
    /\ Unpinned(w) \/ StaysPinned(w) \/ NotPinned(w)
    /\ Job(w, StayJob)
    /\ NotMoved

PinWindow(w) ==
    /\ Consider(w)
    /\ Rule(w).action = "Pin" /\ info[w] # "AppPinned"
    /\ \/ AtDesktop(w) /\ pin' = [pin EXCEPT ![w] = "window"]
       \/ UNCHANGED pin
    /\ Job(w, StayJob)
    /\ NotMoved

(* stop_flashing_windows_blocking: one future for each window in the list. *)
StopFlashing ==
    /\ thread = "apply"
    /\ todo = {}
    /\ thread' = "stopping"
    /\ future' = [w \in Windows |-> IF jobs[w] = NoJob THEN "none" ELSE "start"]
    /\ UNCHANGED <<ui, queue, batch, todo, info, jobs, tries, lost, world, counts, history>>
-----------------------------------------------------------------------------
(***************************************************************************)
(* stop_flashing_window, for each window.                                  *)
(***************************************************************************)
Resume(w, at, next) ==
    /\ future[w] = at /\ w \notin lost
    /\ future' = [future EXCEPT ![w] = next]
    /\ UNCHANGED <<ui, worker, queue, lost, pin, counts, unserved>>

(* The first attempt to move a window back is the only check without delay. *)
Delayed(w) == future[w] \in {"settling", "hiding"} \/ (future[w] = "placing" /\ tries[w] > 0)

(* The timer thread is asked for another delay or timeout that ends at the  *)
(* same instant, and forgets this one (nwg_ext.rs:1224).                    *)
LoseDelay(w) ==
    /\ Delayed(w) /\ w \notin lost
    /\ events < MaxEvents
    /\ events' = events + 1
    /\ lost' = lost \cup {w}
    /\ UNCHANGED <<ui, worker, queue, future, tries, world, requests, history>>

(* Moving it at once may fail, which ends the future. *)
Start(w) ==
    /\ \/ /\ Resume(w, "start", "settling")
          /\ \/ jobs[w] = NoTarget /\ UNCHANGED place
             \/ /\ jobs[w] # NoTarget /\ CanMove(w, jobs[w].desktop)
                /\ place' = [place EXCEPT ![w] = jobs[w].desktop]
          /\ UNCHANGED wanted
       \/ /\ jobs[w] # NoTarget
          /\ Resume(w, "start", "none")
          /\ Excuse(w)
          /\ UNCHANGED place
    /\ UNCHANGED <<shown, tries>>

ShowWindow(w) ==
    shown' = IF shown[w] = "visible" THEN shown ELSE [shown EXCEPT ![w] = "showing"]

(* A second after the flashing was stopped.  If the window was not visible  *)
(* the ShowGuard, still armed, shows it.                                    *)
Hide(w) ==
    /\ \/ /\ shown[w] = "visible"
          /\ Resume(w, "settling", "hiding")
          /\ shown' = [shown EXCEPT ![w] = "hiding"]
          /\ UNCHANGED wanted
       \/ /\ shown[w] # "visible"
          /\ Resume(w, "settling", "none")
          /\ ShowWindow(w)
          /\ Excuse(w)
    /\ tries' = [tries EXCEPT ![w] = 0]
    /\ UNCHANGED place

StillHiding(w) ==
    /\ shown[w] \in {"hiding", "visible"}
    /\ tries[w] + 1 < HideChecks
    /\ Resume(w, "hiding", "hiding")
    /\ tries' = [tries EXCEPT ![w] = @ + 1]
    /\ UNCHANGED <<shown, place, wanted>>

(* Mutant: wait until the window is hidden, however long that takes. *)
ShowHiddenAgain(w) ==
    /\ shown[w] \notin {"hiding", "visible"}
    /\ Resume(w, "hiding", IF jobs[w] = NoTarget THEN "none" ELSE "placing")
    /\ ShowWindow(w)
    /\ tries' = [tries EXCEPT ![w] = 0]
    /\ UNCHANGED <<place, wanted>>

(* It is hidden, or there was no sign of it for a minute. *)
ShowAgain(w) ==
    /\ shown[w] \notin {"hiding", "visible"} \/ tries[w] + 1 = HideChecks
    /\ Resume(w, "hiding", IF jobs[w] = NoTarget THEN "none" ELSE "placing")
    /\ ShowWindow(w)
    /\ tries' = [tries EXCEPT ![w] = 0]
    /\ UNCHANGED <<place, wanted>>

(* Mutant: one attempt is enough. *)
AfterFirstAttempt(w) == "none"

AfterAttempt(w) == IF tries[w] + 1 = MoveAttempts THEN "none" ELSE "placing"

(* Is at the right place: never for a desktop that a rule names. *)
PlacedRight(w) ==
    /\ shown[w] = "visible"
    /\ jobs[w] = ByGuid(place[w])
    /\ Resume(w, "placing", "none")
    /\ tries' = [tries EXCEPT ![w] = 0]
    /\ UNCHANGED <<shown, place, wanted>>

(* get_window_desktop fails, or the desktop is another one. *)
TryToPlace(w) ==
    /\ Resume(w, "placing", AfterAttempt(w))
    /\ \/ /\ IF tries[w] + 1 = MoveAttempts THEN Excuse(w) ELSE UNCHANGED wanted
          /\ UNCHANGED place
       \/ /\ CanMove(w, jobs[w].desktop)
          /\ jobs[w] # ByGuid(place[w])
          /\ place' = [place EXCEPT ![w] = jobs[w].desktop]
          /\ UNCHANGED wanted
    /\ tries' = [tries EXCEPT ![w] = IF AfterAttempt(w) = "none" THEN 0 ELSE @ + 1]
    /\ UNCHANGED shown

AllDone == \A w \in Windows : future[w] = "none"

EndStopping ==
    /\ thread = "stopping"
    /\ AllDone
    /\ thread' = "recv"
    /\ batch' = EmptyBatch
    /\ jobs' = NoJobs
    /\ tries' = [w \in Windows |-> 0]
    /\ UNCHANGED <<ui, queue, todo, info, future, lost, world, counts, history>>
-----------------------------------------------------------------------------
(***************************************************************************)
(* The windows' programs, the user and Windows.                            *)
(***************************************************************************)
Untouched == UNCHANGED <<ui, worker, queue, futures, pin, requests, unserved>>

Hides(w) ==
    /\ shown[w] = "hiding"
    /\ shown' = [shown EXCEPT ![w] = "hidden"]
    /\ UNCHANGED <<place, events, wanted>> /\ Untouched

(* A window that is shown again may be on the desktop the user is on. *)
Appears(w, d) ==
    /\ shown[w] = "showing"
    /\ shown' = [shown EXCEPT ![w] = "visible"]
    /\ place' = [place EXCEPT ![w] = d]
    /\ IF jobs[w] = NoJob THEN Excuse(w) ELSE UNCHANGED wanted
    /\ UNCHANGED events /\ Untouched

Withdraw(w) ==
    /\ events < MaxEvents
    /\ events' = events + 1
    /\ shown[w] = "visible"
    /\ shown' = [shown EXCEPT ![w] = "withdrawn"]
    /\ UNCHANGED <<place, wanted>> /\ Untouched

ShowItself(w) ==
    /\ shown[w] \in {"hiding", "hidden", "withdrawn"}
    /\ events < MaxEvents
    /\ events' = events + 1
    /\ shown' = [shown EXCEPT ![w] = "visible"]
    /\ UNCHANGED <<place, wanted>> /\ Untouched

UserMoves(w, d) ==
    /\ events < MaxEvents
    /\ events' = events + 1
    /\ shown[w] = "visible" /\ d # place[w]
    /\ place' = [place EXCEPT ![w] = d]
    /\ Excuse(w)
    /\ UNCHANGED shown /\ Untouched
-----------------------------------------------------------------------------
ApplyRule(w) ==
    \/ LeaveWindow(w) \/ MoveWindow(w) \/ UnpinAndMoveWindow(w)
    \/ UnpinWindow(w) \/ PinWindow(w)

FutureStep(w) ==
    \/ Start(w) \/ Hide(w) \/ StillHiding(w) \/ ShowAgain(w)
    \/ PlacedRight(w) \/ TryToPlace(w)

ThreadSteps ==
    \/ Recv \/ TryRecv \/ Leave \/ ListWindows \/ StopFlashing \/ EndStopping
    \/ \E w \in Windows : ApplyRule(w)

UiSteps ==
    \/ \E rules \in RuleLists, stop \in BOOLEAN : RequestFilters(rules, stop)
    \/ RequestStop \/ DropSender \/ Join

Environment ==
    \E w \in Windows :
        \/ Hides(w) \/ Withdraw(w) \/ ShowItself(w)
        \/ \E d \in Desktops : Appears(w, d) \/ UserMoves(w, d)

Next ==
    \/ UiSteps \/ ThreadSteps \/ Environment
    \/ \E w \in Windows : FutureStep(w) \/ LoseDelay(w)

Spec == Init /\ [][Next]_vars

(* The thread runs: delays that are not lost end and it polls their         *)
(* futures.  The UI thread's join returns.  Nothing is assumed of other     *)
(* programs.                                                                *)
FairSpec ==
    /\ Spec
    /\ WF_vars(ThreadSteps \/ \E w \in Windows : FutureStep(w))
    /\ WF_vars(Join)
-----------------------------------------------------------------------------
(* Types, and: futures run only while the thread blocks on all of them, so  *)
(* that two batches never hide the same window at once (vd.rs:798).         *)
TypeOK ==
    /\ ui \in {"running", "closing", "closed"}
    /\ thread \in ThreadStates
    /\ queue \in Seq(Requests)
    /\ batch \in Batches
    /\ todo \subseteq Windows
    /\ info \in [Windows -> Infos]
    /\ jobs \in [Windows -> Jobs]
    /\ future \in [Windows -> FutureStates]
    /\ tries \in [Windows -> Nat] /\ lost \subseteq Windows
    /\ shown \in [Windows -> ShownStates]
    /\ pin \in [Windows -> {"no", "window", "app"}]
    /\ place \in [Windows -> Desktops]
    /\ requests \in 0..MaxRequests /\ events \in 0..MaxEvents
    /\ unserved \subseteq Requests
    /\ wanted \in [Windows -> Desktops \cup {NoTarget}]
    /\ \A w \in Windows : future[w] # "none" => thread = "stopping" /\ jobs[w] # NoJob
    /\ \A w \in Windows : future[w] = "placing" => jobs[w] # NoTarget

(* When the thread waits for more, the newest list has been applied, and    *)
(* every wish to stop windows from flashing has been part of a batch, also  *)
(* that of a list that a newer one replaced (apply_filters.rs:162-182).     *)
NothingForgotten == thread = "recv" /\ queue = <<>> => unserved = {}

(* A normal exit waits for the windows that are hidden: none stays hidden   *)
(* when the plugin is gone (apply_filters.rs:200-203, vd.rs:870).           *)
ExitShowsWindows == ui = "closed" => \A w \in Windows : ~HiddenByUs(w)

(* Wherever a window appears when it is shown again, it ends up on the      *)
(* desktop its rule names, or, if all windows are to stop flashing, on the  *)
(* one it was on, if it appears while there are attempts left to move it    *)
(* (apply_filters.rs:63-81, vd.rs:946-997).  Left out are windows that had  *)
(* no desktop of their own when they were listed, pinned ones among them    *)
(* also if their rule unpins them (UnpinnedAreMoved); windows that somebody *)
(* else moved or hid; and those for which a move at once or the last        *)
(* attempt, half a second after they were shown, fails, as they are not     *)
(* there yet or Windows refuses.                                            *)
WindowsWhereWanted ==
    thread = "recv" =>
        \A w \in Windows : wanted[w] # NoTarget /\ AtDesktop(w) => place[w] = wanted[w]

(* A window that was hidden is shown again, even if its program is slow to  *)
(* hide it (vd.rs:905-939), unless the delay its future waits for was lost. *)
HiddenReappear == \A w \in Windows : HiddenByUs(w) ~> ~HiddenByUs(w) \/ w \in lost

(* An exit does not hang, whatever the thread is at (apply_filters.rs:195), *)
(* unless a delay was lost: the batch waits for all its futures.            *)
ExitEnds == ui = "closing" ~> ui = "closed" \/ lost # {}

(* "Move the window to another virtual desktop and if the window was pinned *)
(* then unpin it first" (window_filter.rs:526).                             *)
UnpinnedAreMoved ==
    thread = "recv" =>
        \A w \in Windows : wanted[w] # NoTarget => place[w] = wanted[w]
=============================================================================
