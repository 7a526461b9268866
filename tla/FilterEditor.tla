---------------------------- MODULE FilterEditor ----------------------------
(***************************************************************************)
(* The rules in the configuration window (config_window.rs and             *)
(* filter_options.rs): a list with a row for each rule and for each of     *)
(* Windows' windows, that the user may sort, and a panel with the controls *)
(* of the selected rule.                                                   *)
(*                                                                         *)
(* Filling a control makes it post the same message as typing into it, and *)
(* a message is handled with whatever the controls hold by then.  Windows  *)
(* hands out posted messages before the user's input, so the user acts     *)
(* when there are none.  A thread lists Windows' windows.                  *)
(*                                                                         *)
(* Indexes are one-based, 0 stands for no rule, as in the panel's number.  *)
(* What the program does with the shared settings is in ConfigSync, here   *)
(* they are the rules alone.                                               *)
(***************************************************************************)
EXTENDS WindowRules

CONSTANTS
    Rules,          \* what the user can make of a rule
    StartRules,     \* the rules when the window opens
    ImportedRules,  \* the rules in a file
    OpenWindows,    \* Windows' windows, in the order they are listed
    TextOrder,      \* the titles in the order their column is sorted
    MaxRules,       \* bound: rules in the list
    MaxInputs,      \* bound: inputs of the user
    MaxRollBacks    \* bound: times the program takes the rules back

ASSUME EditorAssumption ==
    /\ StartRules \in Seq(Rules) /\ Len(StartRules) <= MaxRules
    /\ ImportedRules \in Seq(Rules) /\ DefaultFilter \in Rules
    /\ OpenWindows \in Seq(ToSet(OpenWindows)) /\ TextOrder \in Seq(ToSet(TextOrder))
    /\ {rule.window_title : rule \in Rules} \subseteq ToSet(TextOrder)
    /\ MaxRules \in Nat /\ MaxInputs \in Nat /\ MaxRollBacks \in Nat

VARIABLES
    shared,         \* the rules of SharedStateMut.tracked_settings.new
    published,      \* the rules of the program's settings
    loaded,         \* the rules of loaded_settings
    rows,           \* the rows of rules, as they are seen: stored index and rule
    infos,          \* the rows of windows: window and what is shown of it
    dir,            \* how the list is sorted
    panel,          \* the panel: number of the selected rule and what its controls hold
    messages,       \* messages posted to the window
    thread,         \* BackgroundThread
    refresh_queued, \* has_queued_refresh
    inputs, rollbacks,
    wanted,         \* history: the rules as the user has left them
    crossed,        \* history: a message that waits will write over rules taken back
    mismatched      \* history: a row was updated that is not where its index says, and
                    \*     the rules have not changed with all rows in place since

list == <<loaded, rows, infos>>
gathering == <<thread, refresh_queued>>
history == <<wanted, crossed, mismatched>>
outside == <<published, rollbacks>>

vars == <<shared, published, loaded, rows, infos, dir, panel, messages, thread,
          refresh_queued, inputs, rollbacks, wanted, crossed, mismatched>>
-----------------------------------------------------------------------------
Messages == {"filter_changed", "filter_id_changed", "state_changed", "window_info"}
Directions == {"none", "desc", "asc"}

Rank(rule) == CHOOSE i \in DOMAIN TextOrder : TextOrder[i] = rule.window_title

(* resort_items: rows of rules by the sorted column, then by stored index. *)
SortsBefore(unsorted, direction, i, j) ==
    LET a == unsorted[i] b == unsorted[j] ra == Rank(a.rule) rb == Rank(b.rule) IN
    \/ direction = "desc" /\ ra < rb
    \/ direction = "asc" /\ rb < ra
    \/ (direction = "none" \/ ra = rb) /\ (a.ix < b.ix \/ (a.ix = b.ix /\ i < j))

Sorted(unsorted, direction) ==
    LET place == [i \in DOMAIN unsorted |->
            Cardinality({j \in DOMAIN unsorted : j = i \/ SortsBefore(unsorted, direction, j, i)})]
    IN [k \in DOMAIN unsorted |-> unsorted[CHOOSE i \in DOMAIN unsorted : place[i] = k]]

(* check_window, for each rule, place and window: worked out only once. *)
Checked == {<<rule, index, OpenWindows[k], CheckWindow(rule, index, OpenWindows[k])>> :
                rule \in Rules, index \in 0..Len(OpenWindows), k \in DOMAIN OpenWindows}

(* What the row of a window shows: the rules that apply and the action. *)
Shown(rules, index, info) ==
    LET checked == {rule \in ToSet(rules) : <<rule, index, info, TRUE>> \in Checked}
    IN [filters |-> ActiveFilters(rules, checked),
        action |-> {rules[i].action : i \in FindFirstAction(rules, checked)}]

(* Mutant: the rows keep what they show. *)
KeepShown(rules) == infos

UpdateWindowInfos(rules) ==
    [i \in DOMAIN infos |->
        [info |-> infos[i].info, shown |-> Shown(rules, i - 1, infos[i].info)]]

(* add_window_info, for everything the thread has sent. *)
AddWindowInfos(sent) ==
    infos \o [k \in DOMAIN sent |->
                 [info |-> sent[k], shown |-> Shown(loaded, Len(infos) + k - 1, sent[k])]]

(* The panel once a rule was selected, or none if there is no rule. *)
PanelFor(rules, index) ==
    LET selected == IF index > Len(rules) THEN Len(rules) ELSE index
    IN [selected |-> selected,
        filter |-> IF selected = 0 THEN DefaultFilter ELSE rules[selected]]

(* What the panel posts when it is filled: a control that shows another    *)
(* text or number than before says so, the list of actions does not.       *)
Posted(old, new) ==
    (IF old.selected = new.selected THEN <<>> ELSE <<"filter_id_changed">>)
    \o (IF [old.filter EXCEPT !.action = new.filter.action] = new.filter THEN <<>>
        ELSE <<"filter_changed">>)

(* set_selected_filter *)
SetSelectedFilter(index, pending) ==
    /\ panel' = PanelFor(loaded, index)
    /\ messages' = pending \o Posted(panel, panel')

(* The rule populate_filter_list selects. *)
SelectedAfter(rules) ==
    IF panel.selected # 0 /\ rows # <<>> /\ Len(rules) > Len(rows) THEN Len(rules)
    ELSE panel.selected

(* Mutant: the data of a row that is there is not replaced. *)
KeepRow(rules, i) == IF i \in DOMAIN rows THEN rows[i] ELSE [ix |-> i, rule |-> rules[i]]

RowFor(rules, i) ==
    IF i \in DOMAIN rows THEN [rows[i] EXCEPT !.rule = rules[i]] ELSE [ix |-> i, rule |-> rules[i]]

(* populate_filter_list: the rows that are there are updated in the order  *)
(* in which they are seen.  Then another rule may be selected, `index`.    *)
PopulateFilterList(rules, index, pending) ==
    LET updated == [i \in DOMAIN rules |-> RowFor(rules, i)]
        did_delete == Len(rows) > Len(rules)
        did_change == \E i \in DOMAIN rules : i \notin DOMAIN rows \/ rows[i].rule # rules[i]
        populated == PanelFor(rules, SelectedAfter(rules))
    IN /\ loaded' = rules
       /\ rows' = IF did_change THEN Sorted(updated, dir) ELSE updated
       /\ infos' = IF did_change \/ did_delete THEN UpdateWindowInfos(rules) ELSE infos
       /\ panel' = PanelFor(rules, index)
       /\ messages' = pending \o Posted(panel, populated) \o Posted(populated, panel')
       /\ mismatched' = \/ \E i \in DOMAIN rules \cap DOMAIN rows : rows[i].ix # i
                        \/ mismatched /\ ~did_change /\ ~did_delete
-----------------------------------------------------------------------------
(***************************************************************************)
(* The thread that lists windows.                                          *)
(***************************************************************************)
NewThread == [pc |-> "listing", listed |-> 0, sent |-> <<>>, should_exit |-> FALSE]
ThreadStates == {"listing", "noticing", "stored", "dropped", "posted", "ended"}

Disconnected == thread.pc \notin {"listing", "noticing", "stored"}

OtherThanThread ==
    <<shared, loaded, rows, infos, dir, panel, refresh_queued, inputs, outside, history>>

SendWindow ==
    /\ thread.pc = "listing"
    /\ thread.listed < Len(OpenWindows)
    /\ thread' = [thread EXCEPT !.pc = "noticing", !.listed = @ + 1,
                                !.sent = Append(@, OpenWindows[thread.listed + 1])]
    /\ UNCHANGED <<messages, OtherThanThread>>

PostWindowInfo ==
    /\ thread.pc = "noticing"
    /\ thread' = [thread EXCEPT !.pc = "listing"]
    /\ messages' = Append(messages, "window_info")
    /\ UNCHANGED OtherThanThread

(* Nothing could be learned about a window. *)
SkipWindow ==
    /\ thread.pc = "listing"
    /\ thread.listed < Len(OpenWindows)
    /\ thread' = [thread EXCEPT !.listed = @ + 1]
    /\ UNCHANGED <<messages, OtherThanThread>>

(* Mutant: the thread does not say that it ends. *)
StoreNothing ==
    /\ thread.pc = "listing"
    /\ thread.listed = Len(OpenWindows)
    /\ thread' = [thread EXCEPT !.pc = "stored"]
    /\ UNCHANGED <<messages, OtherThanThread>>

StoreShouldExit ==
    /\ thread.pc = "listing"
    /\ thread.listed = Len(OpenWindows)
    /\ thread' = [thread EXCEPT !.pc = "stored", !.should_exit = TRUE]
    /\ UNCHANGED <<messages, OtherThanThread>>

DropSender ==
    /\ thread.pc = "stored"
    /\ thread' = [thread EXCEPT !.pc = "dropped"]
    /\ UNCHANGED <<messages, OtherThanThread>>

PostLastInfo ==
    /\ thread.pc = "dropped"
    /\ thread' = [thread EXCEPT !.pc = "posted"]
    /\ messages' = Append(messages, "window_info")
    /\ UNCHANGED OtherThanThread

EndThread ==
    /\ thread.pc = "posted"
    /\ thread' = [thread EXCEPT !.pc = "ended"]
    /\ UNCHANGED <<messages, OtherThanThread>>

StillListing == thread.pc # "ended" /\ ~thread.should_exit

(* gather_window_info, when no thread is listing any more.  An old thread  *)
(* that is about to end is waited for, so that its last message is posted. *)
GatherWindowInfo(pending) ==
    /\ infos' = <<>>
    /\ refresh_queued' = FALSE
    /\ thread' = NewThread
    /\ messages' = IF thread.pc \in {"stored", "dropped"} THEN Append(pending, "window_info")
                   ELSE pending
-----------------------------------------------------------------------------
(***************************************************************************)
(* The user.                                                               *)
(***************************************************************************)
CanInput ==
    /\ messages = <<>>
    /\ inputs < MaxInputs
    /\ inputs' = inputs + 1

(* update_settings, and what is selected then. *)
UpdateSettings(rules, index) ==
    /\ CanInput
    /\ shared' = rules
    /\ PopulateFilterList(rules, index, <<>>)
    /\ UNCHANGED <<dir, gathering, outside, crossed>>

(* A control of the panel is changed. *)
EditPanel(rule) ==
    /\ CanInput
    /\ panel.selected # 0
    /\ rule # panel.filter
    /\ panel' = [panel EXCEPT !.filter = rule]
    /\ messages' = <<"filter_changed">>
    /\ wanted' = [wanted EXCEPT ![panel.selected] = rule]
    /\ UNCHANGED <<shared, list, dir, gathering, outside, crossed, mismatched>>

(* Mutant: the number is said to be an option of the rule. *)
TypeAsOption(index) ==
    /\ CanInput
    /\ index # panel.selected
    /\ panel' = [panel EXCEPT !.selected = index]
    /\ messages' = <<"filter_changed">>
    /\ UNCHANGED <<shared, list, dir, gathering, outside, history>>

(* Mutant: the number is not told of. *)
TypeSilently(index) ==
    /\ CanInput
    /\ index # panel.selected
    /\ panel' = [panel EXCEPT !.selected = index]
    /\ UNCHANGED <<shared, list, dir, messages, gathering, outside, history>>

(* A number is typed, or stepped to with the arrows. *)
TypeIndex(index) ==
    /\ CanInput
    /\ index # panel.selected
    /\ panel' = [panel EXCEPT !.selected = index]
    /\ messages' = <<"filter_id_changed">>
    /\ UNCHANGED <<shared, list, dir, gathering, outside, history>>

(* lvn_item_activate, on the row of a rule *)
Activate(row) ==
    /\ CanInput
    /\ SetSelectedFilter(rows[row].ix, <<>>)
    /\ UNCHANGED <<shared, list, dir, gathering, outside, history>>

NextDirection == [none |-> "desc", desc |-> "asc", asc |-> "none"]

(* lvn_column_click *)
ColumnClick ==
    /\ CanInput
    /\ dir' = NextDirection[dir]
    /\ rows' = Sorted(rows, dir')
    /\ UNCHANGED <<shared, loaded, infos, panel, messages, gathering, outside, history>>

OnCreateNew ==
    /\ Len(wanted) < MaxRules
    /\ UpdateSettings(Append(shared, DefaultFilter), Len(shared) + 1)
    /\ wanted' = Append(wanted, DefaultFilter)

(* on_delete: what follows the selected rule is selected. *)
OnDelete ==
    /\ panel.selected # 0
    /\ UpdateSettings(IF panel.selected \in DOMAIN shared THEN RemoveAt(shared, panel.selected) ELSE shared,
                      panel.selected)
    /\ wanted' = RemoveAt(wanted, panel.selected)

Swapped(rules, i, j) == [rules EXCEPT ![i] = rules[j], ![j] = rules[i]]

(* on_move_up and on_move_down *)
OnMove(swap_with) ==
    /\ panel.selected # 0
    /\ swap_with \in DOMAIN loaded
    /\ UpdateSettings(Swapped(shared, panel.selected, swap_with), swap_with)
    /\ wanted' = Swapped(wanted, panel.selected, swap_with)

OnMoveUp == OnMove(panel.selected - 1)
OnMoveDown == OnMove(panel.selected + 1)

(* import_filters_from_json and import_filters_from_legacy_xml *)
ImportFilters ==
    /\ Len(wanted) + Len(ImportedRules) <= MaxRules
    /\ UpdateSettings(shared \o ImportedRules, SelectedAfter(shared \o ImportedRules))
    /\ wanted' = wanted \o ImportedRules

Refresh ==
    /\ CanInput
    /\ \/ /\ StillListing
          /\ refresh_queued' = TRUE
          /\ UNCHANGED <<infos, thread, messages>>
       \/ /\ ~StillListing
          /\ GatherWindowInfo(<<>>)
    /\ UNCHANGED <<shared, loaded, rows, dir, panel, outside, history>>
-----------------------------------------------------------------------------
(***************************************************************************)
(* The window's messages.                                                  *)
(***************************************************************************)
Received(message) == messages # <<>> /\ Head(messages) = message

(* on_option_change, without a selected rule. *)
IgnoreOptionChange ==
    /\ Received("filter_changed")
    /\ panel.selected = 0
    /\ messages' = Tail(messages)
    /\ UNCHANGED <<shared, list, dir, panel, gathering, inputs, outside, history>>

(* What the panel holds is written to the selected rule, whatever it is by *)
(* now: to rules that were taken back it may be something else.            *)
OnOptionChange ==
    LET rules == IF panel.selected \in DOMAIN shared
                 THEN [shared EXCEPT ![panel.selected] = panel.filter] ELSE shared
    IN /\ Received("filter_changed")
       /\ panel.selected # 0
       /\ shared' = rules
       /\ PopulateFilterList(rules, SelectedAfter(rules), Tail(messages))
       /\ wanted' = IF crossed THEN rules ELSE wanted
       /\ crossed' = FALSE
       /\ UNCHANGED <<dir, gathering, inputs, outside>>

OnIndexChange ==
    /\ Received("filter_id_changed")
    /\ SetSelectedFilter(panel.selected, Tail(messages))
    /\ UNCHANGED <<shared, list, dir, gathering, inputs, outside, history>>

(* The handler of STATE_CHANGED: only settings it has not loaded matter. *)
OnStateChanged ==
    /\ Received("state_changed")
    /\ \/ /\ shared = loaded
          /\ messages' = Tail(messages)
          /\ UNCHANGED <<list, panel, mismatched>>
       \/ /\ shared # loaded
          /\ PopulateFilterList(shared, SelectedAfter(shared), Tail(messages))
    /\ UNCHANGED <<shared, dir, gathering, inputs, outside, wanted, crossed>>

(* The handler of WINDOW_INFO_AVAILABLE, before the last window. *)
OnWindowInfo ==
    /\ Received("window_info")
    /\ ~Disconnected
    /\ infos' = AddWindowInfos(thread.sent)
    /\ thread' = [thread EXCEPT !.sent = <<>>]
    /\ messages' = Tail(messages)
    /\ UNCHANGED <<shared, loaded, rows, dir, panel, refresh_queued, inputs, outside, history>>

(* After it: every row that was added made the list unsorted and nothing   *)
(* makes it sorted, so it is sorted now.                                   *)
OnAllWindowInfo ==
    /\ Received("window_info")
    /\ Disconnected
    /\ rows' = Sorted(rows, dir)
    /\ IF refresh_queued THEN GatherWindowInfo(Tail(messages))
       ELSE /\ infos' = AddWindowInfos(thread.sent)
            /\ thread' = [thread EXCEPT !.sent = <<>>]
            /\ messages' = Tail(messages)
            /\ UNCHANGED refresh_queued
    /\ UNCHANGED <<shared, loaded, dir, panel, inputs, outside, history>>
-----------------------------------------------------------------------------
(***************************************************************************)
(* The program.                                                            *)
(***************************************************************************)

(* on_notice_settings: the window's rules become the program's. *)
Publish ==
    /\ published # shared
    /\ published' = shared
    /\ UNCHANGED <<shared, list, dir, panel, messages, gathering, inputs, rollbacks, history>>

(* An option is handled before the rules are loaded again, and the panel   *)
(* holds something else than the rule that was taken back.                 *)
WritesTakenBack ==
    /\ \E i \in DOMAIN messages :
          messages[i] = "filter_changed" /\ \A j \in 1..i - 1 : messages[j] # "state_changed"
    /\ panel.selected \in DOMAIN published
    /\ panel.filter # published[panel.selected]

(* on_settings_changed: something else was changed meanwhile, so that the  *)
(* program's rules are the older ones.                                     *)
RollBack ==
    /\ rollbacks < MaxRollBacks
    /\ published # shared
    /\ rollbacks' = rollbacks + 1
    /\ shared' = published
    /\ messages' = Append(messages, "state_changed")
    /\ wanted' = published
    /\ crossed' = (crossed \/ WritesTakenBack)
    /\ UNCHANGED <<published, list, dir, panel, gathering, inputs, mismatched>>
-----------------------------------------------------------------------------
(* What wm_create leaves: a panel for no rule, that was empty before. *)
Init ==
    /\ shared = StartRules
    /\ published = StartRules
    /\ loaded = StartRules
    /\ rows = [i \in DOMAIN StartRules |-> [ix |-> i, rule |-> StartRules[i]]]
    /\ infos = <<>>
    /\ dir = "none"
    /\ panel = [selected |-> 0, filter |-> DefaultFilter]
    /\ messages = <<"filter_changed">>
    /\ thread = NewThread
    /\ refresh_queued = FALSE
    /\ inputs = 0 /\ rollbacks = 0
    /\ wanted = StartRules
    /\ crossed = FALSE /\ mismatched = FALSE

User ==
    \/ \E rule \in Rules : EditPanel(rule)
    \/ \E index \in 0..Len(loaded) + 1 : TypeIndex(index)
    \/ \E row \in DOMAIN rows : Activate(row)
    \/ ColumnClick \/ OnCreateNew \/ OnDelete \/ OnMoveUp \/ OnMoveDown \/ ImportFilters \/ Refresh

Handlers ==
    \/ IgnoreOptionChange \/ OnOptionChange \/ OnIndexChange \/ OnStateChanged
    \/ OnWindowInfo \/ OnAllWindowInfo

Thread ==
    \/ SendWindow \/ PostWindowInfo \/ SkipWindow
    \/ StoreShouldExit \/ DropSender \/ PostLastInfo \/ EndThread

Next == User \/ Handlers \/ Thread \/ Publish \/ RollBack

Spec == Init /\ [][Next]_vars

(* The window's thread handles its messages, the other thread runs on. *)
FairSpec == Spec /\ WF_vars(Handlers) /\ WF_vars(Thread)
-----------------------------------------------------------------------------
TypeOK ==
    /\ {shared, published, wanted, loaded} \subseteq Seq(Rules)
    /\ \A i \in DOMAIN rows : rows[i].ix \in 1..MaxRules /\ rows[i].rule \in Rules
    /\ dir \in Directions
    /\ panel.selected \in 0..MaxRules + 1 /\ panel.filter \in Rules
    /\ panel.selected > Len(loaded) => \E i \in DOMAIN messages : messages[i] = "filter_id_changed"
    /\ messages \in Seq(Messages)
    /\ thread.pc \in ThreadStates
    /\ thread.listed \in 0..Len(OpenWindows)
    /\ refresh_queued \in BOOLEAN

(* The assertion of populate_filter_list: "stored filter index should      *)
(* always equal row index".                                                *)
StoredIndexIsRowIndex == ~mismatched

(* The list has a row for each loaded rule, which shows it as it is,       *)
(* however the list was sorted and rules were moved, created, deleted,     *)
(* imported or taken back.  The row also selects its rule when it is       *)
(* activated, unless the list was sorted when it was last updated: its     *)
(* rows then keep the indexes of other rules (StoredIndexIsRowIndex), and  *)
(* do so until the rules change while every row is in its place again.     *)
RowsMatchFilters ==
    /\ \E place \in Bijection(DOMAIN rows, DOMAIN loaded) :
          \A i \in DOMAIN rows : rows[i].rule = loaded[place[i]]
    /\ mismatched
       \/ /\ {rows[i].ix : i \in DOMAIN rows} = DOMAIN loaded
          /\ \A i \in DOMAIN rows : rows[i].rule = loaded[rows[i].ix]

(* The row of a window shows the rules that apply to it as they are now,   *)
(* also when the rules changed while the thread was listing windows.  Here *)
(* too the list must not have been sorted when it was last updated: sorted *)
(* it may show the new rules already, and the windows are not looked at.   *)
WindowsShowRules ==
    mismatched \/ \A i \in DOMAIN infos : infos[i].shown = Shown(loaded, i - 1, infos[i].info)

(* Once the messages are handled the rules are what the user made them:    *)
(* no message the window sent itself by filling its panel has written a    *)
(* rule, and each edit has reached the rule it was made for, which is the  *)
(* one the panel shows.  Where the program took the rules back while a     *)
(* message waited that wrote over them (`crossed`), the rules are what     *)
(* that message made of them, and the panel shows these.                   *)
EditsReachTheirRule ==
    messages = <<>> =>
        /\ shared = wanted
        /\ loaded = wanted
        /\ panel = PanelFor(wanted, panel.selected)

(* Filling the panel writes nothing to rules that are taken back.  It      *)
(* does: what is written over them need not be an edit, it may also be the *)
(* rule that the panel was filled with after another one was moved away.   *)
FillingWritesNothing == ~(crossed /\ panel = PanelFor(loaded, panel.selected))

(* A refresh that was asked for while windows were being listed is made,   *)
(* and not forgotten as the thread that lists them ends.                   *)
RefreshServed == refresh_queued ~> ~refresh_queued
=============================================================================
