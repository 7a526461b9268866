# A verification project for virtual-desktop-manager-rs

TLA+ models of [virtual-desktop-manager](../src/README.md), a Windows tray program written in Rust: what
its threads, timers, events and files do together, checked by TLC on small instances and
proved with TLAPS for all instances. Paths below are relative to `src/crates/`; `core/` is
`virtual-desktop-manager-core/src/`, `winsafe/` is `virtual-desktop-manager-gui-winsafe/src/`.

- [1 The system](#1-the-system)
- [2 The modules](#2-the-modules)
- [3 The runs](#3-the-runs)
- [4 The proofs](#4-the-proofs)
- [5 Where the code does not do what it says](#5-where-the-code-does-not-do-what-it-says)
- [6 What is not modelled](#6-what-is-not-modelled)
- [7 Plan](#7-plan)

To repeat a run: `tlc -config MCSettingsSaver.cfg MCSettingsSaver`; to repeat a proof: `tlapm SettingsSaverProofs.tla`.

## 1 The system

Everything the user sees happens on one UI thread that dispatches Windows messages. The rest runs on helper threads that
share a mutex, a channel or a handful of atomics with it, and that tell it to look by posting a *notice* (a window message).

| Component | State | Operations | Talks to |
|---|---|---|---|
| Settings store (`core/settings.rs`) | current settings, cached file contents, close flag, error channel, two files | load, set, save in the background, report errors, rebuild, close | every plugin (`on_settings_changed`), the save thread by mutex and two condition variables, the disk |
| Timers (`core/nwg_ext.rs` 1150-1604) and runtime (`core/block_on.rs`) | ordered map of callbacks, a channel of requests, one atomic per armed timer; waker, park token | arm once, start interval, cancel, await a delay | every timer of the UI; the thread that applies filters |
| Desktop tracking (`core/tray.rs`, `core/tray_plugins/desktop_events*.rs`) | count, index, names, tray icon, poll's last count | start, rebuild, desktop event, poll, recheck | Windows through `winvd` or a DLL; all plugins (`on_current_desktop_changed`...) |
| Dynamic UI (`core/dynamic_gui.rs`) and menus (`core/tray_plugins/menus.rs`) | plugin list with parents, event queue, bound handlers; the controls in each menu | handle an event, find invalid plugins, rebuild them in order, destroy | every plugin by its hooks |
| Configuration window (`winsafe/lib.rs`) | `SharedStateMut`: wanted state, old and new settings, window handle, notices; debouncer | open, close, refocus, publish settings, roll back | its own window thread by mutex and posted messages; settings store |
| Rules in the configuration window (`winsafe/config_window.rs`, `winsafe/filter_options.rs`) and its shortcuts field (`winsafe/program_settings.rs`) | the list and its sorting, the selected rule's panel, the listed windows; the field's text and selection | select, edit, move, create, delete, import, sort, refresh; type, parse, write back | posts messages to itself; a thread that lists windows; `SharedStateMut` |
| Window rules (`core/window_filter.rs`) | none | match a window, find the first action, export and import XML | filters, configuration window |
| Filters (`core/tray_plugins/apply_filters.rs`, end of `core/vd.rs`) | a queue to a lazily started thread; which windows are hidden | apply a list of rules, stop windows from flashing | Windows' windows; timers |
| Quick switch (`core/quick_switch.rs`) | tree of submenus with their desktop numbers | build for a number of desktops, resolve a click or a space | context menu |
| Smooth switching (`core/invisible_window.rs`) | an invisible window, four timers | switch, refocus, close | tray; timers |
| Elevation (`core/change_elevation.rs`) | a socket, a child process, a cancel flag | restart elevated, confirm, cancel | the other instance of the program |
| Hotkeys (`core/tray_plugins/hotkeys.rs`) | registered keys and their actions, a channel | register as the settings say, forward presses | a listener thread, Windows, settings |
| Panic notifier, auto start, command line | a channel; nothing; nothing | forward; install a task; one call | libraries and external programs |

What is hard about it, component by component, and the properties that make it right:

- **Settings store.** The save thread writes without the mutex, so everything may change under it: a new value, a failing
  operation, a close, the end of the process. Right means: the file is always a whole version, never an older one than
  before; every change is eventually in it; no error is forgotten; closing never hangs; there is one writer.
- **Timers.** Three threads and no common lock. Right means: what was cancelled or armed again stays silent but for a notice
  on its way, what is armed fires, a late interval does not come in bursts, and no wakeup of the executor is lost.
- **Desktop tracking.** Events describe the past, Windows answers for the present, and sometimes not at all. Right means:
  once everything told is handled, the count and the icon are those of Windows.
- **Dynamic UI.** Controls are appended to menus, so order is a matter of building again in the right order, while events
  keep arriving, during the building or inside an open menu. Right means: at rest every menu is complete, in order and current,
  and it comes to rest.
- **Configuration window.** Two threads edit the same settings; notices and windows disappear. Right means: both sides
  end up with the same settings and neither overwrites what it has not seen.
- **Rules in the configuration window.** Filling a control posts the same message as typing into it, and rows are matched with rules by
  place. Right means: each edit reaches its rule and nothing else does; rows, panel and rules are the same rules.
- **Shortcuts field.** The text is parsed after the keys and rewritten by the result. Right means: what the field shows is what is set.
- **Window rules.** Right means: a pattern matches what its lines say, and an exported rule comes back as it was.
- **Filters.** Requests are merged while the thread works; windows are hidden for seconds. Right means: the latest list wins, no request is
  dropped, every hidden window is shown again.
- **Quick switch.** Right means: the number of a desktop leads to that desktop, for every number of desktops.
- **Smooth switching.** Timers of an earlier switch meet the window of a later one. Right means: a window lives as long as its own switch
  needs it, and the focus is never left with a menu that is gone.
- **Elevation.** The child confirms, fails or exits while the parent waits for three things at once. Right means: one of the two goes on, and
  the parent never waits for ever.
- **Hotkeys.** Registering fails halfway, other programs come and go, the control that presses are reported to is rebuilt. Right means: what
  is registered is known, what is known is what the settings say, a press is handled.

`PROJECT.json` lists every hazard at the line where it bites, with the properties that cover it.

## 2 The modules

| Module | Models |
|---|---|
| `DurableSettings` | abstract: what the settings file promises to whoever reads it |
| `SettingsSaver` | the settings plugin, its save thread and the two files, in detail |
| `TimerThread` | the timer thread, `FastTimerControl`, `WaitFut`, `block_on` and `simple_join` |
| `DesktopTracking` | the tray's count, index and icon, and both sources of desktop events |
| `DynamicUi` | the plugin list, its event queue and rebuilding, with the plugins of the context menu |
| `ConfigSync` | the configuration window's thread and the program exchanging settings, with the debouncer |
| `WindowRules` | the rules for windows: matching, first action, XML; operators only |
| `FilterEditor` | the list of rules and windows in the configuration window and the panel of the selected rule; uses `WindowRules` |
| `ShortcutsField` | the field for the quick switch menu's shortcuts; uses `WindowRules`' lines |
| `TextFields` | what is required of `WindowRules`' operators, for the texts that `ShortcutsField` reaches |
| `ApplyFilters` | the thread that applies the rules for windows and stops windows from flashing, with its queue and exit |
| `QuickSwitch` | the tree of submenus and what keys lead to in it |
| `SmoothSwitch` | the invisible window, its timers and notices, the context menu that is shown again |
| `MenuSwitch` | `QuickSwitch` and `SmoothSwitch` composed: from the keys typed into the menu to the switch |
| `Elevation` | both threads of `set_elevation`, the child and their connection |
| `Hotkeys` | the hotkeys plugin, its listener thread and what Windows has registered |
| `SettingsSaverProofs`, `ConfigSyncProofs`, `DesktopTrackingProofs`, `ApplyFiltersProofs`, `DynamicUiProofs` | the theorems about the module of that name |
| `EditorsProofs` | the theorems about `FilterEditor` and about `TextFields`, with `ShortcutsField` and `WindowRules` |
| `TimersProofs` | the theorems about `TimerThread` and about `MenuSwitch`, with `QuickSwitch` and `SmoothSwitch` |
| `OtherProcessesProofs` | the theorems about `Elevation` and `Hotkeys`, which deal with other programs |
| `MC...` | the instances that TLC checks |

Operators that start with *Mutant:* in their comment are plausible bugs of the definition after them. Each property has one
that breaks it, so that it is known to say something about the code; the models never use them.

### SettingsSaver

The grain is the critical section: what a thread does between taking the mutex and its next unlock or wait is one action, and each
file operation of `save_settings_inner`, done without the mutex, is one. `ui` and `thread` are where the two threads are;
`settings`, `settings_in_file`, `should_close`, `ui_state`, `save_path` are the fields of `UiSettingsPluginState`; `latest_saved` and
`result` are locals of `background_work`; `file` and `temp` are the two paths. A settings object is a value and a revision, which
stands for the identity of its `Arc` (`Arc::ptr_eq`), because the code compares both ways.

| Action | Code |
|---|---|
| `StartProgram` | `with_save_path_next_to_exe`, `load_data`: also without a path, with an unreadable file, with one that is not JSON |
| `StartBackgroundWork`, `BeforeRebuild` | `after_partial_build`, `before_rebuild` |
| `Set`, `ShowErrors` | `set`, `on_background_error` |
| `BeginClose`, `NotifyClose`, `Join` | `close_background_thread`: under the mutex, after it, and the join |
| `Crash` | the process is killed; files stay |
| `BeginSave`, `RemoveTemp`, `CreateTemp`, `WriteTemp`, `RenameTemp`, `Commit` | `save_settings_inner`, each file step may fail |
| `Relock`, `PostNotice`, `EndCooldown`, `WakeUp`, `SpuriousWakeUp`, `LeaveLoop` | `background_work` |

A timed wait may end at any moment. A notification reaches the thread only while it waits (`woken`), and is lost otherwise, as with a
condition variable. `DurableSettings` has no threads, locks or temporary files: a draft is taken, then published whole or given
up. Under the mapping `stored <- file`, `memory <- Memory`, `draft <- Draft` every step of `SettingsSaver` is a step of it or a stutter.

### TimerThread

Each load, store, send and receive that another thread can see is an action. `times` is the `BTreeMap` as a set of requests whose times
differ: `Receive` replaces an entry with the same time, as `insert` does, and remembers the callback that is lost in `lost`.
A signal is one `Arc<AtomicBool>`; `armed` is the set of those that hold `true`, `latest` the one a timer holds. The executor runs
`simple_join` over `Tasks`; `unparked` and `token` are the flag of `ThreadNotify` and the thread's park token. Whatever else the program
asks the timer thread for is `OtherRequest`, of any number and at any pace, which `RunOther` runs. `late` and `stale` are history: whether a callback was past the
load of its signal when its timer was cancelled or armed again, and how many notices a timer has posted since for what it was armed for before.

### DesktopTracking

`desktops`, `current` and `available` are Windows'; `events` is what was sent and not handled, through the channels of the static
plugin or, with `library`, as posted messages, of which there are only switches. A handler is one action, since the UI thread runs it to its
end. `excused` is a history variable: it collects the reasons for which the program cannot know (nobody listened, Windows did not
answer, a desktop was shifted without an event), and, under names of their own (`"count dropped"`, `"index dropped"`), the events that the program's own
rebuild of the plugin threw away with the old channel (`core/tray_plugins/desktop_events.rs:38-63`). A successful answer takes an excuse away. The invariants say that no
*other* reason exists for a wrong count or icon; that a rebuild is one is a weakness of the code and stated as such (`CacheSurvivesRebuild`, section 5).

### DynamicUi

`pc` follows `preform_action_and_maybe_rebuild`: `loop`, `check`, `next` (the next plugin to rebuild), `visit` (looking through the
list), `hooks` (a plugin is taken out and built), `bind`; `modal` is a handler that opened the context menu. An event that arrives
during `hooks` is queued (`Delay`), one during `modal` is handled inside the outer handler (`NestedArrive`), where the list
cannot be locked. `menu` is what each plugin's menu holds, in the order in which it was appended. The plugins are
those of the context menu, in the order of `run_gui`: the root, top items, quick switch submenu, quick switch items (in the
submenu or the root), flat items, bottom items. A rebuild of the root clears all menus. `shortcuts` stands for both settings that the quick switch menu compares beside
its mode (`menus.rs:811-814`); it takes them whenever it is asked to be built (`TakenShortcuts`), also when it is then not built, since otherwise a disabled menu would ask again for ever.

### ConfigSync

The grain is what a thread does between two unlocks of `SharedStateMut`, because the window reads the shared settings under one lock and
writes them under another. `shared` is `SharedStateMut`; `settings` and `expected` are the UI thread's (the debouncer's `new_versions`);
`loaded`, `panel` and `draft` the window's: `loaded_settings`, what its controls show, and the copy `update_settings` is changing. `notices`
and `messages` are the posted messages in each direction. As in `SettingsSaver` a settings object is a revision, its `Arc`'s identity, and a value,
since `set` compares values and everybody else pointers.

| Action | Code |
|---|---|
| `ChangeInMenu`, `NotifySettingsChanged` | a menu plugin's `update`; `set` ends in `on_settings_changed`, in the same call of the UI thread |
| `HandleNotice` | `on_notice_settings` with `track_unpublished_version` and `set` |
| `ToggleWindow`, `OpenWindow`, `DropConfigWindow` | `configure_filters`, `drop` |
| `BeforeRebuild`, `AfterPartialBuild` | the hooks of the same names; notices posted before are lost |
| `ReadSettings`, `ShareWindow`, `CreateWindow`, `WmCreate` | `WinsafeSettingsWindow::new`, `run`, `wm_create` |
| `StateChanged`, `WmClose`, `UserCloses`, `DropWindow` | the `STATE_CHANGED` handler, closing, `drop` |
| `PostChange`, `SettingChanged`, `EditFilters` | a control changes, `on_setting_change`, and every other user of `update_settings` |
| `Publish`, `ReloadFromSettings` | the second half of `update_settings` |

A window that was replaced by a new one before it ended (`OpenWindow` while its state is `Closed`) can only still post a notice (`orphan`). The
debouncer's `gc` is left out: it only forgets objects that nobody holds, which can never become the settings. The notice that asks
to apply the filters carries no settings and is left out. `chosen`, `author` and `silenced` are history variables for the properties.

### ApplyFilters

The thread's steps are those of its channel and the loop over the windows, one window at a time; a step of a window's future is what it does between two
awaits. `jobs` is `windows_to_prevent_flashing`, `info` is `WindowInfo::virtual_desktop`, as old as the list of windows. `shown`, `pin` and `place` are
Windows'; a window that was told to hide or to appear does so when its program handles that (`Hides`, `Appears`), and appears on any desktop.

| Action | Code |
|---|---|
| `RequestFilters`, `RequestStop` | `SystemTray::apply_filters`, `stop_flashing_windows`; the first one starts the thread |
| `DropSender`, `Join` | `LazyThreadInfo::drop` |
| `Recv`, `TryRecv`, `Leave`, `ListWindows` | `background_work`, and the list of windows it applies a batch to |
| `LeaveWindow`, `MoveWindow`, `UnpinAndMoveWindow`, `UnpinWindow`, `PinWindow` | the loop of `apply_filters`, by the action of the window's rule |
| `StopFlashing`, `EndStopping` | `stop_flashing_windows_blocking` |
| `Start`, `Hide`, `StillHiding`, `ShowAgain`, `PlacedRight`, `TryToPlace` | `stop_flashing_window`, between its awaits |
| `LoseDelay` | the timer thread's map drops a delay whose `Instant` is another request's (`core/nwg_ext.rs:1224`); the future is never polled for it again |

Which rule matches a window is not computed: a list of rules is a function from windows to rules. A rule may name a desktop that is not there (`Missing`) or a number
that is no `u32` (`BeyondU32`): in the first case the move fails, in the second there is none. A desktop is compared as the code compares it: one that
a rule names is an index, one that Windows tells a GUID, and `==` on the enum never takes one for the other. So "Is at the right place!" (`core/vd.rs:990`) is
only reached for windows that are put back where they were, and all others get every attempt. `unserved` and `wanted` are history variables: requests no
batch has taken care of, and where the last batch wants windows to be, unless somebody else moved or hid them or the last attempt to move them fails.

### FilterEditor

A handler of the window's thread is one action; the race between the two locks in `update_settings` is `ConfigSync`'s. Windows hands
out posted messages before input, so the user acts only when `messages` is empty. `Posted` is the heart of the matter: what the panel's controls
post when they are filled. `rows` keeps the index that is stored in each row beside the rule it shows, since the code finds the one by the other.

| Action | Code |
|---|---|
| `EditPanel`, `TypeIndex`, `Activate`, `ColumnClick` | the controls' events, `lvn_item_activate`, `lvn_column_click` |
| `OnCreateNew`, `OnDelete`, `OnMoveUp`, `OnMoveDown`, `ImportFilters` | the buttons, each with `update_settings` and `populate_filter_list` |
| `OnOptionChange`, `IgnoreOptionChange`, `OnIndexChange`, `OnStateChanged` | the handlers of posted messages |
| `Refresh`, `OnWindowInfo`, `OnAllWindowInfo` | `gather_window_info` and the handler of `WINDOW_INFO_AVAILABLE` |
| `SendWindow` ... `EndThread` | the thread that lists windows |
| `Publish`, `RollBack` | what `ConfigSync` does with the shared settings, as far as the rules go |

`wanted` is a history variable: the rules as the user has left them. `crossed` records that the program took rules back while a message was pending, an edit's or one
of the panel's own, that will write something else over them (`WritesTakenBack`), and ends when that message has been handled: `wanted` is then what it has written. `mismatched`
records that a list was sorted when it was updated (section 5), and ends when the rules change with every row in its place again.

### ShortcutsField, WindowRules, TextFields

They translate texts. A character is one byte and a text a sequence. `Type` inserts a keystroke anywhere, `Erase` takes a character away, also one half of
a line end; `OnSettingChange` parses and writes back, as `on_setting_change` does, also when another control caused the message. A `BTreeMap` writes its
keys in their order, of which the model only keeps that there is one (`Format`). Loops over a text are recursive functions of the place in it (`Without`,
`SplitLines`, `JoinLines`, `Number`, `DigitsOf`); in `LinesAreIn`, as in the code, what is left of the title after each line is the next `Left`, a set of at
most one text. An `Option` is a set of at most one element throughout.

`TextFields` has no behaviour of its own: it says of `CheckNewlineGlob` and of `ToXml` and `FromXml` what they must compute, for `text` as the pattern. `PlacedIn`
is the reference definition of a match, without a loop: places for all lines.

### QuickSwitch, SmoothSwitch, MenuSwitch

`QuickSwitch` builds the menu as the code does, one entry of `call_queue` at a time, and then lets keys walk in it. `SmoothSwitch` is the invisible window: a switch is
`moving` or `retrying` while the program handles notices that come in the meantime, as its comment says it must expect. `MenuSwitch` joins them where the code
does: an item is handled when its menu is closed, a space while it is open.

| Action | Code |
|---|---|
| `CreateLeafMenu`, `CreateFullMenu`, `CreateTrailingItems`, `CreateTrailingSubmenus` | the branches of `_create_quick_switch_menu` |
| `Descend`, `Backspace`, `ChooseItem`, `ChooseSoFar` | access keys, `BackspaceAsEscapeAlias`, `get_clicked_desktop_index`, `on_menu_key_press` |
| `SwitchByLibrary`, `SwitchByWindow`, `Retry`, `MoveFails`, `MoveSucceeds`, `ShowClosedWindow` | `switch_desktop`, `switch_desktop_to` |
| `FireClose`, `OnCloseTick`, `FireRefocus`, `OnRefocusTick` | the timers of `SmoothDesktopSwitcher` and their notices |
| `OpenContextMenu`, `ReopenContextMenu`, `MenuClosed`, `FireReshow`, `Reshow`, `IgnoreReshow` | `reshow_menu`, `notify_tray_menu_closed`, `notify_reshow_tray_menu_delayed` |

History: `on_its_way` (the window was created with a close notice in the queue), `cut_short`, `skipped` (a refocus tick found a window, not shown yet or shown
but without the focus since the menu was shown again, and gave nothing back; until the next switch or menu).

### Elevation

Each call that another thread or process can observe is an action. `backlog` is the listener's; `shared_stream` is what the mutex between the two threads holds. The
child may end at any time; `Fail` marks calls that Windows can fail. `unwatched` and `stuck` record the failures after which the program can no longer
know of the child, or no longer reach its own thread in `accept`. The atomics are taken to be sequentially consistent, as mutex, socket and channel between them make them.

### Hotkeys

`held` is what Windows has registered for the program, `registered_hotkeys` and `action_lookup` what the plugin knows. `heard`, `events` and `notice` are a press on
its way: in the library's channel, in the plugin's, as a posted notice. `left` and `refused` are history variables: hotkeys that a failed registration
has left registered, and what other programs held when it was last tried.

## 3 The runs

| Run | States | Checks |
|---|---|---|
| `settings` | 69 501 | the refinement and the liveness of `SettingsSaver` |
| `timers` | 304 329 | stale and bursting timers, lost wakeups |
| `desktops` | 1 323 678 | count and icon of `DesktopTracking` |
| `ui` | 498 188 | `DynamicUi` at rest, and that it gets there |
| `config` | 761 785 | both sides of `ConfigSync` |
| `filters` | 364 566 | requests, hidden windows and places of `ApplyFilters` |
| `editor` | 346 979 | rules, rows and panel of `FilterEditor` |
| `switch` | 125 299 | `MenuSwitch`, from the keys to the focus afterwards |
| `switch_space` | violation | `SpaceIsTheNumberSoFar` |
| `elevation` | 473 | all orders of two threads, a child and two failures |
| `hotkeys` | 77 056 | registered, known and wanted hotkeys, and presses |
| `texts` | 24 375 | the shortcuts field, globs and XML |

**Settings.** `ImplementsDurableSettings` says that the file is always a whole version and only replaced by a newer one that differs;
`EveryChangeIsSaved` and `CloseEnds` that changes reach the file and closing ends. The invariants behind them are proved (section 4) and not
run. Two values and four revisions let a save be overtaken
twice and a value return to what the file holds (an equal value in a new object); two failures let the temporary file be left behind and found again;
two runs of the program let a kill be followed by a load of what it left.

**Timers.** `OnlyLateIsStale` says that what was cancelled or armed again stays silent, wherever its request is, except for the one notice of a callback that was past
its load by then (section 5); `NoBurst` that a late interval makes up for one tick
at most; `TimerFires` and `DelayEnds` are the liveness, for requests that share no instant with another. `TimerFires` is about timeouts and intervals, each of whose
requests is followed by a later one, and about the rest of the program, which may send requests without an end: they are due at once, so that each of them could be
received before the thread looks at the clock. One timer armed twice is
enough for a stale callback, the clock of three for an interval that is late by more than a tick, one task for every race of a wakeup with the executor's poll and park. Two things
are not reached: a wake that finds `unparked` set already, which takes two tasks; and requests of the rest of the program before the instant 2, which the bound `OthersFrom` leaves
out to keep the run small: by then timers armed earlier are due or late, and there is time left for new ones.

**Desktops.** Three desktops, three changes, one outage, with and without the DLL: enough for a removal of the current desktop while a
switch is queued, a switch to a desktop not yet counted, and a rebuild between them, which drops what is queued. `CountTracksWindows` is about the static listener only:
the poll cannot promise the same (section 5).

**UI.** Two counts, two maps of shortcuts, all three modes and four events, at any point of a rebuild: enough for two invalid plugins of which one is the parent of
the other, for a quick switch menu that moves out of a menu that is removed in the same rebuild, and for a rebuild
of the root on top of it. `MenuInOrder` says that every menu at rest holds exactly what belongs there, in the order of the list, `MenuIsCurrent` that it was built
from the present mode, shortcuts and count, `ComesToRest` says that it gets there.

**Configuration window.** `WindowShowsDesired`: no change is missed while the window is created or updated; `OnlyOthersRollBack`: a wish is
not rolled back by the publication of an earlier one; `Converges`: both sides end up alike. Two choices; three changes for one that is being
published, one the window makes meanwhile and one from the menu; three uses of the tray icon to close the window and open another before the first
thread has ended; one rebuild.

**Filters.** `NothingForgotten` says that merging loses neither the newest list nor the wish to stop windows from flashing of
a list that was replaced; `ExitShowsWindows` and `ExitEnds` that leaving waits for hidden windows and ends; `HiddenReappear` that a program that is slow
to hide its window does not lose it, these last two unless the timer thread loses the delay that is waited for; `WindowsWhereWanted` that windows end up on their desktops wherever they appear, if they do before the last
attempt to move them, half a second after they were shown. A window that is later is given up by the code and excepted, and so are windows that
had no desktop of their own when they were listed, pinned ones among them. Two windows, so that futures
interleave, of which one is pinned or belongs to a pinned program; three lists that between them use every action that does something, a desktop that is not there and a number that is none; two requests, so that one is merged with or waits for
the other; one event of a program or the user at any step. The ten checks for a hidden window and the five attempts to move it
are two each: the first time and the last. A mutant that gives up after the first attempt breaks `WindowsWhereWanted`.

**Editor.** `EditsReachTheirRule` compares, whenever no message is waiting, the rules with what the user has made of them: filling the panel
posts the same messages as editing it, and none of these may write a rule. Where rules were taken back under such a message it says that panel, rules and what the message
wrote agree in the end. `RowsMatchFilters` says that each rule has a row that shows it, however often the list was sorted, and of lists not sorted when they were last updated that
the row selects its rule; `WindowsShowRules`, of the same lists, is about the window list after rules changed while it was gathered; `RefreshServed` about a
refresh asked for meanwhile. Two rules of different titles and actions, room for a third, two open windows, three inputs: select, change
and move a rule; one roll back.

**Switch.** `DigitsAreTheNumber` compares, for nine numbers of desktops around 10, 100 and 200 and every desktop of each, the digits that lead to a
desktop with its number: they are its digits, all or without some zeros; `EveryDesktopIsReached` says, of each finished menu, that wherever the first digits
of a desktop's number have led, the next digit leads on and to nothing else, the last one to the desktop. The instance of 12 desktops has two
switches and two uses of the menu, so that a second switch finds the window and the timers of the first: `WindowIsNotCutShort`, `FocusReturns`. With other numbers one use is enough, because
the rest does not depend on the number.

**Elevation.** Every order of the two threads, the child and two failing calls. `OneGoesOn`: the program exits only for a child that runs, and goes on only
without one, or when a call that watches it failed; `ElevationEnds`: it never waits for ever, unless the connection that unblocks its own `accept` fails.
The model has few states because each thread is nearly sequential; two failures are enough for one on the way and one in the clean-up.

**Hotkeys.** Two hotkeys, of which any may be held by another program, be equal, or be no hotkey at all; one press at a time on its way to the listener thread, two from there to the UI thread.
`RegisteredIsKnown`, `HotkeysFollowSettings` and `PressIsHandled`.

**Texts.** Texts of up to three characters, of two letters, one digit and newlines, numbers up to 11 (so that one has two digits). `FieldShowsShortcuts` and
`SelectionOffNewlines` are about the field when nothing is waiting and after it was rewritten; `GlobIsSplit` and `XmlKeepsRules` take the same texts as patterns
of a rule and check the operators of `WindowRules` against what they are meant to compute: for all titles of up to three letters, so that a line can occur more than once and
where another one must, and for rules with each action and all combinations of ranges.

**Deadlock** is checked for `hotkeys` and `texts`, where something can always happen. In the other models the program may stop for good (it has
exited, the clock has reached its bound, the user does nothing more), and the liveness properties say instead that no thread waits for ever.

**Bounds.** `MaxRev`, `MaxFailures`, `MaxRuns`, `MaxTime`, `MaxSignals`, `MaxSleeps`, `MaxChanges`, `MaxOutages`, `MaxEvents`, `MaxOpens`,
`MaxRequests`, `MaxRebuilds`, `MaxRules`, `MaxInputs`, `MaxRollBacks`, `MaxUses`, `MaxPresses`, `MaxText`, `OthersFrom` and `MaxOthers` only stop the
environment (the user, Windows, the clock, failures); no step of the program is guarded by one. `MaxTarget` is the code's `u32::MAX`, made small. What section 4 proves does not depend on them.

**Fairness.** Weak fairness of each thread: a thread that can take a step takes one, because the scheduler runs it, and the
UI thread dispatches its messages. Timed waits end and the clock goes on. What users, failures and kills do is never fair. Spurious
wakeups are possible and not needed. In `DynamicUi` the user closes the menu some time. In `ApplyFilters` nothing is assumed of other programs,
and a delay ends unless the timer thread has lost it (`LoseDelay`, which `TimerThread` shows to be possible). In `FilterEditor` the handlers and the thread that lists windows are fair. In `MenuSwitch` timers fire, notices are
handled, a call of the library ends, and Windows closes a menu that was told to close. In `Elevation` both threads are fair and the child is not: it may hang. In
`Hotkeys` the UI thread and the listener are.

## 4 The proofs

`SettingsSaverProofs` proves, for every set of values and all bounds, assuming only `SettingsAssumption` (`Default \in Values`, the bounds are
natural numbers):

| Theorem | States |
|---|---|
| `TypeCorrect` | `Spec => []TypeOK` |
| `NeverTorn` | `Spec => []FileNeverTorn` |
| `CacheIsRight` | `Spec => []CacheMirrorsFile` |
| `ErrorsAreAnnounced` | `Spec => []QueuedErrorsAnnounced` |
| `OneSaveThread` | `Spec => []NothingToFinishClosing` |
| `SavesInOrder` | `Spec => NewerReplacesOlder` |
| `SavesOnlyChanges` | `Spec => NoRedundantWrite` |
| `Implementation` | `Spec => ImplementsDurableSettings` |

The properties are not inductive by themselves. That the file is never torn needs to know what is in the temporary file when it is renamed: a
complete copy of `latest_saved`, because only `CreateTemp`, which insists on there being none, and `WriteTemp` lead there. That versions
only get newer needs the order of revisions: nothing in memory is newer than `last_rev`, `latest_saved` is not newer than `settings`, and
during a save the file is older than `latest_saved`. The order in turn needs one save thread at a time, which is
`NothingToFinishClosing`: the join, and the guard of `start_background_work`. The inductive invariant is the
conjunction of these parts, each with one lemma per group of actions; the action properties and the refinement follow from it,
step by step.

`ConfigSyncProofs` proves, for every set of choices and all bounds, assuming only `ConfigAssumption`:

| Theorem | States |
|---|---|
| `Typing` | `Spec => []TypeOK` |
| `OldIsCurrent` | `Spec => []OldTracksSettings` |
| `NoWishForgotten` | `Spec => []UnpublishedIsAnnounced` |
| `WindowUpToDate` | `Spec => []WindowShowsDesired` |
| `NewerWishesSurvive` | `Spec => OnlyOthersRollBack` |

`OldTracksSettings` says that the UI thread always decides on the current object (and that the branch at
`winsafe/lib.rs:224-235` is never taken: `set` tells the plugin at once); `UnpublishedIsAnnounced` that a wish waits for nothing but an event on its way.
The inductive invariant `IInv` has three parts beside the types. `Identity`: equal revisions are equal objects, none is newer than `last_rev`, so
a new object is one nobody holds. `AgreeInv`: `old` is the program's object except inside `set`, where the debouncer knows whose the
change is (`author = "window"` exactly if it was requested) and the change is news; and what `update_settings` is about to write is
seen by nobody. Without the last, a notification could be taken for one of the window's own. `ShownInv`: while the window reloads its own change, that
change is the wish or a message is on its way; this is what makes `WindowShowsDesired` survive a rollback between write and reload.
`OnlyOthersRollBack` is a step of this invariant: only a change that was not requested resets `new`, and then `author` is `"menu"`.

The other six modules each prove that their inductive invariant holds, and from it:

| Module | Assumes | Theorem | States |
|---|---|---|---|
| `TimersProofs` | `TimerAssumption` | `TimerTypes`, `SilentAfterCancel`, `IntervalsNeverBurst` | `Spec => []TypeOK`, `[]OnlyLateIsStale`, `[]NoBurst` |
| | `QuickSwitchAssumption`, `MenuSwitchAssumption` | `MenuSwitchTypes`, `NotCutShort`, `DigitsLeadToTheirNumber`, `DigitsLeadToEveryDesktop` | `MenuSwitchSpec => []MenuSwitchTypeOK`, `[]WindowIsNotCutShort`, `[]DigitsAreTheNumber`, `[]EveryDesktopIsReached` |
| `DesktopTrackingProofs` | nothing | `Types`, `CountTracked`, `IconTracked` | `Spec => []TypeOK`, `[]CountTracksWindows`, `[]IconTracksSwitches` |
| `DynamicUiProofs` | `CountAssumption` | `Types`, `MenusInOrder`, `MenusCurrent` | `Spec => []TypeOK`, `[]MenuInOrder`, `[]MenuIsCurrent` |
| `EditorsProofs` | `EditorAssumption` | `Types`, `RowsAreTheRules`, `WindowsAreCurrent`, `EditsArrive` | `Spec => []TypeOK`, `[]RowsMatchFilters`, `[]WindowsShowRules`, `[]EditsReachTheirRule` |
| | `FieldAssumption`, `TextFieldsAssumption` | `FieldIsInStep`, `TextIsReadBack`, `SelectionStaysOff`, `GlobFindsEveryPlacement`, `RulesSurviveXml` | `FieldSpec => []FieldInv`, `[]FieldShowsShortcuts`, `[]SelectionOffNewlines`, `[]GlobIsSplit`, `[]XmlKeepsRules` |
| `ApplyFiltersProofs` | `FiltersAssumption` | `Types`, `NoRequestLost`, `NoWindowLeftHidden`, `InPlace` | `Spec => []TypeOK`, `[]NothingForgotten`, `[]ExitShowsWindows`, `[]WindowsWhereWanted` |
| `OtherProcessesProofs` | `ElevationAssumption` | `ElevationTypes`, `OneInstance` | `ElevationSpec => []ElevationTypeOK`, `[]OneGoesOn` |
| | `HotkeysAssumption` | `HotkeysTypes`, `RegisteredKnown`, `FollowSettings` | `Spec => []TypeOK`, `[]RegisteredIsKnown`, `[]HotkeysFollowSettings` |

- **Timers.** `UniqueInv`: of all places where a request can be (the channel, the map, the callback that is running), a signal is in at most one. With `OnlyLatestArmed`, that no older signal is armed, this leaves
  a cancelled timer at most the callback that is at its notice, which is `late`, and an interval of that kind finds its signal off the next time.
  `PaceInv` follows an interval: after one notice at an instant its next target is not before now, after two it is later, so there is no third.
  That the map has a first entry when it is not empty is `LeastNat`, the least element of a set of natural numbers.
- **Desktops.** `LastInv`: the last switch that is queued is about the desktop that is current now, unless Windows has moved it without telling; and an
  excuse is taken back only by that last event. The sequence lemmas say what `RemoveAt` and `InsertAt` leave where. TLC's three changes are too few
  for an earlier form of the history variable to fail: with five, an event about an older switch could take back the excuse for a newer one.
- **Filters.** `OrderInv`: the list a batch applies is older than all that wait, so that merging keeps the newest. `QueuedInv`: what no batch has taken care of is in the
  channel. `HiddenInv`: a window hidden by the program has a future that is at hiding it. `PlaceInv`: at each point of the thread a window is
  where its rule wants it, or it has a job to be moved there.
- **UI.** In the middle of a rebuild menus are neither in order nor complete, so the invariant says where they may not be. `OrderInv`: two controls of a menu
  are in the wrong order only while this pass over the list has still to visit the plugin of the one that is too early, whose controls it will remove and append again.
  `HoldsInv`: a menu holds, once, only controls that were built into it, and lacks one only if its plugin is to be built again (`Pending`: it waits in
  `rebuild_ids`, or this pass is about to build it). `BuiltInv`: a plugin's parent and count are those of its mode, or it is still to be built or
  visited. At rest nothing is pending and no pass is under way, which leaves the properties themselves.
- **Rules.** There are three ways in which the panel and its queue may stand. `Calm`: the panel shows the selected rule, so that whatever it has posted
  writes what is there already. `Typed`: another number was typed and the message that says so is next. `Edited`: the selected rule was edited and
  that message is next. A message is only harmless if it is handled in the state it was posted in, so the invariant also needs that rules which were taken back are
  loaded first (`LoadedFirst`). Sorting is a bijection between places (`Sorted`): its lemmas say that a row for every rule stays one.
- **Texts.** These are facts about loops, and the library's induction theorems are out of reach. What replaces them is `LeastNat` (a set of natural numbers has a least element,
  because `<` is well-founded there) and from it `CountUp`, which carries membership in a set from 0 to n, `BuildUp`, which does so along the beginnings of a text, and `Loop`: a recursive function over `0..n` has a value at each
  step, and each follows from the one before. So every operator gets its equations (`WithoutAppend`, `SplitAppend`, `NumberAppend`, `DigitsOfIs`...) and every fact about texts is shown for one more
  character. `DigitsReadBack`: a number is read from the digits it was written as. `FormatLines` and `FormatEntries`: splitting what was written gives a line for each key and an empty one, and each line
  its key and digits, since a key of letters has neither digits nor line ends; hence `FormatReadBack`. Conversely what is parsed is again such a map (`ParsedIsMap`), which makes
  `FieldInv` inductive. `NewSelectionFits` goes through the cases of the repaired selection.
- **Patterns.** `GlobIsPlaced`. With `EndsOf(k)` the places where the first k lines can end, in whatever way they are placed before the last line's start, `LeastEnds` shows that the least end of k + 1 lines is
  found from the least end of k lines alone, for any later start leaves less of the title; the loop's `Left` is the rest after the least end (`LeftEnds`), so it is empty exactly if no placement exists. Lines
  at the ends come first because their places are fixed.
- **XML.** `JoinSplit`: joining undoes splitting. `SameGlobLines`: a text whose carriage returns stand before newlines has the same lines with and without them, since the glob trims them anyway; so the
  exported pattern matches the same titles. Ranges and actions are by cases.
- **Switch.** The close timer is armed for the window that exists or not at all, so its notices since the window was created are its own.
- **Quick switch.** `TreeInv`: a submenu begins with its parent's digits and one more, or, where a digit would lead nowhere, with a zero and one more; a
  menu in the queue has as many digits left as the numbers of desktops have after it. `PathInv`: exactly one sequence of keys leads to each menu, and it is the menu's digits
  or what is left of them without some zeros. The rest is arithmetic: `OneDigitMore`, `OneZeroMore` and `OneKeyMore` say what appending a digit does to a number and to
  its digits, `KeyOfDigit` that the key which is computed from the first number of a range is the digit that tells it from the others.
  For the converse, `CompleteInv`: a menu in the queue is empty, and is filled once, all at a time; what fills it leads on for every number that begins
  as the menu does, each next digit to one thing (`OneMeaning`), although two ranges fill one menu where there are numbers with and without leading zeros. That
  the digits of a number lead straight down this tree is `LeadsStraight`, by the first digit that would not. `QuickSwitchAssumption`
  allows numbers of up to nine digits: with ten, the products in `create_submenus` do not fit into their `u32`. Windows has far fewer desktops.
- **Elevation.** `ReasonInv`: everything that makes the parent give up (an end of file, an error, the child's exit) has a reason in the child or in a
  failure. `AcceptorInv`: what the two threads share belongs to where the acceptor is.
- **Hotkeys.** The two properties are inductive together with the types: `register_all` fails on the second hotkey with the first registered
  (`RefusedReason`), and a successful one leaves exactly `NewHotkeys`.

Proved and not run by TLC, since they would only repeat it: the types of `TimerThread`, `DesktopTracking`, `ApplyFilters`, `Elevation` and `Hotkeys`, and the parts of `SettingsSaver` and `ConfigSync` in the two
tables that no run of section 3 names.

Only model-checked:

- Liveness (`EveryChangeIsSaved`, `CloseEnds`, `TimerFires`, `DelayEnds`, `ComesToRest`, `Converges`, `HiddenReappear`, `ExitEnds`, `RefreshServed`,
  `FocusReturns`, `ElevationEnds`, `PressIsHandled`), which depends on fairness and is out of this prover's reach.

Every invariant and every action property that a passing run checks is proved, and so is the one refinement; what is left to TLC is the liveness above. About the texts, the proofs are about the
model's characters, one byte each.

## 5 Where the code does not do what it says

One run is expected to end with a counterexample: `switch_space`. "Press `space bar` after entering `1`. This will interpret the currently entered keys as
the full number" (`../src/README.md:88`). The index of a submenu for a range keeps only the last digit of where the range starts
(`core/quick_switch.rs:225`), so with 29 desktops "2" and space lead to desktop 1.

The following were found in the same way. Each is a definition at the end of its module, of what the code says or relies on, which the model does not
satisfy: put it under `INVARIANTS` (or `PROPERTIES`, where it has `~>`) of that module's configuration to see how.

| Definition | The code says | What happens |
|---|---|---|
| `SavedAtExit` (`SettingsSaver`) | all settings are saved automatically (`../src/README.md:56`) | the save thread leaves at `should_close` without a last save, so a change in the second before a clean exit can be lost (`core/settings.rs:455-500`) |
| `CancelledIsSilent` (`TimerThread`) | "This will cancel any queued timeout or interval" (`core/nwg_ext.rs:1473`) | the callback loads its signal and posts its notice in two steps (`1496-1499`, `1515-1517`): cancelled between them, the timer still says it is over |
| `FutureBecomesReady` (`TimerThread`, with two tasks) | a delay "will become ready at the specified time" (`core/nwg_ext.rs:1250`) | not if another request has the same `Instant`: the map's `insert` drops the first callback (`1224`) |
| `CacheSurvivesRebuild` (`DesktopTracking`) | the rebuilt UI goes on with the count and index it had (`core/tray.rs:194`) | the rebuild of the event plugin replaces its channel with what waits in it (`desktop_events.rs:38-63`), and nothing asks Windows again: count and icon stay wrong until another event |
| `IconShowsCurrentDesktop` (`DesktopTracking`) | the icon "shows one-based index of current virtual desktop" (`../src/README.md:26`) | removing or moving another desktop changes that index without the event the tray listens to (`core/tray.rs:800`) |
| `LibraryCountIsPolled` (`DesktopTracking`, under `FairSpec`) | the library is called regularly to see whether the number of desktops has changed (`../src/README.md:78`) | the poll compares with the count *it* saw last, and the tray's count has a second writer (`core/tray.rs:802-810`): a desktop created, switched to and removed between two polls stays counted |
| `MenuChoiceStays` (`ConfigSync`) | "Someone else changed settings while our changes were pending, so ignore those changes" (`winsafe/lib.rs:225`) | `update_settings` (`winsafe/config_window.rs:1222-1237`) reads and writes under two locks: a change made in the menu between them is overwritten, and by then `old` is the current object |
| `UnpinnedAreMoved` (`ApplyFilters`) | "Move the window to another virtual desktop and if the window was pinned then unpin it first" (`core/window_filter.rs:526`) | it is unpinned, but the decision to move it looks at what was known before (`apply_filters.rs:68`), and it stays |
| `StoredIndexIsRowIndex` (`FilterEditor`) | the debug assertion "stored filter index should always equal row index" (`winsafe/config_window.rs:1295-1299`) | fails when a sorted list is updated; its rows then select other rules than they show, until the rules change while every row is in its place |
| `FillingWritesNothing` (`FilterEditor`) | messages that follow from filling the panel carry what the rule holds already (`winsafe/filter_options.rs:412-436`) | select a rule, delete it: the panel is filled with the next one and posts about it; if the deletion is taken back before that message is handled, it overwrites the deleted rule with a copy of the next (`winsafe/config_window.rs:1429-1447`) |
| `WindowGivesFocusBack` (`MenuSwitch`) | the refocus timer gives the focus back after a switch (`core/invisible_window.rs:168-194`) | a tick that finds the window of a switch, not shown yet or shown but without the focus since the menu was shown again, returns early (`174`) and is not repeated |
| `QuickSwitchHotkeyWorks` (`Hotkeys`) | "Global keyboard shortcut for opening the quick switch menu" (`core/settings.rs:287`); the configuration window says "Valid hotkey" of what can be parsed | if the second hotkey cannot be registered, the first stays registered and is forgotten, here and at the next attempts (`hotkeys.rs:202`); nothing tries again when the other program releases it |

Two more are in the models as the code has them. "Recheck count for about 2 minutes after startup" (`core/tray.rs:121`) has its comparison the wrong way round: within the
two minutes a recheck that learns nothing is the last (`CheckDesktopCount`). And a branch that "should not happen"
(`core/dynamic_gui.rs:695`) is reached by an event inside the open context menu (`NestedArrive`); `MenuIsCurrent` shows that no harm is
done, since the outer call rebuilds when the menu is closed.

Met on the way, in the models, and no disagreement with a doc:

- Configuration window: a change whose notice is handled after the window has closed is dropped with the shared state
  (`winsafe/lib.rs:215`); a click that should close a window still being created has no effect (`config_window.rs:251`).
- Rules: the program takes back rules while the message of an edit waits, which is then handled as a new edit (`crossed`; the message need not be an edit's, see above).
- Elevation: a failing call that watches the child lets both instances go on (`unwatched`); a failing connection to its own socket leaves
  the program waiting for its thread (`stuck`).
- Smooth switching: a close notice that is already on its way closes the window of a second switch early, and a switch that then wants to focus it
  panics (`panicked`).
- Quick switch: from 200 desktops on, the early return at `core/quick_switch.rs:323-326` leaves a submenu of ten submenus without the items for the shortcuts
  that are set.
- Shortcuts: `on_setting_change` erases a key that was typed before its number, and a key that contains digits is rewritten: "a1" with 5 becomes "a" with 15.
  The selection is read in UTF-16 units and used in bytes (`program_settings.rs:862`), which the model's one-byte characters do not show.

## 6 What is not modelled

- The fields of the settings, their JSON and its lenient parsing: one value, and a file that loads as it.
- Power loss: a killed process leaves what it wrote; there is no lost write buffer.
- The names of desktops (tooltip only), clicks on the tray icon, notifications.
- Plugins without a parent in the menu; opening submenus by posted keys.
- Layout, dialogs, tooltips and file choosers of the configuration window; imported numbers that a control would clamp; `is_data_sorted`, which is never
  true again after it was false and costs a sort.
- Where `WindowInfo` comes from: matching starts with a title, a process name, an index and a desktop. In `ApplyFilters` a list of rules is a function from
  windows to rules; which rule that is, is `FindFirstAction` in `WindowRules`. The older program's single-line `desktopTarget`.
- Characters of more than one byte. Shortcuts that others set have keys of letters: with digits or line ends, which only a settings file edited by hand can hold, the text that is
  written is read back as something else.
- The XML library: what it writes it is taken to read back, and a negative bound of a range, which the code's `i64` allows, is not tried.
- Elevation: connections from other programs to the socket, and the branch for a connection that is gone before `cancel`
  (`core/change_elevation.rs:173-178`), which no state reaches.
- Finding the context menu by its window class, which may find another program's.
- The panic notifier: a channel and a notice like the hotkeys', without their state. Auto start and the command line: one external call per
  operation. `core/vd.rs` beside `stop_flashing_window`: it forwards to `winvd` or the DLL, and both are environment, as general as the code's use of
  them allows. Tray icon drawing, the number control, message names for logging, and the alternative configuration windows, which the default
  build leaves out: no logic of their own that the parts above do not have.

## 7 Plan

Modelled: all parts that keep state between two messages. What is left, in the order of what it would tell:

1. The names of desktops and the tooltip in `DesktopTracking`: the same events, one more value that can be stale.
2. Larger instances: two timers with a shared instant, three windows in `ApplyFilters`, three hotkeys.
