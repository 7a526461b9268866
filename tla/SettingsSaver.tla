--------------------------- MODULE SettingsSaver ---------------------------
(***************************************************************************)
(* UiSettingsPlugin (settings.rs): the settings the program runs with, the *)
(* "UiSettingsSaveThread" that writes them to disk behind the UI thread's  *)
(* back, and the two files it writes.                                      *)
(*                                                                         *)
(* Two threads share one mutex.  A critical section is one action: between *)
(* a thread's taking of the mutex and its next unlock or condition-        *)
(* variable wait nothing else runs.  The file operations of                *)
(* save_settings_inner happen with the mutex released, one action each, so *)
(* the user may change a setting, the program may be closed, or the        *)
(* process may be killed between any two of them.                          *)
(*                                                                         *)
(* A settings object is a value and a revision.  The revision stands for   *)
(* the identity of the Arc: two objects are Arc::ptr_eq when revisions are *)
(* equal, and == when values are equal.  A file is what load_data makes of *)
(* it: a lenient parse or a migration is part of "val".                    *)
(***************************************************************************)
EXTENDS Naturals

CONSTANTS
    Values,         \* the settings the user can choose between
    Default,        \* UiSettings::default()
    MaxRev,         \* bound: how many settings objects are ever allocated
    MaxFailures,    \* bound: how many file operations ever fail
    MaxRuns         \* bound: how many times the program is started

ASSUME SettingsAssumption ==
    /\ Default \in Values
    /\ MaxRev \in Nat
    /\ MaxFailures \in Nat
    /\ MaxRuns \in Nat

VARIABLES
    ui,                 \* where the UI thread is
    thread,             \* where the save thread is
    settings,           \* UiSettingsPluginState.settings
    settings_in_file,   \* UiSettingsPluginState.settings_in_file
    should_close,       \* UiSettingsPluginState.should_close
    ui_state,           \* is UiSettingsPluginState.ui_state Some?
    save_path,          \* are both save paths Some?
    latest_saved,       \* background_work's latest_saved, save_settings_inner's new_data
    result,             \* what save_settings_inner returned
    woken,              \* notify_change reached a waiting save thread
    errors,             \* error messages in the channel to the UI thread
    notices,            \* OnNotice events for them in the UI thread's queue
    file,               \* the file at save_path
    temp,               \* the file at temp_save_path
    last_rev,           \* the newest revision allocated
    failures,           \* file operations that failed
    runs,               \* times the program was started
    misread             \* load_data could not read a file that was there

store == <<settings, settings_in_file, save_path>>
saver == <<thread, latest_saved, result, woken>>
channel == <<errors, notices>>
disk == <<file, temp>>
counts == <<failures, runs>>

vars == <<ui, thread, settings, settings_in_file, should_close, ui_state,
          save_path, latest_saved, result, woken, errors, notices, file, temp,
          last_rev, failures, runs, misread>>
-----------------------------------------------------------------------------
Object == [rev : Nat, val : Values]

Contents == [kind : {"absent", "garbage", "partial", "complete"},
             rev : Nat, val : Values]
NoFile == [kind |-> "absent", rev |-> 0, val |-> Default]
Garbage == [kind |-> "garbage", rev |-> 0, val |-> Default]
Torn(o) == [kind |-> "partial", rev |-> o.rev, val |-> o.val]
Whole(o) == [kind |-> "complete", rev |-> o.rev, val |-> o.val]

(* The settings load_data ends up with when it can read the file: defaults *)
(* when there is none or when even the lenient parse fails.                *)
Load(f) == IF f.kind = "complete" THEN f.val ELSE Default

Results == {"saved", "unchanged", "failed"}

Writing == {"remove", "create", "write", "rename"}
Waiting == {"cooldown", "waiting", "debounce"}
ThreadStates == {"none", "started", "commit", "relock", "notice"} \cup Writing \cup Waiting
UiStates == {"exited", "loaded", "running", "rebuilding", "closing", "joining"}

(* Only here does the save thread keep the mutex over two actions. *)
Locked == thread = "notice"

Init ==
    /\ ui = "exited"
    /\ thread = "none"
    /\ settings = [rev |-> 0, val |-> Default]
    /\ settings_in_file = settings
    /\ should_close = FALSE
    /\ ui_state = FALSE
    /\ save_path = FALSE
    /\ latest_saved = settings
    /\ result = "unchanged"
    /\ woken = FALSE
    /\ errors = 0
    /\ notices = 0
    /\ file \in {NoFile, Garbage} \cup {Whole([rev |-> 0, val |-> v]) : v \in Values}
    /\ temp \in {NoFile, Torn(settings)}
    /\ last_rev = 0
    /\ failures = 0
    /\ runs = 0
    /\ misread = FALSE
-----------------------------------------------------------------------------
(***************************************************************************)
(* The UI thread.                                                          *)
(***************************************************************************)

(* A fresh process: UiSettingsPluginState::default(). *)
FreshState ==
    /\ should_close' = FALSE
    /\ ui_state' = FALSE
    /\ thread' = "none"
    /\ result' = "unchanged"
    /\ woken' = FALSE
    /\ errors' = 0
    /\ notices' = 0

(* with_save_path_next_to_exe and load_data, once per run, before there is *)
(* a save thread.  current_exe() fails: no path and the defaults; the file *)
(* cannot be read: the defaults; otherwise what is in it.  One new Arc is  *)
(* both the current settings and those in the file.                        *)
StartProgram ==
    /\ ui = "exited"
    /\ runs < MaxRuns
    /\ last_rev < MaxRev
    /\ FreshState
    /\ \E found, readable \in BOOLEAN :
        /\ save_path' = found
        /\ ~found => readable
        /\ ~readable => file.kind # "absent"
        /\ settings' = [rev |-> last_rev + 1,
                        val |-> IF found /\ readable THEN Load(file) ELSE Default]
        /\ misread' = (found /\ ~readable)
    /\ settings_in_file' = settings'
    /\ latest_saved' = settings'
    /\ last_rev' = last_rev + 1
    /\ runs' = runs + 1
    /\ ui' = "loaded"
    /\ UNCHANGED <<disk, failures>>

(* after_partial_build: start_background_work under the mutex.  should_close *)
(* is only ever TRUE after ui_state was taken, so its "finish closing       *)
(* threads" loop finds nothing to do (NothingToFinishClosing).              *)
StartBackgroundWork ==
    /\ ui \in {"loaded", "rebuilding"}
    /\ ~Locked
    /\ should_close' = FALSE
    /\ ui_state' = TRUE
    /\ thread' = IF ui_state THEN thread ELSE "started"
    /\ ui' = "running"
    /\ UNCHANGED <<store, latest_saved, result, woken, channel, disk, last_rev, counts, misread>>

(* UiSettingsPlugin::set, called by menus and the configuration window.  An *)
(* equal value returns early: nothing changes.                              *)
Set(v) ==
    /\ ui = "running"
    /\ ~Locked
    /\ v # settings.val
    /\ last_rev < MaxRev
    /\ settings' = [rev |-> last_rev + 1, val |-> v]
    /\ last_rev' = last_rev + 1
    /\ woken' = (woken \/ thread = "waiting")
    /\ UNCHANGED <<ui, thread, settings_in_file, should_close, ui_state, save_path,
                   latest_saved, result, channel, disk, counts, misread>>

(* The OnNotice handler on_background_error shows every queued message. *)
ShowErrors ==
    /\ ui = "running"
    /\ notices > 0
    /\ errors' = 0
    /\ notices' = notices - 1
    /\ UNCHANGED <<ui, saver, store, should_close, ui_state, disk, last_rev, counts, misread>>

(* before_rebuild drops the receiver and the notice, and what is queued    *)
(* with them; the save thread keeps running with the dead sender until     *)
(* StartBackgroundWork gives it a new one.                                 *)
BeforeRebuild ==
    /\ ui = "running"
    /\ ui' = "rebuilding"
    /\ errors' = 0
    /\ notices' = 0
    /\ UNCHANGED <<saver, store, should_close, ui_state, disk, last_rev, counts, misread>>

(* Drop for UiSettingsPluginSharedStrong: close_background_thread sets the *)
(* flag and takes ui_state under the mutex, notifies after unlocking, and  *)
(* joins the thread.  The program may also leave before its UI was built.  *)
BeginClose ==
    /\ ui \in {"loaded", "running"}
    /\ ~Locked
    /\ should_close' = TRUE
    /\ ui_state' = FALSE
    /\ ui' = "closing"
    /\ UNCHANGED <<saver, store, channel, disk, last_rev, counts, misread>>

(* Mutant: only notify_close is notified. *)
NotifyCloseOnly ==
    /\ ui = "closing"
    /\ ui' = "joining"
    /\ UNCHANGED <<saver, store, should_close, ui_state, channel, disk, last_rev, counts, misread>>

NotifyClose ==
    /\ ui = "closing"
    /\ woken' = (woken \/ thread = "waiting")
    /\ ui' = "joining"
    /\ UNCHANGED <<thread, latest_saved, result, store, should_close, ui_state, channel,
                   disk, last_rev, counts, misread>>

Join ==
    /\ ui = "joining"
    /\ thread = "none"
    /\ ui' = "exited"
    /\ errors' = 0
    /\ notices' = 0
    /\ UNCHANGED <<saver, store, should_close, ui_state, disk, last_rev, counts, misread>>

(* The process is killed: memory is gone, the files stay as they are. *)
Crash ==
    /\ ui # "exited"
    /\ FreshState
    /\ ui' = "exited"
    /\ UNCHANGED <<store, latest_saved, disk, last_rev, counts, misread>>
-----------------------------------------------------------------------------
(***************************************************************************)
(* The save thread: background_work and save_settings_inner.               *)
(***************************************************************************)
SaverOnly == UNCHANGED <<ui, should_close, ui_state, save_path, settings, last_rev, runs, misread>>

(* The loop condition and the first critical section: leave when closing;  *)
(* nothing to do when the same object, an equal one or no path; otherwise  *)
(* go and write, without the mutex.  The 50 ms wait before it ends at      *)
(* any time: by its timeout, by notify_close or spuriously.                *)
LeaveLoop ==
    /\ thread \in {"started", "debounce"}
    /\ should_close
    /\ thread' = "none"
    /\ SaverOnly
    /\ UNCHANGED <<settings_in_file, latest_saved, result, woken, channel, disk, failures>>

SameData == settings.val = settings_in_file.val

BeginSave ==
    /\ thread \in {"started", "debounce"}
    /\ ~should_close
    /\ latest_saved' = settings
    /\ settings_in_file' = IF SameData THEN settings ELSE settings_in_file
    /\ IF SameData \/ ~save_path
       THEN thread' = "relock" /\ result' = "unchanged"
       ELSE thread' = "remove" /\ UNCHANGED result
    /\ SaverOnly
    /\ UNCHANGED <<woken, channel, disk, failures>>

Fail ==
    /\ failures < MaxFailures
    /\ failures' = failures + 1
    /\ thread' = "relock"
    /\ result' = "failed"

Proceed(next) ==
    /\ thread' = next
    /\ UNCHANGED <<result, failures>>

FileStep == SaverOnly /\ UNCHANGED <<settings_in_file, latest_saved, woken, channel>>

(* Serialize, then remove a left-over temporary file (there may be none). *)
RemoveTemp ==
    /\ thread = "remove"
    /\ \/ Proceed("create") /\ temp' = NoFile
       \/ Fail /\ UNCHANGED temp
    /\ UNCHANGED file
    /\ FileStep

(* OpenOptions::create_new refuses a file that exists. *)
CreateTemp ==
    /\ thread = "create"
    /\ \/ temp = NoFile /\ Proceed("write") /\ temp' = Torn(latest_saved)
       \/ Fail /\ UNCHANGED temp
    /\ UNCHANGED file
    /\ FileStep

(* Mutant: the settings are read again, after the mutex was released. *)
WriteTempCurrent ==
    /\ thread = "write"
    /\ \/ Proceed("rename") /\ temp' = Whole(settings)
       \/ Fail /\ UNCHANGED temp
    /\ UNCHANGED file
    /\ FileStep

WriteTemp ==
    /\ thread = "write"
    /\ \/ Proceed("rename") /\ temp' = Whole(latest_saved)
       \/ Fail /\ UNCHANGED temp
    /\ UNCHANGED file
    /\ FileStep

RenameTemp ==
    /\ thread = "rename"
    /\ \/ Proceed("commit") /\ file' = temp /\ temp' = NoFile
       \/ Fail /\ UNCHANGED disk
    /\ FileStep

Commit ==
    /\ thread = "commit"
    /\ settings_in_file' = latest_saved
    /\ result' = "saved"
    /\ thread' = "relock"
    /\ SaverOnly
    /\ UNCHANGED <<latest_saved, woken, channel, disk, failures>>

(* Mutant: wait for the next change without looking for a missed one. *)
NeverSuperseded == FALSE

(* Arc::ptr_eq(&latest_saved, &guard.settings): with nothing newer to save *)
(* wait for a change, else for 50 ms to batch changes.                     *)
Superseded == latest_saved.rev # settings.rev
WaitForWork ==
    /\ thread' = IF Superseded THEN "debounce" ELSE "waiting"
    /\ woken' = FALSE

(* Back under the mutex with the result. *)
Relock ==
    /\ thread = "relock"
    /\ ~Locked
    /\ IF should_close
       THEN thread' = "none" /\ UNCHANGED <<woken, errors>>
       ELSE \/ result = "saved" /\ thread' = "cooldown" /\ UNCHANGED <<woken, errors>>
            \/ result = "unchanged" /\ WaitForWork /\ UNCHANGED errors
            \/ /\ result = "failed"
               /\ errors' = IF ui_state /\ ui = "running" THEN errors + 1 ELSE errors
               /\ thread' = "notice"
               /\ UNCHANGED woken
    /\ SaverOnly
    /\ UNCHANGED <<settings_in_file, latest_saved, result, notices, disk, failures>>

(* Still under the mutex: the notice that follows the message. *)
PostNotice ==
    /\ thread = "notice"
    /\ notices' = IF ui_state /\ ui = "running" THEN notices + 1 ELSE notices
    /\ WaitForWork
    /\ SaverOnly
    /\ UNCHANGED <<settings_in_file, latest_saved, result, errors, disk, failures>>

(* The 1000 ms after a save end, by timeout, notification or spuriously. *)
EndCooldown ==
    /\ thread = "cooldown"
    /\ IF should_close THEN thread' = "none" /\ UNCHANGED woken ELSE WaitForWork
    /\ SaverOnly
    /\ UNCHANGED <<settings_in_file, latest_saved, result, channel, disk, failures>>

StopWaiting ==
    /\ thread = "waiting"
    /\ thread' = IF should_close THEN "none" ELSE "debounce"
    /\ woken' = FALSE
    /\ SaverOnly
    /\ UNCHANGED <<settings_in_file, latest_saved, result, channel, disk, failures>>

WakeUp == woken /\ StopWaiting
SpuriousWakeUp == ~woken /\ StopWaiting
-----------------------------------------------------------------------------
SaverStep ==
    \/ LeaveLoop \/ BeginSave
    \/ RemoveTemp \/ CreateTemp \/ WriteTemp \/ RenameTemp \/ Commit
    \/ Relock \/ PostNotice \/ EndCooldown \/ WakeUp

CloseStep == NotifyClose \/ Join

Next ==
    \/ StartProgram
    \/ StartBackgroundWork
    \/ \E v \in Values : Set(v)
    \/ ShowErrors
    \/ BeforeRebuild
    \/ BeginClose
    \/ CloseStep
    \/ Crash
    \/ SaverStep
    \/ SpuriousWakeUp

Spec == Init /\ [][Next]_vars

(* The scheduler runs both threads and a timed wait ends, so the save       *)
(* thread, a rebuild and a close that have begun go on.  Nobody has to     *)
(* change a setting, close the program or start it, a file operation never *)
(* has to fail, and a condition variable never has to wake spuriously.     *)
Fairness ==
    /\ WF_vars(SaverStep)
    /\ WF_vars(CloseStep)
    /\ WF_vars(StartBackgroundWork)
    /\ WF_vars(ShowErrors)

FairSpec == Spec /\ Fairness
-----------------------------------------------------------------------------
(***************************************************************************)
(* Properties.                                                             *)
(***************************************************************************)

(* Every variable has its type. *)
ControlTypeOK == ui \in UiStates /\ thread \in ThreadStates /\ result \in Results
ObjectTypeOK == settings \in Object /\ settings_in_file \in Object /\ latest_saved \in Object
FlagTypeOK == {should_close, ui_state, save_path, woken, misread} \subseteq BOOLEAN
CountTypeOK == {errors, notices, last_rev, failures, runs} \subseteq Nat
FileTypeOK == file \in Contents /\ temp \in Contents
TypeOK == ControlTypeOK /\ ObjectTypeOK /\ FlagTypeOK /\ CountTypeOK /\ FileTypeOK

(* However the steps of save_settings_inner are interrupted by failures,   *)
(* a close or a kill, the settings file is never half-written: only the    *)
(* temporary file is.                                                      *)
FileNeverTorn == file.kind # "partial"

(* The thread decides from settings_in_file whether there is anything to   *)
(* save.  Except between the rename and the assignment after it, that      *)
(* cached copy is what a restart would load, also after failed saves.      *)
CacheMirrorsFile ==
    ui # "exited" /\ save_path /\ ~misread /\ thread # "commit"
        => settings_in_file.val = Load(file)

(* Saves reach the file in the order the settings were set: a slow save    *)
(* never overwrites a newer one, not even one of an earlier run.           *)
NewerReplacesOlder ==
    [][file' # file => file'.kind = "complete" /\ file'.rev > file.rev]_vars

(* A file is only replaced when a restart would then load something else:  *)
(* reading the settings never rewrites the file, and a file too damaged to *)
(* be parsed stays for its owner to repair until a setting really differs. *)
NoRedundantWrite ==
    [][file' # file /\ ~misread => file'.val # Load(file)]_vars

(* A queued error message is never forgotten in the channel: the notice    *)
(* that makes the UI thread look is pending, or the save thread, still     *)
(* under the mutex, is about to post it.                                   *)
QueuedErrorsAnnounced == errors > 0 => notices > 0 \/ thread = "notice"

(* start_background_work never meets a thread it has to finish closing, so *)
(* its loop cannot wait, and no thread outlives a finished close: there is *)
(* never more than one writer of the temporary file.                       *)
NothingToFinishClosing ==
    /\ should_close => ~ui_state
    /\ ui \in {"loaded", "exited"} => thread = "none" /\ ~ui_state
    /\ ui \in {"running", "rebuilding"} => ui_state /\ thread # "none"

(* No change is lost between the save thread's checks and its waits:       *)
(* settings that differ from the file are saved, or replaced by newer      *)
(* ones, or a save of them fails, unless the program is left first.  While *)
(* a save writes, `result` is still that of the one before and says        *)
(* nothing: a failed save does not excuse the next one.                    *)
EveryChangeIsSaved ==
    \A n \in 1..MaxRev :
        (ui # "exited" /\ save_path /\ ~misread /\ settings.rev = n /\ settings.val # Load(file))
            ~> \/ settings.rev # n
               \/ settings.val = Load(file)
               \/ /\ latest_saved.rev = n /\ result = "failed"
                  /\ thread \notin Writing \cup {"commit"}
               \/ should_close
               \/ ui = "exited"

(* Closing always ends: neither the join nor the thread's three waits can  *)
(* hold up the exit, whatever the thread was doing when it began.          *)
CloseEnds == ui = "closing" ~> ui = "exited"

(* README.md:56, "All settings are automatically saved to a settings file  *)
(* next to the executable": after a clean exit without any failed file     *)
(* operation the file would hold the last settings.  It need not.          *)
SavedAtExit ==
    ui = "exited" /\ should_close /\ save_path /\ ~misread /\ failures = 0
        => settings.val = Load(file)

(* The two threads and their temporary file implement the promise of       *)
(* DurableSettings: what they write is its draft, until they rename it.    *)
Memory ==
    IF ui = "exited" THEN [kind |-> "none", rev |-> 0, val |-> Default]
    ELSE [kind |-> "some", rev |-> settings.rev, val |-> settings.val]
Draft ==
    IF thread \in Writing THEN [kind |-> "some", rev |-> latest_saved.rev, val |-> latest_saved.val]
    ELSE [kind |-> "none", rev |-> 0, val |-> Default]
Durable == INSTANCE DurableSettings WITH stored <- file, memory <- Memory, draft <- Draft
ImplementsDurableSettings == Durable!Spec
=============================================================================
