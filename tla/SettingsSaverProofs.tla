------------------------ MODULE SettingsSaverProofs ------------------------
(***************************************************************************)
(* Proofs about SettingsSaver for any set of settings and any bounds: the  *)
(* settings file is never torn, its cached copy is right, saves reach it   *)
(* in order, and it is never rewritten without need.                       *)
(***************************************************************************)
EXTENDS SettingsSaver, TLAPS

(* The threads' life cycle. *)
ThreadInv ==
    /\ NothingToFinishClosing
    /\ ui \in {"closing", "joining"} => should_close
    /\ thread = "notice" => ~should_close

(* What the files hold while save_settings_inner is under way. *)
DiskInv ==
    /\ FileNeverTorn
    /\ thread = "rename" => temp = Whole(latest_saved)
    /\ thread = "commit" => file = Whole(latest_saved)

(* A write is only under way for settings that differ from the file's. *)
WriteInv ==
    /\ CacheMirrorsFile
    /\ thread \in Writing => save_path /\ latest_saved.val # settings_in_file.val

(* Revisions grow with time, and one revision is one object. *)
RevInv ==
    /\ settings.rev <= last_rev
    /\ file.rev <= last_rev
    /\ latest_saved.rev <= settings.rev
    /\ latest_saved.rev = settings.rev => latest_saved.val = settings.val
    /\ settings_in_file.rev <= settings.rev
    /\ settings_in_file.rev = settings.rev => settings_in_file.val = settings.val
    /\ ui # "exited" => file.rev <= settings.rev
    /\ ui # "exited" /\ thread # "commit" => file.rev <= settings_in_file.rev
    /\ thread \in Writing => settings_in_file.rev < latest_saved.rev
    /\ thread = "commit" => settings_in_file.rev < latest_saved.rev

ErrorInv ==
    /\ QueuedErrorsAnnounced
    /\ ui = "rebuilding" => errors = 0

IInv == TypeOK /\ ThreadInv /\ DiskInv /\ WriteInv /\ RevInv /\ ErrorInv
-----------------------------------------------------------------------------
(* Every step keeps the types. *)
LEMMA TypeStep == TypeOK /\ [Next]_vars => TypeOK'
<1>. SUFFICES ASSUME TypeOK, [Next]_vars PROVE TypeOK'
  OBVIOUS
<1>. USE SettingsAssumption DEF TypeOK, ControlTypeOK, ObjectTypeOK, FlagTypeOK, CountTypeOK, FileTypeOK, Object, Contents, Results, UiStates, ThreadStates, Writing, Waiting, NoFile, Garbage
<1>1. CASE StartProgram
  <2>. USE <1>1 DEF StartProgram, FreshState, disk, Load
  <2>1. ControlTypeOK'
    OBVIOUS
  <2>2. ObjectTypeOK'
    OBVIOUS
  <2>3. FlagTypeOK'
    OBVIOUS
  <2>4. CountTypeOK'
    OBVIOUS
  <2>5. FileTypeOK'
    OBVIOUS
  <2>. QED
    BY <2>1, <2>2, <2>3, <2>4, <2>5
<1>2. CASE StartBackgroundWork
  BY <1>2 DEF StartBackgroundWork, Locked, store, channel, disk, counts
<1>3. ASSUME NEW v \in Values, Set(v) PROVE TypeOK'
  BY <1>3 DEF Set, Locked, channel, disk, counts
<1>4. CASE ShowErrors
  BY <1>4 DEF ShowErrors, saver, store, disk, counts
<1>5. CASE BeforeRebuild
  BY <1>5 DEF BeforeRebuild, saver, store, disk, counts
<1>6. CASE BeginClose
  <2>. USE <1>6 DEF BeginClose, Locked, saver, store, channel, disk, counts
  <2>1. ControlTypeOK'
    OBVIOUS
  <2>2. ObjectTypeOK'
    OBVIOUS
  <2>3. FlagTypeOK'
    OBVIOUS
  <2>4. CountTypeOK'
    OBVIOUS
  <2>5. FileTypeOK'
    OBVIOUS
  <2>. QED
    BY <2>1, <2>2, <2>3, <2>4, <2>5
<1>7. CASE NotifyClose
  BY <1>7 DEF NotifyClose, store, channel, disk, counts
<1>8. CASE Join
  BY <1>8 DEF Join, saver, store, disk, counts
<1>9. CASE Crash
  <2>. USE <1>9 DEF Crash, FreshState, store, disk, counts
  <2>1. ControlTypeOK'
    OBVIOUS
  <2>2. ObjectTypeOK'
    OBVIOUS
  <2>3. FlagTypeOK'
    OBVIOUS
  <2>4. CountTypeOK'
    OBVIOUS
  <2>5. FileTypeOK'
    OBVIOUS
  <2>. QED
    BY <2>1, <2>2, <2>3, <2>4, <2>5
<1>10. CASE LeaveLoop
  BY <1>10 DEF LeaveLoop, SaverOnly, channel, disk
<1>11. CASE BeginSave
  BY <1>11 DEF BeginSave, SaverOnly, SameData, channel, disk
<1>12. CASE RemoveTemp
  BY <1>12 DEF RemoveTemp, Fail, Proceed, FileStep, SaverOnly, channel, NoFile
<1>13. CASE CreateTemp
  BY <1>13 DEF CreateTemp, Fail, Proceed, FileStep, SaverOnly, channel, Torn
<1>14. CASE WriteTemp
  BY <1>14 DEF WriteTemp, Fail, Proceed, FileStep, SaverOnly, channel, Whole
<1>15. CASE RenameTemp
  BY <1>15 DEF RenameTemp, Fail, Proceed, FileStep, SaverOnly, channel, disk, NoFile
<1>16. CASE Commit
  BY <1>16 DEF Commit, SaverOnly, channel, disk
<1>17. CASE Relock
  <2>. USE <1>17 DEF Relock, Locked, WaitForWork, Superseded, SaverOnly, disk
  <2>1. ControlTypeOK'
    OBVIOUS
  <2>2. ObjectTypeOK'
    OBVIOUS
  <2>3. FlagTypeOK'
    OBVIOUS
  <2>4. CountTypeOK'
    OBVIOUS
  <2>5. FileTypeOK'
    OBVIOUS
  <2>. QED
    BY <2>1, <2>2, <2>3, <2>4, <2>5
<1>18. CASE PostNotice
  <2>. USE <1>18 DEF PostNotice, WaitForWork, Superseded, SaverOnly, disk
  <2>1. ControlTypeOK'
    OBVIOUS
  <2>2. ObjectTypeOK'
    OBVIOUS
  <2>3. FlagTypeOK'
    OBVIOUS
  <2>4. CountTypeOK'
    OBVIOUS
  <2>5. FileTypeOK'
    OBVIOUS
  <2>. QED
    BY <2>1, <2>2, <2>3, <2>4, <2>5
<1>19. CASE EndCooldown
  <2>. USE <1>19 DEF EndCooldown, WaitForWork, Superseded, SaverOnly, channel, disk
  <2>1. ControlTypeOK'
    OBVIOUS
  <2>2. ObjectTypeOK'
    OBVIOUS
  <2>3. FlagTypeOK'
    OBVIOUS
  <2>4. CountTypeOK'
    OBVIOUS
  <2>5. FileTypeOK'
    OBVIOUS
  <2>. QED
    BY <2>1, <2>2, <2>3, <2>4, <2>5
<1>20. CASE StopWaiting
  <2>. USE <1>20 DEF StopWaiting, SaverOnly, channel, disk
  <2>1. ControlTypeOK'
    OBVIOUS
  <2>2. ObjectTypeOK'
    OBVIOUS
  <2>3. FlagTypeOK'
    OBVIOUS
  <2>4. CountTypeOK'
    OBVIOUS
  <2>5. FileTypeOK'
    OBVIOUS
  <2>. QED
    BY <2>1, <2>2, <2>3, <2>4, <2>5
<1>21. CASE UNCHANGED vars
  BY <1>21 DEF vars
<1>. QED
  BY <1>1, <1>2, <1>3, <1>4, <1>5, <1>6, <1>7, <1>8, <1>9, <1>10, <1>11, <1>12, <1>13, <1>14, <1>15, <1>16, <1>17, <1>18, <1>19, <1>20, <1>21
  DEF Next, SaverStep, CloseStep, WakeUp, SpuriousWakeUp

(* Every step keeps the threads' life cycle. *)
LEMMA ThreadStep == TypeOK /\ ThreadInv /\ [Next]_vars => ThreadInv'
<1>. SUFFICES ASSUME TypeOK /\ ThreadInv, [Next]_vars PROVE ThreadInv'
  OBVIOUS
<1>. USE DEF TypeOK, ControlTypeOK, ObjectTypeOK, FlagTypeOK, CountTypeOK, FileTypeOK, Object, Contents, Results, UiStates, ThreadStates, Writing, Waiting, ThreadInv, NothingToFinishClosing
<1>1. CASE StartProgram
  BY <1>1 DEF StartProgram, FreshState, disk, Load
<1>2. CASE StartBackgroundWork
  BY <1>2 DEF StartBackgroundWork, Locked, store, channel, disk, counts
<1>3. ASSUME NEW v \in Values, Set(v) PROVE ThreadInv'
  BY <1>3 DEF Set, Locked, channel, disk, counts
<1>4. CASE ShowErrors
  BY <1>4 DEF ShowErrors, saver, store, disk, counts
<1>5. CASE BeforeRebuild
  BY <1>5 DEF BeforeRebuild, saver, store, disk, counts
<1>6. CASE BeginClose
  BY <1>6 DEF BeginClose, Locked, saver, store, channel, disk, counts
<1>7. CASE NotifyClose
  BY <1>7 DEF NotifyClose, store, channel, disk, counts
<1>8. CASE Join
  BY <1>8 DEF Join, saver, store, disk, counts
<1>9. CASE Crash
  BY <1>9 DEF Crash, FreshState, store, disk, counts
<1>10. CASE LeaveLoop
  BY <1>10 DEF LeaveLoop, SaverOnly, channel, disk
<1>11. CASE BeginSave
  BY <1>11 DEF BeginSave, SaverOnly, SameData, channel, disk
<1>12. CASE RemoveTemp
  BY <1>12 DEF RemoveTemp, Fail, Proceed, FileStep, SaverOnly, channel, NoFile
<1>13. CASE CreateTemp
  BY <1>13 DEF CreateTemp, Fail, Proceed, FileStep, SaverOnly, channel, Torn
<1>14. CASE WriteTemp
  BY <1>14 DEF WriteTemp, Fail, Proceed, FileStep, SaverOnly, channel, Whole
<1>15. CASE RenameTemp
  BY <1>15 DEF RenameTemp, Fail, Proceed, FileStep, SaverOnly, channel, disk, NoFile
<1>16. CASE Commit
  BY <1>16 DEF Commit, SaverOnly, channel, disk
<1>17. CASE Relock
  BY <1>17 DEF Relock, Locked, WaitForWork, Superseded, SaverOnly, disk
<1>18. CASE PostNotice
  BY <1>18 DEF PostNotice, WaitForWork, Superseded, SaverOnly, disk
<1>19. CASE EndCooldown
  BY <1>19 DEF EndCooldown, WaitForWork, Superseded, SaverOnly, channel, disk
<1>20. CASE StopWaiting
  BY <1>20 DEF StopWaiting, SaverOnly, channel, disk
<1>21. CASE UNCHANGED vars
  BY <1>21 DEF vars
<1>. QED
  BY <1>1, <1>2, <1>3, <1>4, <1>5, <1>6, <1>7, <1>8, <1>9, <1>10, <1>11, <1>12, <1>13, <1>14, <1>15, <1>16, <1>17, <1>18, <1>19, <1>20, <1>21
  DEF Next, SaverStep, CloseStep, WakeUp, SpuriousWakeUp

(* Every step keeps the files in order: only WriteTemp completes the
   temporary file, and only RenameTemp moves it. *)
LEMMA DiskStep == TypeOK /\ ThreadInv /\ DiskInv /\ [Next]_vars => DiskInv'
<1>. SUFFICES ASSUME TypeOK /\ ThreadInv /\ DiskInv, [Next]_vars PROVE DiskInv'
  OBVIOUS
<1>. USE DEF TypeOK, ControlTypeOK, ObjectTypeOK, FlagTypeOK, CountTypeOK, FileTypeOK, Object, Contents, Results, UiStates, ThreadStates, Writing, Waiting, ThreadInv, NothingToFinishClosing, DiskInv, FileNeverTorn, Whole, NoFile
<1>1. CASE StartProgram
  BY <1>1 DEF StartProgram, FreshState, disk, Load
<1>2. CASE StartBackgroundWork
  BY <1>2 DEF StartBackgroundWork, Locked, store, channel, disk, counts
<1>3. ASSUME NEW v \in Values, Set(v) PROVE DiskInv'
  BY <1>3 DEF Set, Locked, channel, disk, counts
<1>4. CASE ShowErrors
  BY <1>4 DEF ShowErrors, saver, store, disk, counts
<1>5. CASE BeforeRebuild
  BY <1>5 DEF BeforeRebuild, saver, store, disk, counts
<1>6. CASE BeginClose
  BY <1>6 DEF BeginClose, Locked, saver, store, channel, disk, counts
<1>7. CASE NotifyClose
  BY <1>7 DEF NotifyClose, store, channel, disk, counts
<1>8. CASE Join
  BY <1>8 DEF Join, saver, store, disk, counts
<1>9. CASE Crash
  BY <1>9 DEF Crash, FreshState, store, disk, counts
<1>10. CASE LeaveLoop
  BY <1>10 DEF LeaveLoop, SaverOnly, channel, disk
<1>11. CASE BeginSave
  BY <1>11 DEF BeginSave, SaverOnly, SameData, channel, disk
<1>12. CASE RemoveTemp
  BY <1>12 DEF RemoveTemp, Fail, Proceed, FileStep, SaverOnly, channel, NoFile
<1>13. CASE CreateTemp
  BY <1>13 DEF CreateTemp, Fail, Proceed, FileStep, SaverOnly, channel, Torn
<1>14. CASE WriteTemp
  BY <1>14 DEF WriteTemp, Fail, Proceed, FileStep, SaverOnly, channel, Whole
<1>15. CASE RenameTemp
  BY <1>15 DEF RenameTemp, Fail, Proceed, FileStep, SaverOnly, channel, disk, NoFile
<1>16. CASE Commit
  BY <1>16 DEF Commit, SaverOnly, channel, disk
<1>17. CASE Relock
  BY <1>17 DEF Relock, Locked, WaitForWork, Superseded, SaverOnly, disk
<1>18. CASE PostNotice
  BY <1>18 DEF PostNotice, WaitForWork, Superseded, SaverOnly, disk
<1>19. CASE EndCooldown
  BY <1>19 DEF EndCooldown, WaitForWork, Superseded, SaverOnly, channel, disk
<1>20. CASE StopWaiting
  BY <1>20 DEF StopWaiting, SaverOnly, channel, disk
<1>21. CASE UNCHANGED vars
  BY <1>21 DEF vars
<1>. QED
  BY <1>1, <1>2, <1>3, <1>4, <1>5, <1>6, <1>7, <1>8, <1>9, <1>10, <1>11, <1>12, <1>13, <1>14, <1>15, <1>16, <1>17, <1>18, <1>19, <1>20, <1>21
  DEF Next, SaverStep, CloseStep, WakeUp, SpuriousWakeUp

(* Every step keeps the cached copy right. *)
LEMMA WriteStep == TypeOK /\ ThreadInv /\ DiskInv /\ WriteInv /\ [Next]_vars => WriteInv'
<1>. SUFFICES ASSUME TypeOK /\ ThreadInv /\ DiskInv /\ WriteInv, [Next]_vars PROVE WriteInv'
  OBVIOUS
<1>. USE DEF TypeOK, ControlTypeOK, ObjectTypeOK, FlagTypeOK, CountTypeOK, FileTypeOK, Object, Contents, Results, UiStates, ThreadStates, Writing, Waiting, ThreadInv, NothingToFinishClosing, DiskInv, WriteInv, CacheMirrorsFile, Load, Whole
<1>1. CASE StartProgram
  BY <1>1 DEF StartProgram, FreshState, disk, Load
<1>2. CASE StartBackgroundWork
  BY <1>2 DEF StartBackgroundWork, Locked, store, channel, disk, counts
<1>3. ASSUME NEW v \in Values, Set(v) PROVE WriteInv'
  BY <1>3 DEF Set, Locked, channel, disk, counts
<1>4. CASE ShowErrors
  BY <1>4 DEF ShowErrors, saver, store, disk, counts
<1>5. CASE BeforeRebuild
  BY <1>5 DEF BeforeRebuild, saver, store, disk, counts
<1>6. CASE BeginClose
  BY <1>6 DEF BeginClose, Locked, saver, store, channel, disk, counts
<1>7. CASE NotifyClose
  BY <1>7 DEF NotifyClose, store, channel, disk, counts
<1>8. CASE Join
  BY <1>8 DEF Join, saver, store, disk, counts
<1>9. CASE Crash
  BY <1>9 DEF Crash, FreshState, store, disk, counts
<1>10. CASE LeaveLoop
  BY <1>10 DEF LeaveLoop, SaverOnly, channel, disk
<1>11. CASE BeginSave
  BY <1>11 DEF BeginSave, SaverOnly, SameData, channel, disk
<1>12. CASE RemoveTemp
  BY <1>12 DEF RemoveTemp, Fail, Proceed, FileStep, SaverOnly, channel, NoFile
<1>13. CASE CreateTemp
  BY <1>13 DEF CreateTemp, Fail, Proceed, FileStep, SaverOnly, channel, Torn
<1>14. CASE WriteTemp
  BY <1>14 DEF WriteTemp, Fail, Proceed, FileStep, SaverOnly, channel, Whole
<1>15. CASE RenameTemp
  BY <1>15 DEF RenameTemp, Fail, Proceed, FileStep, SaverOnly, channel, disk, NoFile
<1>16. CASE Commit
  BY <1>16 DEF Commit, SaverOnly, channel, disk
<1>17. CASE Relock
  BY <1>17 DEF Relock, Locked, WaitForWork, Superseded, SaverOnly, disk
<1>18. CASE PostNotice
  BY <1>18 DEF PostNotice, WaitForWork, Superseded, SaverOnly, disk
<1>19. CASE EndCooldown
  BY <1>19 DEF EndCooldown, WaitForWork, Superseded, SaverOnly, channel, disk
<1>20. CASE StopWaiting
  BY <1>20 DEF StopWaiting, SaverOnly, channel, disk
<1>21. CASE UNCHANGED vars
  BY <1>21 DEF vars
<1>. QED
  BY <1>1, <1>2, <1>3, <1>4, <1>5, <1>6, <1>7, <1>8, <1>9, <1>10, <1>11, <1>12, <1>13, <1>14, <1>15, <1>16, <1>17, <1>18, <1>19, <1>20, <1>21
  DEF Next, SaverStep, CloseStep, WakeUp, SpuriousWakeUp

(* Every step keeps revisions in order. *)
LEMMA RevStep == TypeOK /\ ThreadInv /\ DiskInv /\ WriteInv /\ RevInv /\ [Next]_vars => RevInv'
<1>. SUFFICES ASSUME TypeOK /\ ThreadInv /\ DiskInv /\ WriteInv /\ RevInv, [Next]_vars PROVE RevInv'
  OBVIOUS
<1>. USE DEF TypeOK, ControlTypeOK, ObjectTypeOK, FlagTypeOK, CountTypeOK, FileTypeOK, Object, Contents, Results, UiStates, ThreadStates, Writing, Waiting, ThreadInv, NothingToFinishClosing, DiskInv, WriteInv, RevInv, Whole
<1>1. CASE StartProgram
  BY <1>1 DEF StartProgram, FreshState, disk, Load
<1>2. CASE StartBackgroundWork
  BY <1>2 DEF StartBackgroundWork, Locked, store, channel, disk, counts
<1>3. ASSUME NEW v \in Values, Set(v) PROVE RevInv'
  BY <1>3 DEF Set, Locked, channel, disk, counts
<1>4. CASE ShowErrors
  BY <1>4 DEF ShowErrors, saver, store, disk, counts
<1>5. CASE BeforeRebuild
  BY <1>5 DEF BeforeRebuild, saver, store, disk, counts
<1>6. CASE BeginClose
  BY <1>6 DEF BeginClose, Locked, saver, store, channel, disk, counts
<1>7. CASE NotifyClose
  BY <1>7 DEF NotifyClose, store, channel, disk, counts
<1>8. CASE Join
  BY <1>8 DEF Join, saver, store, disk, counts
<1>9. CASE Crash
  BY <1>9 DEF Crash, FreshState, store, disk, counts
<1>10. CASE LeaveLoop
  BY <1>10 DEF LeaveLoop, SaverOnly, channel, disk
<1>11. CASE BeginSave
  BY <1>11 DEF BeginSave, SaverOnly, SameData, channel, disk
<1>12. CASE RemoveTemp
  BY <1>12 DEF RemoveTemp, Fail, Proceed, FileStep, SaverOnly, channel, NoFile
<1>13. CASE CreateTemp
  BY <1>13 DEF CreateTemp, Fail, Proceed, FileStep, SaverOnly, channel, Torn
<1>14. CASE WriteTemp
  BY <1>14 DEF WriteTemp, Fail, Proceed, FileStep, SaverOnly, channel, Whole
<1>15. CASE RenameTemp
  BY <1>15 DEF RenameTemp, Fail, Proceed, FileStep, SaverOnly, channel, disk, NoFile
<1>16. CASE Commit
  BY <1>16 DEF Commit, SaverOnly, channel, disk
<1>17. CASE Relock
  BY <1>17 DEF Relock, Locked, WaitForWork, Superseded, SaverOnly, disk
<1>18. CASE PostNotice
  BY <1>18 DEF PostNotice, WaitForWork, Superseded, SaverOnly, disk
<1>19. CASE EndCooldown
  BY <1>19 DEF EndCooldown, WaitForWork, Superseded, SaverOnly, channel, disk
<1>20. CASE StopWaiting
  BY <1>20 DEF StopWaiting, SaverOnly, channel, disk
<1>21. CASE UNCHANGED vars
  BY <1>21 DEF vars
<1>. QED
  BY <1>1, <1>2, <1>3, <1>4, <1>5, <1>6, <1>7, <1>8, <1>9, <1>10, <1>11, <1>12, <1>13, <1>14, <1>15, <1>16, <1>17, <1>18, <1>19, <1>20, <1>21
  DEF Next, SaverStep, CloseStep, WakeUp, SpuriousWakeUp

(* Every step keeps queued errors announced. *)
LEMMA ErrorStep == TypeOK /\ ThreadInv /\ ErrorInv /\ [Next]_vars => ErrorInv'
<1>. SUFFICES ASSUME TypeOK /\ ThreadInv /\ ErrorInv, [Next]_vars PROVE ErrorInv'
  OBVIOUS
<1>. USE DEF TypeOK, ControlTypeOK, ObjectTypeOK, FlagTypeOK, CountTypeOK, FileTypeOK, Object, Contents, Results, UiStates, ThreadStates, Writing, Waiting, ThreadInv, NothingToFinishClosing, ErrorInv, QueuedErrorsAnnounced
<1>1. CASE StartProgram
  BY <1>1 DEF StartProgram, FreshState, disk, Load
<1>2. CASE StartBackgroundWork
  BY <1>2 DEF StartBackgroundWork, Locked, store, channel, disk, counts
<1>3. ASSUME NEW v \in Values, Set(v) PROVE ErrorInv'
  BY <1>3 DEF Set, Locked, channel, disk, counts
<1>4. CASE ShowErrors
  BY <1>4 DEF ShowErrors, saver, store, disk, counts
<1>5. CASE BeforeRebuild
  BY <1>5 DEF BeforeRebuild, saver, store, disk, counts
<1>6. CASE BeginClose
  BY <1>6 DEF BeginClose, Locked, saver, store, channel, disk, counts
<1>7. CASE NotifyClose
  BY <1>7 DEF NotifyClose, store, channel, disk, counts
<1>8. CASE Join
  BY <1>8 DEF Join, saver, store, disk, counts
<1>9. CASE Crash
  BY <1>9 DEF Crash, FreshState, store, disk, counts
<1>10. CASE LeaveLoop
  BY <1>10 DEF LeaveLoop, SaverOnly, channel, disk
<1>11. CASE BeginSave
  BY <1>11 DEF BeginSave, SaverOnly, SameData, channel, disk
<1>12. CASE RemoveTemp
  BY <1>12 DEF RemoveTemp, Fail, Proceed, FileStep, SaverOnly, channel, NoFile
<1>13. CASE CreateTemp
  BY <1>13 DEF CreateTemp, Fail, Proceed, FileStep, SaverOnly, channel, Torn
<1>14. CASE WriteTemp
  BY <1>14 DEF WriteTemp, Fail, Proceed, FileStep, SaverOnly, channel, Whole
<1>15. CASE RenameTemp
  BY <1>15 DEF RenameTemp, Fail, Proceed, FileStep, SaverOnly, channel, disk, NoFile
<1>16. CASE Commit
  BY <1>16 DEF Commit, SaverOnly, channel, disk
<1>17. CASE Relock
  BY <1>17 DEF Relock, Locked, WaitForWork, Superseded, SaverOnly, disk
<1>18. CASE PostNotice
  BY <1>18 DEF PostNotice, WaitForWork, Superseded, SaverOnly, disk
<1>19. CASE EndCooldown
  BY <1>19 DEF EndCooldown, WaitForWork, Superseded, SaverOnly, channel, disk
<1>20. CASE StopWaiting
  BY <1>20 DEF StopWaiting, SaverOnly, channel, disk
<1>21. CASE UNCHANGED vars
  BY <1>21 DEF vars
<1>. QED
  BY <1>1, <1>2, <1>3, <1>4, <1>5, <1>6, <1>7, <1>8, <1>9, <1>10, <1>11, <1>12, <1>13, <1>14, <1>15, <1>16, <1>17, <1>18, <1>19, <1>20, <1>21
  DEF Next, SaverStep, CloseStep, WakeUp, SpuriousWakeUp
-----------------------------------------------------------------------------
(* The strengthened invariant holds: it is inductive. *)
LEMMA Invariance == Spec => []IInv
<1>1. Init => IInv
  <2>. SUFFICES ASSUME Init PROVE IInv
    OBVIOUS
  <2>. USE SettingsAssumption DEF Init, NoFile, Garbage, Torn, Whole
  <2>1. TypeOK
    <3>1. ControlTypeOK
      BY DEF ControlTypeOK, UiStates, ThreadStates, Results
    <3>2. FlagTypeOK
      BY DEF FlagTypeOK
    <3>4. CountTypeOK
      BY DEF CountTypeOK
    <3>3. ObjectTypeOK /\ FileTypeOK
      BY DEF ObjectTypeOK, FileTypeOK, Object, Contents
    <3>. QED
      BY <3>1, <3>2, <3>3, <3>4 DEF TypeOK
  <2>2. ThreadInv
    BY DEF ThreadInv, NothingToFinishClosing
  <2>3. DiskInv /\ WriteInv
    BY DEF DiskInv, WriteInv, FileNeverTorn, CacheMirrorsFile, Writing
  <2>4. RevInv
    BY DEF RevInv, Writing
  <2>5. ErrorInv
    BY DEF ErrorInv, QueuedErrorsAnnounced
  <2>. QED
    BY <2>1, <2>2, <2>3, <2>4, <2>5 DEF IInv
<1>2. IInv /\ [Next]_vars => IInv'
  BY TypeStep, ThreadStep, DiskStep, WriteStep, RevStep, ErrorStep DEF IInv
<1>. QED
  BY <1>1, <1>2, PTL DEF Spec

(* Every variable always has its type. *)
THEOREM TypeCorrect == Spec => []TypeOK
  BY Invariance, PTL DEF IInv

(* Whatever fails, closes or kills the program, and between whichever two  *)
(* steps, the settings file is not half-written.                           *)
THEOREM NeverTorn == Spec => []FileNeverTorn
<1>1. IInv => FileNeverTorn
  BY DEF IInv, DiskInv
<1>. QED
  BY <1>1, Invariance, PTL

(* What the save thread believes to be in the file is in the file. *)
THEOREM CacheIsRight == Spec => []CacheMirrorsFile
<1>1. IInv => CacheMirrorsFile
  BY DEF IInv, WriteInv
<1>. QED
  BY <1>1, Invariance, PTL

(* No error message of the save thread is forgotten in its channel. *)
THEOREM ErrorsAreAnnounced == Spec => []QueuedErrorsAnnounced
<1>1. IInv => QueuedErrorsAnnounced
  BY DEF IInv, ErrorInv
<1>. QED
  BY <1>1, Invariance, PTL

(* There is at most one save thread, and start_background_work never has  *)
(* one to wait for.                                                        *)
THEOREM OneSaveThread == Spec => []NothingToFinishClosing
<1>1. IInv => NothingToFinishClosing
  BY DEF IInv, ThreadInv
<1>. QED
  BY <1>1, Invariance, PTL
-----------------------------------------------------------------------------
(* Only RenameTemp changes the settings file, and then to the version the  *)
(* thread took from the settings before, which is newer than the file's    *)
(* and not what a restart would load from it.                              *)
LEMMA FileChange ==
    ASSUME IInv, [Next]_vars, file' # file
    PROVE  /\ RenameTemp
           /\ thread = "rename"
           /\ file' = Whole(latest_saved)
           /\ latest_saved.rev > file.rev
           /\ ~misread => latest_saved.val # Load(file)
<1>1. RenameTemp /\ thread = "rename" /\ file' = temp
  BY DEF Next, SaverStep, CloseStep, WakeUp, SpuriousWakeUp, vars, disk, FreshState, SaverOnly, FileStep,
         StartProgram, StartBackgroundWork, Set, ShowErrors, BeforeRebuild, BeginClose, NotifyClose, Join, Crash,
         LeaveLoop, BeginSave, RemoveTemp, CreateTemp, WriteTemp, RenameTemp, Commit, Relock, PostNotice, EndCooldown, StopWaiting
<1>2. temp = Whole(latest_saved)
  BY <1>1 DEF IInv, DiskInv
<1>3. ui # "exited" /\ save_path /\ latest_saved.val # settings_in_file.val
  BY <1>1 DEF IInv, ThreadInv, NothingToFinishClosing, WriteInv, Writing
<1>4. latest_saved.rev > file.rev
  BY <1>1, <1>3 DEF IInv, RevInv, Writing, TypeOK, ObjectTypeOK, FileTypeOK, Object, Contents
<1>5. ~misread => latest_saved.val # Load(file)
  BY <1>1, <1>3 DEF IInv, WriteInv, CacheMirrorsFile
<1>. QED
  BY <1>1, <1>2, <1>4, <1>5

(* A version of the settings never overwrites a newer one on disk. *)
THEOREM SavesInOrder == Spec => NewerReplacesOlder
<1>1. IInv /\ [Next]_vars => [file' # file => file'.kind = "complete" /\ file'.rev > file.rev]_vars
  BY FileChange DEF Whole
<1>. QED
  BY <1>1, Invariance, PTL DEF Spec, NewerReplacesOlder

(* The file is only rewritten when a restart would then load other         *)
(* settings.                                                               *)
THEOREM SavesOnlyChanges == Spec => NoRedundantWrite
<1>1. IInv /\ [Next]_vars => [file' # file /\ ~misread => file'.val # Load(file)]_vars
  BY FileChange DEF Whole
<1>. QED
  BY <1>1, Invariance, PTL DEF Spec, NoRedundantWrite
-----------------------------------------------------------------------------
(* The initial states are those of DurableSettings. *)
LEMMA RefinesInit == Init => Durable!Init
  BY SettingsAssumption
  DEF Init, Durable!Init, Durable!File, Durable!None, Memory, Draft, Writing, NoFile, Garbage, Whole

(* Every step is one of DurableSettings, or one it does not see. *)
LEMMA RefinesNext == IInv /\ [Next]_vars => [Durable!Next]_(Durable!vars)
<1>. SUFFICES ASSUME IInv, [Next]_vars PROVE [Durable!Next]_(Durable!vars)
  OBVIOUS
<1>. USE SettingsAssumption DEF IInv, TypeOK, ControlTypeOK, ObjectTypeOK, CountTypeOK, FileTypeOK, Object, Contents, ThreadInv, NothingToFinishClosing, Memory, Draft, Writing, Durable!vars
<1>1. CASE StartProgram
  <2>1. Durable!StartOrStop
    BY <1>1 DEF StartProgram, FreshState, disk, Load, Durable!StartOrStop, Durable!None, Durable!Version, RevInv
  <2>. QED
    BY <2>1 DEF Durable!Next
<1>2. CASE StartBackgroundWork
  BY <1>2 DEF StartBackgroundWork, Locked, store, channel, disk, counts
<1>3. ASSUME NEW v \in Values, Set(v) PROVE [Durable!Next]_(Durable!vars)
  <2>1. Durable!Change
    BY <1>3 DEF Set, Locked, channel, disk, counts, Durable!Change, Durable!None, Durable!Version, RevInv
  <2>. QED
    BY <2>1 DEF Durable!Next
<1>4. CASE ShowErrors
  BY <1>4 DEF ShowErrors, saver, store, disk, counts
<1>5. CASE BeforeRebuild
  BY <1>5 DEF BeforeRebuild, saver, store, disk, counts
<1>6. CASE BeginClose
  BY <1>6 DEF BeginClose, Locked, saver, store, channel, disk, counts
<1>7. CASE NotifyClose
  BY <1>7 DEF NotifyClose, store, channel, disk, counts
<1>8. CASE Join
  <2>1. Durable!StartOrStop
    BY <1>8 DEF Join, saver, store, disk, counts, Durable!StartOrStop, Durable!None, Durable!Version
  <2>. QED
    BY <2>1 DEF Durable!Next
<1>9. CASE Crash
  <2>1. Durable!StartOrStop
    BY <1>9 DEF Crash, FreshState, store, disk, counts, Durable!StartOrStop, Durable!None, Durable!Version
  <2>. QED
    BY <2>1 DEF Durable!Next
<1>10. CASE LeaveLoop
  BY <1>10 DEF LeaveLoop, SaverOnly, channel, disk
<1>11. CASE BeginSave
  <2>. USE <1>11 DEF BeginSave, SaverOnly, SameData, channel, disk
  <2>1. CASE thread' = "remove"
    <3>1. latest_saved'.rev > file.rev
      BY <2>1 DEF RevInv
    <3>2. Durable!TakeDraft
      BY <2>1, <3>1 DEF Durable!TakeDraft, Durable!None
    <3>. QED
      BY <3>2 DEF Durable!Next
  <2>2. CASE thread' = "relock"
    BY <2>2
  <2>. QED
    BY <2>1, <2>2
<1>12. CASE RemoveTemp
  BY <1>12 DEF RemoveTemp, Fail, Proceed, FileStep, SaverOnly, channel, NoFile, Durable!Next, Durable!GiveUp, Durable!None
<1>13. CASE CreateTemp
  BY <1>13 DEF CreateTemp, Fail, Proceed, FileStep, SaverOnly, channel, Torn, Durable!Next, Durable!GiveUp, Durable!None
<1>14. CASE WriteTemp
  BY <1>14 DEF WriteTemp, Fail, Proceed, FileStep, SaverOnly, channel, Whole, Durable!Next, Durable!GiveUp, Durable!None
<1>15. CASE RenameTemp
  <2>. USE <1>15 DEF RenameTemp, Fail, Proceed, FileStep, SaverOnly, channel, disk, NoFile
  <2>1. CASE thread' = "commit"
    <3>1. file' = Whole(latest_saved)
      BY <2>1 DEF DiskInv
    <3>2. Durable!Publish
      BY <2>1, <3>1 DEF Durable!Publish, Durable!None, Whole
    <3>. QED
      BY <3>2 DEF Durable!Next
  <2>2. CASE thread' = "relock"
    BY <2>2 DEF Durable!Next, Durable!GiveUp, Durable!None
  <2>. QED
    BY <2>1, <2>2
<1>16. CASE Commit
  BY <1>16 DEF Commit, SaverOnly, channel, disk
<1>17. CASE Relock
  BY <1>17 DEF Relock, Locked, WaitForWork, Superseded, SaverOnly, disk
<1>18. CASE PostNotice
  BY <1>18 DEF PostNotice, WaitForWork, Superseded, SaverOnly, disk
<1>19. CASE EndCooldown
  BY <1>19 DEF EndCooldown, WaitForWork, Superseded, SaverOnly, channel, disk
<1>20. CASE StopWaiting
  BY <1>20 DEF StopWaiting, SaverOnly, channel, disk
<1>21. CASE UNCHANGED vars
  BY <1>21 DEF vars
<1>. QED
  BY <1>1, <1>2, <1>3, <1>4, <1>5, <1>6, <1>7, <1>8, <1>9, <1>10, <1>11, <1>12, <1>13, <1>14, <1>15, <1>16, <1>17, <1>18, <1>19, <1>20, <1>21
  DEF Next, SaverStep, CloseStep, WakeUp, SpuriousWakeUp

(* The settings store keeps its promise about the file. *)
THEOREM Implementation == Spec => ImplementsDurableSettings
  BY RefinesInit, RefinesNext, Invariance, PTL DEF Spec, ImplementsDurableSettings, Durable!Spec
=============================================================================
