-------------------------- MODULE DurableSettings --------------------------
(***************************************************************************)
(* What the settings store of virtual-desktop-manager promises about the   *)
(* "*.settings.json" file, without threads, locks or temporary files.      *)
(*                                                                         *)
(* The program holds one version of the settings in memory while it runs.  *)
(* Now and then it takes a draft of that version, and later it either      *)
(* publishes the whole draft in one step or gives it up.  Nothing else     *)
(* ever changes the file, so whoever reads it, at any moment and also      *)
(* after the program was killed, finds a complete version that really was  *)
(* current once; and a published version never gives way to an older one.  *)
(***************************************************************************)
EXTENDS Naturals

CONSTANTS
    Values,     \* the settings the user can choose between
    Default     \* the settings of a first start

VARIABLES
    stored,     \* the settings file
    memory,     \* the settings of the running program, or none
    draft       \* the version being written, or none

vars == <<stored, memory, draft>>

(* A version is one value the settings had; revisions order versions by    *)
(* when they became current.                                               *)
None == [kind |-> "none", rev |-> 0, val |-> Default]
Version == [kind : {"some"}, rev : Nat, val : Values]

(* The file is missing, unreadable as settings, or holds a version.  There *)
(* is no "partly written" case: that is the promise.                       *)
File == [kind : {"absent", "garbage", "complete"}, rev : Nat, val : Values]

Init ==
    /\ stored \in File
    /\ memory = None
    /\ draft = None

(* The program starts or stops; a draft dies with it. *)
StartOrStop ==
    /\ \/ memory' = None
       \/ memory = None /\ memory' \in Version /\ memory'.rev > stored.rev
    /\ draft' = None
    /\ UNCHANGED stored

(* The settings change. *)
Change ==
    /\ memory # None
    /\ memory' \in Version
    /\ memory'.rev > memory.rev
    /\ UNCHANGED <<stored, draft>>

TakeDraft ==
    /\ draft = None
    /\ memory # None
    /\ memory.rev > stored.rev
    /\ draft' = memory
    /\ UNCHANGED <<stored, memory>>

GiveUp ==
    /\ draft' = None
    /\ UNCHANGED <<stored, memory>>

Publish ==
    /\ draft # None
    /\ stored' = [kind |-> "complete", rev |-> draft.rev, val |-> draft.val]
    /\ draft' = None
    /\ UNCHANGED memory

Next == StartOrStop \/ Change \/ TakeDraft \/ GiveUp \/ Publish

Spec == Init /\ [][Next]_vars
=============================================================================
