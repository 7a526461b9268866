-------------------------- MODULE ConfigSyncProofs --------------------------
(***************************************************************************)
(* Proofs about ConfigSync for any choices and any bounds: the UI thread   *)
(* and the window agree on what the settings are, no wish of the window is *)
(* left without a notice, and the window shows what is wished for.         *)
(***************************************************************************)
EXTENDS ConfigSync, SequenceTheorems, TLAPS

(* Every settings object some variable holds. *)
Held == {settings, shared.old, shared.new, loaded, draft}

(* Revisions stand for identity, and a new one is new to everybody. *)
Identity ==
    /\ \A o \in Held : o.rev <= last_rev
    /\ \A o, p \in Held : o.rev = p.rev => o = p
    /\ \A i \in DOMAIN expected : expected[i] <= last_rev

(* What on_settings_changed is told is news to the window, and the debouncer *)
(* knows whose it is.                                                       *)
NotifiedIsNews ==
    ui = "notifying" =>
        /\ author = "window" <=> WasRequested
        /\ Active => shared.old.rev # settings.rev
        /\ Active /\ author = "window" => shared.new.rev # shared.old.rev

(* What update_settings is about to write nobody else has. *)
DraftIsUnseen ==
    thread = "writing" => draft.rev \notin {settings.rev, shared.old.rev, shared.new.rev}

(* While a change is reloaded it is the wish, or a message is on its way. *)
Told == \E i \in DOMAIN messages : messages[i] = "state"

DraftIsDesired ==
    thread = "reloading" /\ shared.state # "Closed" /\ ~Told => draft = shared.new

AgreeInv == NotifiedIsNews /\ OldTracksSettings /\ DraftIsUnseen

ShownInv == DraftIsDesired /\ WindowShowsDesired

IInv == TypeOK /\ Identity /\ AgreeInv /\ UnpublishedIsAnnounced /\ ShownInv
-----------------------------------------------------------------------------
(* What the steps do to objects, to the shared state and to the messages. *)
LEMMA HeldTypes ==
  ASSUME TypeOK
  PROVE  /\ shared.old \in Objects /\ shared.old.rev \in Nat
         /\ shared.new \in Objects /\ shared.new.rev \in Nat
         /\ settings \in Objects /\ settings.rev \in Nat
         /\ loaded \in Objects /\ loaded.rev \in Nat
         /\ draft \in Objects /\ draft.rev \in Nat
<1>1. shared.old \in Objects /\ shared.new \in Objects
  BY DEF TypeOK, SharedTypeOK, SharedStates
<1>2. settings \in Objects /\ loaded \in Objects /\ draft \in Objects
  BY DEF TypeOK, ProgramTypeOK, WindowTypeOK
<1>3. \A o \in Objects : o.rev \in Nat
  BY DEF Objects
<1>. QED
  BY <1>1, <1>2, <1>3

LEMMA DraftFacts ==
  ASSUME TypeOK, NEW choice \in Choices
  PROVE  /\ [rev |-> last_rev + 1, val |-> [settings.val EXCEPT !.icon = choice]] \in Objects
         /\ [rev |-> last_rev + 1, val |-> [shared.new.val EXCEPT !.filters = choice]] \in Objects
<1>1. \A o \in Objects : o.val \in Values
  BY DEF Objects
<1>2. \A v \in Values : [v EXCEPT !.icon = choice] \in Values /\ [v EXCEPT !.filters = choice] \in Values
  BY DEF Values
<1>3. last_rev + 1 \in Nat
  BY DEF TypeOK, ProgramTypeOK
<1>4. \A v \in Values : [rev |-> last_rev + 1, val |-> v] \in Objects
  BY <1>3 DEF Objects
<1>. QED
  BY <1>1, <1>2, <1>4, HeldTypes

LEMMA SharedFacts ==
  ASSUME NEW s \in SharedStates, NEW o \in Objects
  PROVE  /\ [s EXCEPT !.old = o] \in SharedStates
         /\ [s EXCEPT !.old = o].window = s.window
         /\ [s EXCEPT !.old = o, !.new = o] \in SharedStates
         /\ [s EXCEPT !.old = o, !.new = o].window = s.window
         /\ [s EXCEPT !.state = "Closed"] \in SharedStates
         /\ [s EXCEPT !.state = "Closed"].window = s.window
  BY DEF SharedStates, WindowStates

LEMMA NotifyWindowFacts ==
  ASSUME MessageTypeOK, NotifyWindow, thread' = thread
  PROVE  MessageTypeOK'
  BY DEF MessageTypeOK, NotifyWindow, Messages, HasWindow

LEMMA ReceiveFacts ==
  ASSUME MessageTypeOK, messages # <<>>
  PROVE  /\ Tail(messages) \in Seq(Messages)
         /\ Append(Tail(messages), "close") \in Seq(Messages)
<1>1. Tail(messages) \in Seq(Messages)
  BY DEF MessageTypeOK
<1>. QED
  BY <1>1 DEF Messages

LEMMA RestAfter ==
  ASSUME NEW s \in Seq(Nat), NEW k \in 1..Len(s)
  PROVE  /\ SubSeq(s, k + 1, Len(s)) \in Seq(Nat)
         /\ Len(SubSeq(s, k + 1, Len(s))) = Len(s) - k
         /\ \A i \in 1..(Len(s) - k) : SubSeq(s, k + 1, Len(s))[i] = s[k + i]
<1>1. Len(s) \in Nat /\ k \in Nat /\ k <= Len(s)
  OBVIOUS
<1>2. \A i \in (k + 1)..Len(s) : s[i] \in Nat
  OBVIOUS
<1>3. /\ SubSeq(s, k + 1, Len(s)) \in Seq(Nat)
      /\ Len(SubSeq(s, k + 1, Len(s))) = IF k + 1 <= Len(s) THEN Len(s) - (k + 1) + 1 ELSE 0
      /\ \A i \in 1..(Len(s) - (k + 1) + 1) : SubSeq(s, k + 1, Len(s))[i] = s[(k + 1) + i - 1]
  BY <1>1, <1>2, SubSeqProperties
<1>. QED
  BY <1>1, <1>3

LEMMA ForgottenRequests ==
  ASSUME ProgramTypeOK, NotifiedNewVersion
  PROVE  /\ expected' \in Seq(Nat)
         /\ \A i \in DOMAIN expected' :
                \E j \in DOMAIN expected : expected'[i] = expected[j]
<1>1. CASE ~WasRequested
  BY <1>1 DEF NotifiedNewVersion
<1>2. CASE WasRequested
  <2>. DEFINE k == CHOOSE i \in Requests : TRUE
  <2>1. k \in 1..Len(expected)
    BY <1>2 DEF WasRequested, Requests, ProgramTypeOK
  <2>2. expected' = SubSeq(expected, k + 1, Len(expected))
    BY <1>2 DEF NotifiedNewVersion
  <2>. HIDE DEF k
  <2>3. /\ SubSeq(expected, k + 1, Len(expected)) \in Seq(Nat)
        /\ Len(SubSeq(expected, k + 1, Len(expected))) = Len(expected) - k
        /\ \A i \in 1..(Len(expected) - k) :
              SubSeq(expected, k + 1, Len(expected))[i] = expected[k + i]
    <3>1. expected \in Seq(Nat)
      BY DEF ProgramTypeOK
    <3>. QED
      BY <2>1, <3>1, RestAfter, Zenon
  <2>4. \A i \in DOMAIN expected' : expected'[i] = expected[k + i] /\ k + i \in DOMAIN expected
    <3>1. /\ expected' \in Seq(Nat) /\ Len(expected') = Len(expected) - k
          /\ \A i \in 1..(Len(expected) - k) : expected'[i] = expected[k + i]
      BY <2>2, <2>3, Zenon
    <3>2. Len(expected) \in Nat /\ DOMAIN expected = 1..Len(expected)
      BY DEF ProgramTypeOK
    <3>3. DOMAIN expected' = 1..(Len(expected) - k)
      BY <3>1
    <3>4. \A i \in 1..(Len(expected) - k) : k + i \in 1..Len(expected)
      BY <2>1, <3>2
    <3>. QED
      BY <3>1, <3>2, <3>3, <3>4, Zenon
  <2>. QED
    BY <2>2, <2>3, <2>4
<1>. QED
  BY <1>1, <1>2
-----------------------------------------------------------------------------
LEMMA HandleNoticeTypes == TypeOK /\ HandleNotice => TypeOK'
<1>. SUFFICES ASSUME TypeOK, HandleNotice PROVE TypeOK'
  OBVIOUS
<1>. USE HeldTypes DEF TypeOK, HandleNotice, program, window, counts
<1>1. WindowTypeOK' /\ (author' \in {"menu", "window"} => CountTypeOK')
  BY DEF WindowTypeOK, CountTypeOK
<1>2. notices' \in Nat
  BY DEF ProgramTypeOK
<1>3. CASE ~Active \/ shared.old.rev = shared.new.rev
  BY <1>1, <1>2, <1>3 DEF ProgramTypeOK, SharedTypeOK, MessageTypeOK, CountTypeOK
<1>4. CASE ~(~Active \/ shared.old.rev = shared.new.rev) /\ shared.old.rev # settings.rev
  <2>1. ProgramTypeOK' /\ CountTypeOK'
    BY <1>1, <1>2, <1>4 DEF ProgramTypeOK, CountTypeOK
  <2>2. shared' = [shared EXCEPT !.old = settings, !.new = settings] /\ thread' = thread
    BY <1>4
  <2>. HIDE DEF HandleNotice
  <2>3. SharedTypeOK'
    BY <2>2, SharedFacts DEF SharedTypeOK
  <2>. QED
    BY <1>1, <1>4, <2>1, <2>3, NotifyWindowFacts DEF HandleNotice
<1>5. CASE ~(~Active \/ shared.old.rev = shared.new.rev) /\ shared.old.rev = settings.rev
  <2>1. expected' \in Seq(Nat)
    <3>1. expected' = Append(expected, shared.new.rev)
      BY <1>5 DEF TrackUnpublishedVersion
    <3>. QED
      BY <3>1 DEF ProgramTypeOK
  <2>2. ProgramTypeOK' /\ author' \in {"menu", "window"}
    BY <1>2, <1>5, <2>1 DEF Set, ProgramTypeOK, CountTypeOK, UiStates
  <2>. QED
    BY <1>1, <1>5, <2>2 DEF SharedTypeOK, MessageTypeOK
<1>. QED
  BY <1>3, <1>4, <1>5

LEMMA NotifySettingsChangedTypes == TypeOK /\ NotifySettingsChanged => TypeOK'
<1>. SUFFICES ASSUME TypeOK, NotifySettingsChanged PROVE TypeOK'
  OBVIOUS
<1>. USE HeldTypes DEF TypeOK, NotifySettingsChanged, window, counts, history
<1>1. WindowTypeOK' /\ CountTypeOK'
  BY DEF WindowTypeOK, CountTypeOK
<1>2. ProgramTypeOK'
  BY ForgottenRequests DEF ProgramTypeOK, UiStates
<1>3. SharedTypeOK'
  <2>1. CASE ~Active \/ shared.old.rev = settings.rev
    BY <2>1 DEF SharedTypeOK
  <2>2. CASE ~(~Active \/ shared.old.rev = settings.rev) /\ WasRequested
    <3>1. shared' = [shared EXCEPT !.old = settings]
      BY <2>2
    <3>. QED
      BY <3>1, SharedFacts DEF SharedTypeOK
  <2>3. CASE ~(~Active \/ shared.old.rev = settings.rev) /\ ~WasRequested
    <3>1. shared' = [shared EXCEPT !.old = settings, !.new = settings]
      BY <2>3
    <3>. QED
      BY <3>1, SharedFacts DEF SharedTypeOK
  <2>. QED
    BY <2>1, <2>2, <2>3
<1>4. MessageTypeOK'
  BY NotifyWindowFacts DEF MessageTypeOK
<1>. QED
  BY <1>1, <1>2, <1>3, <1>4

LEMMA ChangeInMenuTypes ==
  ASSUME TypeOK, NEW choice \in Choices, ChangeInMenu(choice)
  PROVE  TypeOK'
<1>. USE DEF TypeOK, ChangeInMenu, window
<1>1. settings' \in Objects /\ ui' \in UiStates /\ author' \in {"menu", "window"}
  BY DraftFacts DEF Set, ProgramTypeOK, CountTypeOK, UiStates
<1>2. ProgramTypeOK'
  BY <1>1 DEF ProgramTypeOK
<1>3. CountTypeOK'
  BY <1>1, ConfigAssumption DEF CountTypeOK
<1>. QED
  BY <1>2, <1>3 DEF SharedTypeOK, WindowTypeOK, MessageTypeOK

LEMMA DropConfigWindowTypes == TypeOK /\ DropConfigWindow => TypeOK'
<1>. SUFFICES ASSUME TypeOK, DropConfigWindow PROVE TypeOK'
  OBVIOUS
<1>. USE DEF TypeOK, DropConfigWindow, program, window, counts, history
<1>1. ProgramTypeOK' /\ WindowTypeOK' /\ CountTypeOK'
  BY DEF ProgramTypeOK, WindowTypeOK, CountTypeOK, UiStates
<1>2. CASE Active
  BY <1>1, <1>2, SharedFacts, NotifyWindowFacts, HeldTypes DEF SharedTypeOK
<1>3. CASE ~Active
  BY <1>1, <1>3 DEF SharedTypeOK, MessageTypeOK
<1>. QED
  BY <1>2, <1>3

LEMMA OpenWindowCounts == TypeOK /\ OpenWindow => CountTypeOK'
<1>. SUFFICES ASSUME TypeOK, OpenWindow PROVE CountTypeOK'
  OBVIOUS
<1>. USE DEF TypeOK, CountTypeOK, OpenWindow
<1>1. orphan' = (orphan \/ Active)
  OBVIOUS
<1>2. orphan' \in BOOLEAN
  BY <1>1, Zenon
<1>3. opens' \in 0..MaxOpens
  BY ConfigAssumption
<1>. QED
  BY <1>2, <1>3

LEMMA NextCount ==
  ASSUME NEW m \in Nat, NEW n \in 0..m, n < m
  PROVE  n + 1 \in 0..m
  OBVIOUS

LEMMA StateChangedTypes == TypeOK /\ StateChanged => TypeOK'
<1>. SUFFICES ASSUME TypeOK, StateChanged PROVE TypeOK'
  OBVIOUS
<1>. USE DEF TypeOK, StateChanged, program, counts, history
<1>1. ProgramTypeOK' /\ CountTypeOK'
  BY DEF ProgramTypeOK, CountTypeOK
<1>2. MessageTypeOK'
  BY ReceiveFacts DEF MessageTypeOK, Receive, HasWindow
<1>3. shared' = shared \/ shared' = [shared EXCEPT !.state = "Open"]
  OBVIOUS
<1>4. SharedTypeOK'
  BY <1>3 DEF SharedTypeOK, SharedStates, WindowStates
<1>5. shared.new \in Objects /\ PanelOf(shared.new.val) \in Panels
  BY DEF SharedTypeOK, SharedStates, Objects, Values, PanelOf, Panels
<1>6. UNCHANGED <<loaded, panel>> \/ (loaded' = shared.new /\ panel' = PanelOf(shared.new.val))
  BY DEF Reload
<1>7. WindowTypeOK'
  BY <1>5, <1>6 DEF WindowTypeOK
<1>. QED
  BY <1>1, <1>2, <1>4, <1>7

LEMMA PublishTypes == TypeOK /\ Publish => TypeOK'
<1>. SUFFICES ASSUME TypeOK, Publish PROVE TypeOK'
  OBVIOUS
<1>. USE DEF TypeOK, Publish, Goto, program, window, counts
<1>1. ProgramTypeOK'
  BY DEF ProgramTypeOK
<1>2. draft \in Objects
  BY DEF WindowTypeOK
<1>3. SharedTypeOK'
  BY <1>2 DEF SharedTypeOK, SharedStates, ThreadStates, HasWindow
<1>4. WindowTypeOK' /\ CountTypeOK'
  BY DEF WindowTypeOK, CountTypeOK
<1>5. MessageTypeOK'
  BY DEF MessageTypeOK, HasWindow
<1>. QED
  BY <1>1, <1>3, <1>4, <1>5

LEMMA PostChangeTypes ==
  ASSUME TypeOK, NEW choice \in Choices, PostChange(choice)
  PROVE  TypeOK'
<1>. USE DEF TypeOK, PostChange, program, history
<1>1. ProgramTypeOK' /\ SharedTypeOK'
  BY DEF ProgramTypeOK, SharedTypeOK
<1>2. WindowTypeOK'
  BY DEF WindowTypeOK, Panels
<1>3. MessageTypeOK'
  BY DEF MessageTypeOK, Messages, HasWindow
<1>4. changes + 1 \in 0..MaxChanges
  BY ConfigAssumption, NextCount DEF CountTypeOK
<1>5. CountTypeOK'
  BY <1>4 DEF CountTypeOK
<1>. QED
  BY <1>1, <1>2, <1>3, <1>5

LEMMA EditFiltersTypes ==
  ASSUME TypeOK, NEW choice \in Choices, EditFilters(choice)
  PROVE  TypeOK'
<1>. USE DEF TypeOK, EditFilters, BeginUpdate, Goto, program, history
<1>1. ProgramTypeOK'
  BY DEF ProgramTypeOK
<1>2. SharedTypeOK'
  BY DEF SharedTypeOK, ThreadStates, HasWindow
<1>3. WindowTypeOK'
  BY DraftFacts DEF WindowTypeOK
<1>4. MessageTypeOK'
  BY DEF MessageTypeOK, HasWindow
<1>5. changes + 1 \in 0..MaxChanges
  BY ConfigAssumption, NextCount DEF CountTypeOK
<1>6. CountTypeOK'
  BY <1>5 DEF CountTypeOK
<1>. QED
  BY <1>1, <1>2, <1>3, <1>4, <1>6

LEMMA ToggleWindowTypes ==
  ASSUME TypeOK, NEW refocus \in BOOLEAN, ToggleWindow(refocus)
  PROVE  TypeOK'
<1>. USE DEF TypeOK, ToggleWindow, program, window, history
<1>1. ProgramTypeOK' /\ WindowTypeOK'
  BY DEF ProgramTypeOK, WindowTypeOK
<1>2. SharedTypeOK'
  BY DEF SharedTypeOK, SharedStates, WindowStates
<1>3. MessageTypeOK'
  BY NotifyWindowFacts
<1>4. opens + 1 \in 0..MaxOpens
  BY ConfigAssumption, NextCount DEF CountTypeOK
<1>5. CountTypeOK'
  BY <1>4 DEF CountTypeOK
<1>. QED
  BY <1>1, <1>2, <1>3, <1>5

(* Every step keeps the types. *)
LEMMA TypeStep == TypeOK /\ [Next]_vars => TypeOK'
<1>. SUFFICES ASSUME TypeOK, [Next]_vars PROVE TypeOK'
  OBVIOUS
<1>. USE ConfigAssumption DEF TypeOK, ProgramTypeOK, SharedTypeOK, WindowTypeOK,
     MessageTypeOK, CountTypeOK, Objects, Values, Panels, PanelOf, SharedStates,
     WindowStates, UiStates, ThreadStates, HasWindow, Messages
<1>1. CASE HandleNotice
  BY <1>1, HandleNoticeTypes
<1>2. CASE NotifySettingsChanged
  BY <1>2, NotifySettingsChangedTypes
<1>3. CASE AfterPartialBuild
  BY <1>3 DEF AfterPartialBuild, program, window, counts, history
<1>4. CASE ReadSettings
  BY <1>4 DEF ReadSettings, Goto, program, counts, history
<1>5. CASE ShareWindow
  BY <1>5 DEF ShareWindow, Goto, program, window, counts, history
<1>6. CASE CreateWindow
  BY <1>6 DEF CreateWindow, Goto, program, window, counts, history
<1>7. CASE WmCreate
  BY <1>7 DEF WmCreate, Goto, Reload, program, counts, history
<1>8. CASE StateChanged
  BY <1>8, StateChangedTypes
<1>9. CASE SettingChanged
  BY <1>9 DEF SettingChanged, Receive, BeginUpdate, Goto, program, history
<1>10. CASE WmClose
  BY <1>10 DEF WmClose, Receive, Destroy, Goto, program, window, counts, history
<1>11. CASE Publish
  BY <1>11, PublishTypes
<1>12. CASE ReloadFromSettings
  BY <1>12 DEF ReloadFromSettings, Goto, Reload, program, counts, history
<1>13. CASE DropWindow
  BY <1>13 DEF DropWindow, Goto, program, window, counts, history
<1>14. ASSUME NEW choice \in Choices, ChangeInMenu(choice) PROVE TypeOK'
  BY <1>14, ChangeInMenuTypes
<1>15. ASSUME NEW choice \in Choices, PostChange(choice) PROVE TypeOK'
  BY <1>15, PostChangeTypes
<1>16. ASSUME NEW choice \in Choices, EditFilters(choice) PROVE TypeOK'
  BY <1>16, EditFiltersTypes
<1>17. ASSUME NEW refocus \in BOOLEAN, ToggleWindow(refocus) PROVE TypeOK'
  BY <1>17, ToggleWindowTypes
<1>18. CASE OpenWindow
  <2>. USE <1>18 DEF OpenWindow, NewShared, program, window
  <2>1. ProgramTypeOK'
    OBVIOUS
  <2>2. SharedTypeOK'
    OBVIOUS
  <2>3. WindowTypeOK'
    OBVIOUS
  <2>4. MessageTypeOK'
    OBVIOUS
  <2>5. CountTypeOK'
    BY OpenWindowCounts
  <2>. QED
    BY <2>1, <2>2, <2>3, <2>4, <2>5
<1>19. CASE BeforeRebuild
  BY <1>19 DEF BeforeRebuild, program, window
<1>20. CASE DropConfigWindow
  BY <1>20, DropConfigWindowTypes
<1>21. CASE UserCloses
  BY <1>21 DEF UserCloses, Destroy, Goto, program, window, counts, history
<1>22. CASE OrphanNotice
  <2>. USE <1>22 DEF OrphanNotice, program, window, counts, history
  <2>1. ProgramTypeOK'
    OBVIOUS
  <2>2. SharedTypeOK'
    OBVIOUS
  <2>3. WindowTypeOK'
    OBVIOUS
  <2>4. MessageTypeOK'
    OBVIOUS
  <2>5. CountTypeOK'
    OBVIOUS
  <2>. QED
    BY <2>1, <2>2, <2>3, <2>4, <2>5
<1>23. CASE UNCHANGED vars
  BY <1>23 DEF vars, program, window, counts, history
<1>. QED
    BY <1>1, <1>2, <1>3, <1>4, <1>5, <1>6, <1>7, <1>8, <1>9, <1>10, <1>11,
     <1>12, <1>13, <1>14, <1>15, <1>16, <1>17, <1>18, <1>19, <1>20, <1>21,
     <1>22, <1>23
     DEF Next, UiSteps, WindowSteps, Environment
-----------------------------------------------------------------------------
(* Identity survives when nobody holds a new object, and when one is made. *)
LEMMA NoNewObject ==
  ASSUME TypeOK, Identity, Held' \subseteq Held, last_rev' = last_rev,
         \A i \in DOMAIN expected' : expected'[i] <= last_rev
  PROVE  Identity'
  BY DEF Identity

LEMMA OneNewObject ==
  ASSUME TypeOK, Identity, NEW f \in Objects, Held' \subseteq Held \cup {f},
         f.rev = last_rev + 1, last_rev' = last_rev + 1, UNCHANGED expected
  PROVE  Identity'
<1>1. last_rev \in Nat /\ \A o \in Held : o.rev \in Nat
  BY HeldTypes DEF Held, TypeOK, ProgramTypeOK
<1>2. \A i \in DOMAIN expected : expected[i] \in Nat
  BY DEF TypeOK, ProgramTypeOK
<1>3. \A o \in Held' : o.rev <= last_rev'
  BY <1>1 DEF Identity
<1>4. \A o, p \in Held' : o.rev = p.rev => o = p
  BY <1>1 DEF Identity
<1>5. \A i \in DOMAIN expected' : expected'[i] <= last_rev'
  BY <1>1, <1>2 DEF Identity
<1>. QED
  BY <1>3, <1>4, <1>5 DEF Identity

LEMMA SharedFields ==
  ASSUME NEW s \in SharedStates, NEW o \in Objects, NEW x \in WindowStates, NEW w \in BOOLEAN
  PROVE  /\ LET t == [s EXCEPT !.old = o] IN t.old = o /\ t.new = s.new /\ t.state = s.state
         /\ LET t == [s EXCEPT !.new = o] IN t.old = s.old /\ t.new = o /\ t.state = s.state
         /\ LET t == [s EXCEPT !.old = o, !.new = o] IN t.old = o /\ t.new = o /\ t.state = s.state
         /\ LET t == [s EXCEPT !.state = x] IN t.old = s.old /\ t.new = s.new /\ t.state = x
         /\ LET t == [s EXCEPT !.window = w, !.state = x]
            IN  t.old = s.old /\ t.new = s.new /\ t.state = x
         /\ LET t == [s EXCEPT !.state = x, !.window = w]
            IN  t.old = s.old /\ t.new = s.new /\ t.state = x
  BY DEF SharedStates

LEMMA HandleNoticeIdentity == TypeOK /\ Identity /\ HandleNotice => Identity'
<1>. SUFFICES ASSUME TypeOK, Identity, HandleNotice PROVE Identity'
  OBVIOUS
<1>1. Held' \subseteq Held /\ last_rev' = last_rev
    BY HeldTypes DEF HandleNotice, Set, Held, program, window, TypeOK, SharedTypeOK,
       SharedStates
<1>2. expected' = expected \/ expected' = Append(expected, shared.new.rev)
  BY DEF HandleNotice, TrackUnpublishedVersion, program
<1>3. shared.new.rev \in Nat /\ shared.new.rev <= last_rev
  BY HeldTypes DEF Identity, Held
<1>4. \A i \in DOMAIN expected' : expected'[i] <= last_rev
  BY <1>2, <1>3 DEF Identity, TypeOK, ProgramTypeOK
<1>. QED
  BY <1>1, <1>4, NoNewObject

LEMMA NotifySettingsChangedIdentity ==
  TypeOK /\ Identity /\ NotifySettingsChanged => Identity'
<1>. SUFFICES ASSUME TypeOK, Identity, NotifySettingsChanged PROVE Identity'
  OBVIOUS
<1>1. Held' \subseteq Held /\ last_rev' = last_rev
  BY HeldTypes DEF NotifySettingsChanged, Held, window, TypeOK, SharedTypeOK, SharedStates
<1>2. \A i \in DOMAIN expected' : expected'[i] <= last_rev
  BY ForgottenRequests DEF NotifySettingsChanged, Identity, TypeOK
<1>. QED
  BY <1>1, <1>2, NoNewObject

LEMMA PanelDraftFacts ==
  ASSUME TypeOK
  PROVE  [rev |-> last_rev + 1,
          val |-> [icon |-> panel.icon, click |-> panel.click,
                   filters |-> shared.new.val.filters]] \in Objects
  BY HeldTypes DEF TypeOK, ProgramTypeOK, WindowTypeOK, Panels, Objects, Values

(* A revision stays one object. *)
LEMMA IdentityStep == TypeOK /\ Identity /\ [Next]_vars => Identity'
<1>. SUFFICES ASSUME TypeOK, Identity, [Next]_vars PROVE Identity'
  OBVIOUS
<1>. USE HeldTypes, SharedFields DEF TypeOK, SharedTypeOK
<1>1. CASE HandleNotice
  BY <1>1, HandleNoticeIdentity
<1>2. CASE NotifySettingsChanged
  BY <1>2, NotifySettingsChangedIdentity
<1>3. CASE AfterPartialBuild
  <2>. USE <1>3 DEF AfterPartialBuild, program, window, counts, history
  <2>1. Held' \subseteq Held
    BY DEF Held
  <2>. QED
    BY <2>1, NoNewObject DEF Identity
<1>4. CASE ReadSettings
  <2>. USE <1>4 DEF ReadSettings, Goto, program, counts, history
  <2>1. Held' \subseteq Held
    BY DEF Held
  <2>. QED
    BY <2>1, NoNewObject DEF Identity
<1>5. CASE ShareWindow
  <2>. USE <1>5 DEF ShareWindow, Goto, program, window, counts, history
  <2>1. Held' \subseteq Held
    BY DEF Held
  <2>. QED
    BY <2>1, NoNewObject DEF Identity
<1>6. CASE CreateWindow
  <2>. USE <1>6 DEF CreateWindow, Goto, program, window, counts, history
  <2>1. Held' \subseteq Held
    BY DEF Held
  <2>. QED
    BY <2>1, NoNewObject DEF Identity
<1>7. CASE WmCreate
  <2>. USE <1>7 DEF WmCreate, Goto, Reload, program, counts, history
  <2>1. Held' \subseteq Held
    BY DEF Held
  <2>. QED
    BY <2>1, NoNewObject DEF Identity
<1>8. CASE StateChanged
  <2>. USE <1>8 DEF StateChanged, Receive, Reload, program, counts, history
  <2>0. shared'.old = shared.old /\ shared'.new = shared.new
    BY DEF SharedStates
  <2>1. Held' \subseteq Held
    BY <2>0 DEF Held
  <2>. QED
    BY <2>1, NoNewObject DEF Identity
<1>9. CASE SettingChanged
  <2>. DEFINE o == [rev |-> last_rev + 1, val |-> [icon |-> panel.icon, click |-> panel.click, filters |-> shared.new.val.filters]]
  <2>1. o \in Objects /\ o.rev = last_rev + 1
    BY PanelDraftFacts
  <2>2. Held' \subseteq Held \cup {o}
    BY <1>9 DEF Held, SettingChanged, BeginUpdate, program
  <2>3. last_rev' = last_rev + 1 /\ UNCHANGED expected
    BY <1>9 DEF SettingChanged, BeginUpdate, program
  <2>. HIDE DEF o
  <2>. QED
    BY <2>1, <2>2, <2>3, OneNewObject
<1>10. CASE WmClose
  <2>. USE <1>10 DEF WmClose, Receive, Destroy, Goto, program, window, counts, history
  <2>1. Held' \subseteq Held
    BY DEF Held
  <2>. QED
    BY <2>1, NoNewObject DEF Identity
<1>11. CASE Publish
  <2>. USE <1>11 DEF Publish, Goto, program, window, counts
  <2>1. Held' \subseteq Held
    BY DEF Held
  <2>. QED
    BY <2>1, NoNewObject DEF Identity
<1>12. CASE ReloadFromSettings
  <2>. USE <1>12 DEF ReloadFromSettings, Goto, Reload, program, counts, history
  <2>1. Held' \subseteq Held
    BY DEF Held
  <2>. QED
    BY <2>1, NoNewObject DEF Identity
<1>13. CASE DropWindow
  <2>. USE <1>13 DEF DropWindow, Goto, program, window, counts, history
  <2>1. Held' \subseteq Held
    BY DEF Held
  <2>. QED
    BY <2>1, NoNewObject DEF Identity
<1>14. ASSUME NEW choice \in Choices, ChangeInMenu(choice) PROVE Identity'
  <2>. DEFINE o == [rev |-> last_rev + 1, val |-> [settings.val EXCEPT !.icon = choice]]
  <2>1. o \in Objects /\ o.rev = last_rev + 1
    BY DraftFacts
  <2>2. Held' \subseteq Held \cup {o}
    BY <1>14 DEF Held, ChangeInMenu, Set, window
  <2>3. last_rev' = last_rev + 1 /\ UNCHANGED expected
    BY <1>14 DEF ChangeInMenu
  <2>. HIDE DEF o
  <2>. QED
    BY <2>1, <2>2, <2>3, OneNewObject
<1>15. ASSUME NEW choice \in Choices, PostChange(choice) PROVE Identity'
  <2>. USE <1>15 DEF PostChange, program, history
  <2>1. Held' \subseteq Held
    BY DEF Held
  <2>. QED
    BY <2>1, NoNewObject DEF Identity
<1>16. ASSUME NEW choice \in Choices, EditFilters(choice) PROVE Identity'
  <2>. DEFINE o == [rev |-> last_rev + 1, val |-> [shared.new.val EXCEPT !.filters = choice]]
  <2>1. o \in Objects /\ o.rev = last_rev + 1
    BY DraftFacts
  <2>2. Held' \subseteq Held \cup {o}
    BY <1>16 DEF Held, EditFilters, BeginUpdate, program
  <2>3. last_rev' = last_rev + 1 /\ UNCHANGED expected
    BY <1>16 DEF EditFilters, BeginUpdate, program
  <2>. HIDE DEF o
  <2>. QED
    BY <2>1, <2>2, <2>3, OneNewObject
<1>17. ASSUME NEW refocus \in BOOLEAN, ToggleWindow(refocus) PROVE Identity'
  <2>. USE <1>17 DEF ToggleWindow, program, window, history
  <2>1. Held' \subseteq Held
    BY DEF Held
  <2>. QED
    BY <2>1, NoNewObject DEF Identity
<1>18. CASE OpenWindow
  <2>. USE <1>18 DEF OpenWindow, NewShared, program, window
  <2>1. Held' \subseteq Held
    BY DEF Held
  <2>. QED
    BY <2>1, NoNewObject DEF Identity
<1>19. CASE BeforeRebuild
  <2>. USE <1>19 DEF BeforeRebuild, program, window
  <2>1. Held' \subseteq Held
    BY DEF Held
  <2>. QED
    BY <2>1, NoNewObject DEF Identity
<1>20. CASE DropConfigWindow
  <2>. USE <1>20 DEF DropConfigWindow, program, window, counts, history
  <2>0. shared'.old = shared.old /\ shared'.new = shared.new
    BY DEF SharedStates
  <2>1. Held' \subseteq Held
    BY <2>0 DEF Held
  <2>. QED
    BY <2>1, NoNewObject DEF Identity
<1>21. CASE UserCloses
  <2>. USE <1>21 DEF UserCloses, Destroy, Goto, program, window, counts, history
  <2>1. Held' \subseteq Held
    BY DEF Held
  <2>. QED
    BY <2>1, NoNewObject DEF Identity
<1>22. CASE OrphanNotice
  <2>. USE <1>22 DEF OrphanNotice, program, window, counts, history
  <2>1. Held' \subseteq Held
    BY DEF Held
  <2>. QED
    BY <2>1, NoNewObject DEF Identity
<1>23. CASE UNCHANGED vars
  <2>. USE <1>23 DEF vars, program, window, counts, history
  <2>1. Held' \subseteq Held
    BY DEF Held
  <2>. QED
    BY <2>1, NoNewObject DEF Identity
<1>. QED
    BY <1>1, <1>2, <1>3, <1>4, <1>5, <1>6, <1>7, <1>8, <1>9, <1>10, <1>11,
     <1>12, <1>13, <1>14, <1>15, <1>16, <1>17, <1>18, <1>19, <1>20, <1>21,
     <1>22, <1>23
     DEF Next, UiSteps, WindowSteps, Environment
-----------------------------------------------------------------------------
(* What the window thread does leaves the agreement alone. *)
LEMMA WindowKeepsAgreement ==
  ASSUME TypeOK, AgreeInv, UNCHANGED <<ui, settings, expected, author>>,
         thread' # "none" => thread # "none",
         shared'.old = shared.old,
         shared'.new = shared.new \/ (thread = "writing" /\ shared'.new = draft),
         thread' = "writing" => /\ thread = "writing"
                                /\ draft' = draft /\ shared'.new = shared.new
  PROVE  AgreeInv'
<1>. USE DEF AgreeInv, Active
<1>1. NotifiedIsNews'
  BY DEF NotifiedIsNews, WasRequested, Requests, DraftIsUnseen
<1>2. OldTracksSettings'
  BY DEF OldTracksSettings
<1>3. DraftIsUnseen'
  BY DEF DraftIsUnseen
<1>. QED
  BY <1>1, <1>2, <1>3

(* A new draft is new to everybody. *)
LEMMA NewDraftIsUnseen ==
  ASSUME TypeOK, Identity, AgreeInv, NEW val, BeginUpdate(val)
  PROVE  AgreeInv'
<1>. USE DEF AgreeInv, Active, BeginUpdate, Goto, program
<1>1. NotifiedIsNews'
  BY DEF NotifiedIsNews, WasRequested, Requests, history
<1>2. OldTracksSettings'
  BY DEF OldTracksSettings
<1>3. draft'.rev = last_rev + 1 /\ last_rev \in Nat
  BY DEF TypeOK, ProgramTypeOK
<1>4. /\ settings.rev <= last_rev
      /\ shared.old.rev <= last_rev
      /\ shared.new.rev <= last_rev
  BY DEF Identity, Held
<1>5. DraftIsUnseen'
  BY <1>3, <1>4, HeldTypes DEF DraftIsUnseen
<1>. QED
  BY <1>1, <1>2, <1>5

LEMMA HandleNoticeAgrees == TypeOK /\ Identity /\ AgreeInv /\ HandleNotice => AgreeInv'
<1>. SUFFICES ASSUME TypeOK, Identity, AgreeInv, HandleNotice PROVE AgreeInv'
  OBVIOUS
<1>. USE DEF AgreeInv, HandleNotice
<1>1. CASE ~Active \/ shared.old.rev = shared.new.rev
  BY <1>1, WindowKeepsAgreement DEF program, window
<1>2. CASE ~(~Active \/ shared.old.rev = shared.new.rev)
  <2>. USE <1>2 DEF Active
  <2>1. shared.old = settings
    BY DEF OldTracksSettings
  <2>2. /\ expected' = Append(expected, shared.new.rev)
        /\ Set(shared.new, "window")
        /\ UNCHANGED <<shared, thread, draft>>
    BY <2>1 DEF TrackUnpublishedVersion, window
  <2>3. CASE shared.new.val = settings.val
    <3>1. UNCHANGED <<ui, settings>> /\ ui = "idle"
      BY <2>2, <2>3 DEF Set
    <3>. QED
      BY <2>2, <3>1 DEF NotifiedIsNews, OldTracksSettings, DraftIsUnseen
  <2>4. CASE shared.new.val # settings.val
    <3>1. settings' = shared.new /\ author' = "window" /\ ui' = "notifying"
      BY <2>2, <2>4 DEF Set
    <3>2. Len(expected) + 1 \in DOMAIN expected' /\ expected'[Len(expected) + 1] = shared.new.rev
      BY <2>2, HeldTypes DEF TypeOK, ProgramTypeOK
    <3>3. WasRequested'
      BY <3>1, <3>2 DEF WasRequested, Requests
    <3>4. NotifiedIsNews'
      BY <2>2, <3>1, <3>3, <2>1 DEF NotifiedIsNews
    <3>. QED
      BY <2>2, <3>1, <3>4 DEF OldTracksSettings, DraftIsUnseen
  <2>. QED
    BY <2>3, <2>4
<1>. QED
  BY <1>1, <1>2

LEMMA NotifySettingsChangedAgrees ==
  TypeOK /\ Identity /\ AgreeInv /\ NotifySettingsChanged => AgreeInv'
<1>. SUFFICES ASSUME TypeOK, Identity, AgreeInv, NotifySettingsChanged PROVE AgreeInv'
  OBVIOUS
<1>. USE DEF AgreeInv, NotifySettingsChanged, window
<1>1. CASE ~Active
  BY <1>1 DEF NotifiedIsNews, OldTracksSettings, DraftIsUnseen, Active
<1>2. CASE Active
  <2>1. shared.old.rev # settings.rev
    BY <1>2 DEF NotifiedIsNews
  <2>2. /\ shared'.old = settings
        /\ shared'.new = shared.new \/ shared'.new = settings
    <3>1. CASE WasRequested
      BY <1>2, <2>1, <3>1, HeldTypes DEF TypeOK, SharedTypeOK, SharedStates
    <3>2. CASE ~WasRequested
      BY <1>2, <2>1, <3>2, HeldTypes DEF TypeOK, SharedTypeOK, SharedStates
    <3>. QED
      BY <3>1, <3>2
  <2>. QED
    BY <2>2 DEF NotifiedIsNews, OldTracksSettings, DraftIsUnseen
<1>. QED
  BY <1>1, <1>2

LEMMA ChangeInMenuAgrees ==
  ASSUME TypeOK, Identity, AgreeInv, NEW choice \in Choices, ChangeInMenu(choice)
  PROVE  AgreeInv'
<1>. USE DEF AgreeInv, ChangeInMenu, window
<1>. DEFINE o == [rev |-> last_rev + 1, val |-> [settings.val EXCEPT !.icon = choice]]
<1>1. CASE o.val = settings.val
  BY <1>1 DEF Set, NotifiedIsNews, OldTracksSettings, DraftIsUnseen, Active
<1>2. CASE o.val # settings.val
  <2>1. settings' = o /\ author' = "menu" /\ ui' = "notifying"
    BY <1>2 DEF Set
  <2>2. settings'.rev = last_rev + 1 /\ last_rev \in Nat
    BY <2>1 DEF TypeOK, ProgramTypeOK
  <2>3. \A h \in Held : h.rev \in Nat /\ h.rev <= last_rev
    BY HeldTypes DEF Held, Identity
  <2>4. settings'.rev \notin {shared.old.rev, shared.new.rev, draft.rev}
    BY <2>2, <2>3 DEF Held
  <2>5. \A i \in DOMAIN expected : expected[i] \in Nat /\ expected[i] <= last_rev
    BY DEF Identity, TypeOK, ProgramTypeOK
  <2>6. ~WasRequested'
    BY <2>2, <2>5 DEF WasRequested, Requests
  <2>7. NotifiedIsNews'
    BY <2>1, <2>4, <2>6 DEF NotifiedIsNews
  <2>. QED
    BY <2>1, <2>4, <2>7 DEF OldTracksSettings, DraftIsUnseen
<1>. QED
  BY <1>1, <1>2

(* Every step keeps the agreement. *)
LEMMA AgreeStep == TypeOK /\ Identity /\ AgreeInv /\ [Next]_vars => AgreeInv'
<1>. SUFFICES ASSUME TypeOK, Identity, AgreeInv, [Next]_vars PROVE AgreeInv'
  OBVIOUS
<1>. USE DEF TypeOK
<1>1. CASE HandleNotice
  BY <1>1, HandleNoticeAgrees
<1>2. CASE NotifySettingsChanged
  BY <1>2, NotifySettingsChangedAgrees
<1>3. CASE AfterPartialBuild
    BY <1>3 DEF AfterPartialBuild, program, window, counts, history, AgreeInv,
       NotifiedIsNews, OldTracksSettings, DraftIsUnseen, Active
<1>4. CASE ReadSettings
    BY <1>4, SharedFields, HeldTypes, WindowKeepsAgreement DEF ReadSettings, Goto,
       program, window, counts, history, SharedTypeOK, WindowStates
<1>5. CASE ShareWindow
    BY <1>5, SharedFields, HeldTypes, WindowKeepsAgreement DEF ShareWindow, Goto, program,
       window, counts, history, SharedTypeOK, WindowStates
<1>6. CASE CreateWindow
    BY <1>6, SharedFields, HeldTypes, WindowKeepsAgreement DEF CreateWindow, Goto,
       program, window, counts, history, SharedTypeOK, WindowStates
<1>7. CASE WmCreate
    BY <1>7, SharedFields, HeldTypes, WindowKeepsAgreement DEF WmCreate, Goto, Reload,
       program, window, counts, history, SharedTypeOK, WindowStates
<1>8. CASE StateChanged
  <2>1. shared'.old = shared.old /\ shared'.new = shared.new
        BY <1>8, SharedFields, HeldTypes DEF StateChanged, Receive, Reload, program,
         window, counts, history, SharedTypeOK, WindowStates, SharedStates
  <2>. QED
        BY <1>8, <2>1, WindowKeepsAgreement DEF StateChanged, Receive, Reload, program,
         counts, history
<1>9. CASE SettingChanged
  BY <1>9, NewDraftIsUnseen DEF SettingChanged
<1>10. CASE WmClose
    BY <1>10, SharedFields, HeldTypes, WindowKeepsAgreement DEF WmClose, Receive, Destroy,
       Goto, program, window, counts, history, SharedTypeOK, WindowStates
<1>11. CASE Publish
    BY <1>11, SharedFields, HeldTypes, WindowKeepsAgreement DEF Publish, Goto, program,
       window, counts, SharedTypeOK, WindowStates
<1>12. CASE ReloadFromSettings
    BY <1>12, SharedFields, HeldTypes, WindowKeepsAgreement DEF ReloadFromSettings, Goto,
       Reload, program, window, counts, history, SharedTypeOK, WindowStates
<1>13. CASE DropWindow
    BY <1>13, SharedFields, HeldTypes, WindowKeepsAgreement DEF DropWindow, Goto, program,
       window, counts, history, SharedTypeOK, WindowStates
<1>14. ASSUME NEW choice \in Choices, ChangeInMenu(choice) PROVE AgreeInv'
  BY <1>14, ChangeInMenuAgrees
<1>15. ASSUME NEW choice \in Choices, PostChange(choice) PROVE AgreeInv'
    BY <1>15, SharedFields, HeldTypes, WindowKeepsAgreement DEF PostChange, program,
       window, history, SharedTypeOK, WindowStates
<1>16. ASSUME NEW choice \in Choices, EditFilters(choice) PROVE AgreeInv'
  BY <1>16, NewDraftIsUnseen DEF EditFilters
<1>17. ASSUME NEW refocus \in BOOLEAN, ToggleWindow(refocus) PROVE AgreeInv'
  <2>1. shared'.old = shared.old /\ shared'.new = shared.new
        BY <1>17, SharedFields, HeldTypes DEF ToggleWindow, program, window, history,
         SharedTypeOK, WindowStates, SharedStates
  <2>. QED
    BY <1>17, <2>1, WindowKeepsAgreement DEF ToggleWindow, program, window, history
<1>18. CASE OpenWindow
    BY <1>18 DEF OpenWindow, NewShared, program, AgreeInv, NotifiedIsNews,
       OldTracksSettings, DraftIsUnseen
<1>19. CASE BeforeRebuild
    BY <1>19 DEF BeforeRebuild, program, window, AgreeInv, NotifiedIsNews,
       OldTracksSettings, DraftIsUnseen, Active
<1>20. CASE DropConfigWindow
  <2>1. shared'.old = shared.old /\ shared'.new = shared.new
    BY <1>20 DEF DropConfigWindow, SharedTypeOK, SharedStates
  <2>. QED
        BY <1>20, <2>1 DEF DropConfigWindow, AgreeInv, NotifiedIsNews, OldTracksSettings,
         DraftIsUnseen, Active, program, window, history
<1>21. CASE UserCloses
    BY <1>21, SharedFields, HeldTypes, WindowKeepsAgreement DEF UserCloses, Destroy, Goto,
       program, window, counts, history, SharedTypeOK, WindowStates
<1>22. CASE OrphanNotice
    BY <1>22, SharedFields, HeldTypes, WindowKeepsAgreement DEF OrphanNotice, program,
       window, counts, history, SharedTypeOK, WindowStates
<1>23. CASE UNCHANGED vars
    BY <1>23, SharedFields, HeldTypes, WindowKeepsAgreement DEF vars, program, window,
       counts, history, SharedTypeOK, WindowStates
<1>. QED
    BY <1>1, <1>2, <1>3, <1>4, <1>5, <1>6, <1>7, <1>8, <1>9, <1>10, <1>11,
     <1>12, <1>13, <1>14, <1>15, <1>16, <1>17, <1>18, <1>19, <1>20, <1>21,
     <1>22, <1>23
     DEF Next, UiSteps, WindowSteps, Environment
-----------------------------------------------------------------------------
LEMMA KeepsAnnounced ==
  ASSUME TypeOK, UnpublishedIsAnnounced, UNCHANGED <<ui, settings, author, silenced>>,
         notices' \in Nat, notices' >= notices,
         thread' # "none" => thread # "none",
         shared'.old = shared.old, shared'.new = shared.new
  PROVE  UnpublishedIsAnnounced'
  BY DEF UnpublishedIsAnnounced, Unpublished, Announced, Active, TypeOK, ProgramTypeOK

LEMMA HandleNoticeAnnounced ==
  TypeOK /\ AgreeInv /\ UnpublishedIsAnnounced /\ HandleNotice => UnpublishedIsAnnounced'
<1>. SUFFICES ASSUME TypeOK, AgreeInv, UnpublishedIsAnnounced, HandleNotice, Unpublished'
              PROVE  FALSE
  BY DEF UnpublishedIsAnnounced
<1>. USE DEF HandleNotice, window
<1>1. CASE ~Active \/ shared.old.rev = shared.new.rev
  BY <1>1 DEF Unpublished, Active
<1>2. CASE ~(~Active \/ shared.old.rev = shared.new.rev)
  <2>1. shared.old = settings
    BY <1>2 DEF AgreeInv, OldTracksSettings
  <2>2. Set(shared.new, "window") /\ UNCHANGED shared
    BY <1>2, <2>1
  <2>3. settings'.val = shared.new.val
    BY <2>2 DEF Set
  <2>. QED
    BY <2>2, <2>3 DEF Unpublished
<1>. QED
  BY <1>1, <1>2

LEMMA NotifySettingsChangedAnnounced ==
  TypeOK /\ AgreeInv /\ UnpublishedIsAnnounced /\ NotifySettingsChanged => UnpublishedIsAnnounced'
<1>. SUFFICES ASSUME TypeOK, AgreeInv, UnpublishedIsAnnounced, NotifySettingsChanged, Unpublished',
                     ~silenced
              PROVE  notices' > 0
  BY DEF UnpublishedIsAnnounced, Announced, NotifySettingsChanged, history
<1>. USE DEF NotifySettingsChanged, window, history
<1>1. Active /\ shared.old.rev # settings.rev
  BY DEF Unpublished, Active, AgreeInv, NotifiedIsNews
<1>2. CASE ~WasRequested
  <2>1. shared'.old = settings /\ shared'.new = settings
    <3>1. shared' = [shared EXCEPT !.old = settings, !.new = settings]
      BY <1>1, <1>2
    <3>. QED
      BY <3>1 DEF TypeOK, SharedTypeOK, SharedStates
  <2>. QED
    BY <2>1 DEF Unpublished
<1>3. CASE WasRequested
  <2>1. author = "window" /\ shared.new.rev # shared.old.rev
    BY <1>1, <1>3 DEF AgreeInv, NotifiedIsNews
  <2>2. shared'.new = shared.new
    BY <1>1, <1>3, HeldTypes DEF TypeOK, SharedTypeOK, SharedStates
  <2>3. Unpublished
    BY <1>1, <2>1, <2>2 DEF Unpublished
  <2>. QED
    BY <2>1, <2>3 DEF UnpublishedIsAnnounced, Announced
<1>. QED
  BY <1>2, <1>3

LEMMA ChangeInMenuAnnounced ==
  ASSUME TypeOK, UnpublishedIsAnnounced, NEW choice \in Choices, ChangeInMenu(choice)
  PROVE  UnpublishedIsAnnounced'
<1>. USE DEF ChangeInMenu, Set
<1>. DEFINE o == [rev |-> last_rev + 1, val |-> [settings.val EXCEPT !.icon = choice]]
<1>1. CASE o.val = settings.val
  BY <1>1, KeepsAnnounced DEF TypeOK, ProgramTypeOK
<1>2. CASE o.val # settings.val
  BY <1>2 DEF UnpublishedIsAnnounced, Announced
<1>. QED
  BY <1>1, <1>2

(* No step leaves a wish without a notice. *)
LEMMA AnnouncedStep == TypeOK /\ AgreeInv /\ UnpublishedIsAnnounced /\ [Next]_vars => UnpublishedIsAnnounced'
<1>. SUFFICES ASSUME TypeOK, AgreeInv, UnpublishedIsAnnounced, [Next]_vars PROVE UnpublishedIsAnnounced'
  OBVIOUS
<1>. USE DEF TypeOK
<1>1. CASE HandleNotice
  BY <1>1, HandleNoticeAnnounced
<1>2. CASE NotifySettingsChanged
  BY <1>2, NotifySettingsChangedAnnounced
<1>3. CASE AfterPartialBuild
    BY <1>3 DEF AfterPartialBuild, program, history, UnpublishedIsAnnounced, Unpublished,
       Announced, Active
<1>4. CASE ReadSettings
    BY <1>4, SharedFields, HeldTypes, KeepsAnnounced DEF ReadSettings, Goto, program,
       window, counts, history, ProgramTypeOK, SharedTypeOK, WindowStates
<1>5. CASE ShareWindow
    BY <1>5, SharedFields, HeldTypes, KeepsAnnounced DEF ShareWindow, Goto, program,
       window, counts, history, ProgramTypeOK, SharedTypeOK, WindowStates
<1>6. CASE CreateWindow
    BY <1>6, SharedFields, HeldTypes, KeepsAnnounced DEF CreateWindow, Goto, program,
       window, counts, history, ProgramTypeOK, SharedTypeOK, WindowStates
<1>7. CASE WmCreate
    BY <1>7, SharedFields, HeldTypes, KeepsAnnounced DEF WmCreate, Goto, Reload, program,
       window, counts, history, ProgramTypeOK, SharedTypeOK, WindowStates
<1>8. CASE StateChanged
  <2>1. shared'.old = shared.old /\ shared'.new = shared.new
        BY <1>8, SharedFields, HeldTypes DEF StateChanged, Receive, Reload, program,
         window, counts, history, SharedTypeOK, WindowStates, SharedStates
  <2>. QED
        BY <1>8, <2>1, KeepsAnnounced DEF StateChanged, Receive, Reload, program, counts,
         history, ProgramTypeOK
<1>9. CASE SettingChanged
    BY <1>9, SharedFields, HeldTypes, KeepsAnnounced DEF SettingChanged, Receive,
       BeginUpdate, Goto, program, window, history, ProgramTypeOK, SharedTypeOK,
       WindowStates
<1>10. CASE WmClose
    BY <1>10, SharedFields, HeldTypes, KeepsAnnounced DEF WmClose, Receive, Destroy, Goto,
       program, window, counts, history, ProgramTypeOK, SharedTypeOK, WindowStates
<1>11. CASE Publish
  <2>1. CASE ui \in {"idle", "notifying"}
    BY <1>11, <2>1 DEF Publish, ProgramTypeOK, UnpublishedIsAnnounced, Announced
  <2>2. CASE ui \in {"rebuilding", "exited"}
    BY <1>11, <2>2 DEF Publish, UnpublishedIsAnnounced
  <2>. QED
    BY <2>1, <2>2 DEF ProgramTypeOK, UiStates
<1>12. CASE ReloadFromSettings
    BY <1>12, SharedFields, HeldTypes, KeepsAnnounced DEF ReloadFromSettings, Goto,
       Reload, program, window, counts, history, ProgramTypeOK, SharedTypeOK, WindowStates
<1>13. CASE DropWindow
    BY <1>13, SharedFields, HeldTypes, KeepsAnnounced DEF DropWindow, Goto, program,
       window, counts, history, ProgramTypeOK, SharedTypeOK, WindowStates
<1>14. ASSUME NEW choice \in Choices, ChangeInMenu(choice) PROVE UnpublishedIsAnnounced'
  BY <1>14, ChangeInMenuAnnounced
<1>15. ASSUME NEW choice \in Choices, PostChange(choice) PROVE UnpublishedIsAnnounced'
    BY <1>15, SharedFields, HeldTypes, KeepsAnnounced DEF PostChange, program, window,
       history, ProgramTypeOK, SharedTypeOK, WindowStates
<1>16. ASSUME NEW choice \in Choices, EditFilters(choice) PROVE UnpublishedIsAnnounced'
    BY <1>16, SharedFields, HeldTypes, KeepsAnnounced DEF EditFilters, BeginUpdate, Goto,
       program, window, history, ProgramTypeOK, SharedTypeOK, WindowStates
<1>17. ASSUME NEW refocus \in BOOLEAN, ToggleWindow(refocus) PROVE UnpublishedIsAnnounced'
  <2>1. shared'.old = shared.old /\ shared'.new = shared.new
        BY <1>17, SharedFields, HeldTypes DEF ToggleWindow, program, window, history,
         SharedTypeOK, WindowStates, SharedStates
  <2>. QED
    BY <1>17, <2>1, KeepsAnnounced DEF ToggleWindow, program, window, history, ProgramTypeOK
<1>18. CASE OpenWindow
  BY <1>18 DEF OpenWindow, NewShared, UnpublishedIsAnnounced, Unpublished, Announced, Active
<1>19. CASE BeforeRebuild
    BY <1>19 DEF BeforeRebuild, program, ProgramTypeOK, UnpublishedIsAnnounced,
       Unpublished, Announced, Active
<1>20. CASE DropConfigWindow
  BY <1>20 DEF DropConfigWindow, UnpublishedIsAnnounced
<1>21. CASE UserCloses
    BY <1>21, SharedFields, HeldTypes, KeepsAnnounced DEF UserCloses, Destroy, Goto,
       program, window, counts, history, ProgramTypeOK, SharedTypeOK, WindowStates
<1>22. CASE OrphanNotice
    BY <1>22, SharedFields, HeldTypes, KeepsAnnounced DEF OrphanNotice, program, window,
       counts, history, ProgramTypeOK, SharedTypeOK, WindowStates
<1>23. CASE UNCHANGED vars
    BY <1>23, SharedFields, HeldTypes, KeepsAnnounced DEF vars, program, window, counts,
       history, ProgramTypeOK, SharedTypeOK, WindowStates
<1>. QED
    BY <1>1, <1>2, <1>3, <1>4, <1>5, <1>6, <1>7, <1>8, <1>9, <1>10, <1>11,
     <1>12, <1>13, <1>14, <1>15, <1>16, <1>17, <1>18, <1>19, <1>20, <1>21,
     <1>22, <1>23
     DEF Next, UiSteps, WindowSteps, Environment
-----------------------------------------------------------------------------
LEMMA ToldFacts ==
  ASSUME MessageTypeOK
  PROVE  /\ NotifyWindow /\ thread \in HasWindow => Told'
         /\ NotifyWindow /\ Told => Told'
         /\ Told /\ messages' = Append(messages, "setting") => Told'
         /\ messages # <<>> /\ Head(messages) # "state" /\ messages' = Tail(messages) /\ Told
               => Told'
<1>1. ASSUME NotifyWindow, thread \in HasWindow PROVE Told'
  <2>1. messages' = Append(messages, "state")
    BY <1>1 DEF NotifyWindow
  <2>2. Len(messages) + 1 \in DOMAIN messages' /\ messages'[Len(messages) + 1] = "state"
    BY <2>1 DEF MessageTypeOK
  <2>. QED
    BY <2>2 DEF Told
<1>2. \A m \in Messages : Told /\ messages' = Append(messages, m) => Told'
  BY DEF MessageTypeOK, Told
<1>3. "setting" \in Messages
  BY DEF Messages
<1>4. ASSUME NotifyWindow, Told PROVE Told'
  BY <1>1, <1>4 DEF NotifyWindow, Told
<1>5. ASSUME messages # <<>>, Head(messages) # "state", messages' = Tail(messages), Told
      PROVE  Told'
  <2>1. PICK i \in DOMAIN messages : messages[i] = "state"
    BY <1>5 DEF Told
  <2>2. messages \in Seq(Messages)
    BY DEF MessageTypeOK
  <2>3. i \in 2..Len(messages)
    BY <1>5, <2>1, <2>2
  <2>4. i - 1 \in DOMAIN messages' /\ messages'[i - 1] = "state"
    BY <1>5, <2>1, <2>2, <2>3
  <2>. QED
    BY <2>4 DEF Told
<1>. QED
  BY <1>1, <1>2, <1>3, <1>4, <1>5

LEMMA KeepsShown ==
  ASSUME ShownInv, UNCHANGED <<thread, loaded, draft>>, shared'.new = shared.new,
         shared'.state # "Closed" => shared.state # "Closed",
         Told => Told'
  PROVE  ShownInv'
  BY DEF ShownInv, DraftIsDesired, WindowShowsDesired, Told

LEMMA NotifySettingsChangedShown ==
  TypeOK /\ ShownInv /\ NotifySettingsChanged => ShownInv'
<1>. SUFFICES ASSUME TypeOK, ShownInv, NotifySettingsChanged PROVE ShownInv'
  OBVIOUS
<1>. USE DEF NotifySettingsChanged, window
<1>0. MessageTypeOK
  BY DEF TypeOK
<1>1. CASE UNCHANGED <<shared, messages>>
  BY <1>1, KeepsShown DEF Told
<1>2. CASE ~UNCHANGED <<shared, messages>> /\ WasRequested
  <2>1. shared'.new = shared.new /\ shared'.state = shared.state /\ UNCHANGED messages
    BY <1>2, HeldTypes DEF TypeOK, SharedTypeOK, SharedStates
  <2>. QED
    BY <2>1, KeepsShown DEF Told
<1>3. CASE ~UNCHANGED <<shared, messages>> /\ ~WasRequested
  <2>1. shared'.state = shared.state
    BY <1>3, HeldTypes DEF TypeOK, SharedTypeOK, SharedStates
  <2>2. CASE thread \in HasWindow /\ shared.state # "Closed"
    BY <1>0, <1>3, <2>2, ToldFacts DEF ShownInv, DraftIsDesired, WindowShowsDesired, Told
  <2>3. CASE thread \notin HasWindow \/ shared.state = "Closed"
    BY <2>1, <2>3 DEF ShownInv, DraftIsDesired, WindowShowsDesired, HasWindow
  <2>. QED
    BY <2>2, <2>3
<1>. QED
  BY <1>1, <1>2, <1>3

LEMMA StateChangedShown ==
  TypeOK /\ Identity /\ ShownInv /\ StateChanged => ShownInv'
<1>. SUFFICES ASSUME TypeOK, Identity, ShownInv, StateChanged PROVE ShownInv'
  OBVIOUS
<1>. USE DEF StateChanged, Receive
<1>1. thread' = "idle"
  OBVIOUS
<1>2. CASE shared.state = "Closed"
  BY <1>1, <1>2 DEF ShownInv, DraftIsDesired, WindowShowsDesired
<1>3. CASE shared.state # "Closed"
  <2>1. shared'.new = shared.new
    BY <1>3 DEF TypeOK, SharedTypeOK, SharedStates
  <2>2. loaded' = shared.new
    BY <1>3 DEF Reload, Identity, Held
  <2>. QED
    BY <1>1, <2>1, <2>2 DEF ShownInv, DraftIsDesired, WindowShowsDesired
<1>. QED
  BY <1>2, <1>3

(* Every step keeps the window up to date, or tells it. *)
LEMMA ShownStep == TypeOK /\ Identity /\ AgreeInv /\ ShownInv /\ [Next]_vars => ShownInv'
<1>. SUFFICES ASSUME TypeOK, Identity, AgreeInv, ShownInv, [Next]_vars PROVE ShownInv'
  OBVIOUS
<1>. USE DEF TypeOK
<1>1. CASE HandleNotice
  <2>1. UNCHANGED <<shared, messages>>
    BY <1>1 DEF HandleNotice, AgreeInv, OldTracksSettings
  <2>. QED
    BY <1>1, <2>1, KeepsShown DEF HandleNotice, window, Told
<1>2. CASE NotifySettingsChanged
  BY <1>2, NotifySettingsChangedShown
<1>3. CASE AfterPartialBuild
    BY <1>3 DEF AfterPartialBuild, program, window, counts, history, ShownInv,
       DraftIsDesired, WindowShowsDesired, Told
<1>4. CASE ReadSettings
    BY <1>4 DEF ReadSettings, Goto, program, counts, history, ShownInv, DraftIsDesired,
       WindowShowsDesired, Told
<1>5. CASE ShareWindow
    BY <1>5 DEF ShareWindow, Goto, program, window, counts, history, ShownInv,
       DraftIsDesired, WindowShowsDesired, Told
<1>6. CASE CreateWindow
    BY <1>6 DEF CreateWindow, Goto, program, window, counts, history, ShownInv,
       DraftIsDesired, WindowShowsDesired, Told
<1>7. CASE WmCreate
    BY <1>7 DEF WmCreate, Goto, Reload, program, counts, history, ShownInv,
       DraftIsDesired, WindowShowsDesired, Told
<1>8. CASE StateChanged
  BY <1>8, StateChangedShown
<1>9. CASE SettingChanged
    BY <1>9 DEF SettingChanged, Receive, BeginUpdate, Goto, program, history, ShownInv,
       DraftIsDesired, WindowShowsDesired, Told
<1>10. CASE WmClose
    BY <1>10 DEF WmClose, Receive, Destroy, Goto, program, window, counts, history,
       ShownInv, DraftIsDesired, WindowShowsDesired, Told
<1>11. CASE Publish
    BY <1>11, SharedFields, HeldTypes DEF Publish, Goto, window, SharedTypeOK, ShownInv,
       DraftIsDesired, WindowShowsDesired, Told
<1>12. CASE ReloadFromSettings
    BY <1>12 DEF ReloadFromSettings, Goto, Reload, ShownInv, DraftIsDesired,
       WindowShowsDesired, Told
<1>13. CASE DropWindow
    BY <1>13 DEF DropWindow, Goto, program, window, counts, history, ShownInv,
       DraftIsDesired, WindowShowsDesired, Told
<1>14. ASSUME NEW choice \in Choices, ChangeInMenu(choice) PROVE ShownInv'
  BY <1>14 DEF ChangeInMenu, Set, window, ShownInv, DraftIsDesired, WindowShowsDesired, Told
<1>15. ASSUME NEW choice \in Choices, PostChange(choice) PROVE ShownInv'
  <2>1. Told => Told'
    BY <1>15, ToldFacts DEF PostChange
  <2>. QED
    BY <1>15, <2>1, KeepsShown DEF PostChange
<1>16. ASSUME NEW choice \in Choices, EditFilters(choice) PROVE ShownInv'
    BY <1>16 DEF EditFilters, BeginUpdate, Goto, program, history, ShownInv,
       DraftIsDesired, WindowShowsDesired, Told
<1>17. ASSUME NEW refocus \in BOOLEAN, ToggleWindow(refocus) PROVE ShownInv'
  <2>1. shared'.new = shared.new /\ (shared'.state # "Closed" => shared.state # "Closed")
    BY <1>17 DEF ToggleWindow, SharedTypeOK, SharedStates
  <2>. QED
    BY <1>17, <2>1, ToldFacts, KeepsShown DEF ToggleWindow, window
<1>18. CASE OpenWindow
    BY <1>18 DEF OpenWindow, NewShared, program, window, ShownInv, DraftIsDesired,
       WindowShowsDesired, Told
<1>19. CASE BeforeRebuild
    BY <1>19 DEF BeforeRebuild, program, window, ShownInv, DraftIsDesired,
       WindowShowsDesired, Told
<1>20. CASE DropConfigWindow
  <2>1. shared'.new = shared.new /\ (shared'.state # "Closed" => shared.state # "Closed")
    BY <1>20 DEF DropConfigWindow, SharedTypeOK, SharedStates
  <2>2. Told => Told'
    BY <1>20, ToldFacts DEF DropConfigWindow, Told
  <2>. QED
    BY <1>20, <2>1, <2>2, KeepsShown DEF DropConfigWindow, window
<1>21. CASE UserCloses
    BY <1>21 DEF UserCloses, Destroy, Goto, program, window, counts, history, ShownInv,
       DraftIsDesired, WindowShowsDesired, Told
<1>22. CASE OrphanNotice
    BY <1>22 DEF OrphanNotice, program, window, counts, history, ShownInv, DraftIsDesired,
       WindowShowsDesired, Told
<1>23. CASE UNCHANGED vars
    BY <1>23 DEF vars, program, window, counts, history, ShownInv, DraftIsDesired,
       WindowShowsDesired, Told
<1>. QED
    BY <1>1, <1>2, <1>3, <1>4, <1>5, <1>6, <1>7, <1>8, <1>9, <1>10, <1>11,
     <1>12, <1>13, <1>14, <1>15, <1>16, <1>17, <1>18, <1>19, <1>20, <1>21,
     <1>22, <1>23
     DEF Next, UiSteps, WindowSteps, Environment
-----------------------------------------------------------------------------
LEMMA IInvInit == Init => IInv
<1>. SUFFICES ASSUME Init PROVE IInv
  OBVIOUS
<1>. USE ConfigAssumption DEF Init, NewShared
<1>1. TypeOK
  <2>1. settings \in Objects /\ panel \in Panels
    BY DEF Objects, Values, Panels, PanelOf
  <2>2. ProgramTypeOK
    BY <2>1 DEF ProgramTypeOK, UiStates
  <2>3. SharedTypeOK
    BY <2>1 DEF SharedTypeOK, SharedStates, WindowStates, ThreadStates, HasWindow
  <2>4. WindowTypeOK
    BY <2>1 DEF WindowTypeOK
  <2>5. MessageTypeOK
    BY DEF MessageTypeOK
  <2>6. CountTypeOK
    <3>1. chosen = Initial
      OBVIOUS
    <3>2. 0 \in 0..MaxChanges /\ 0 \in 0..MaxOpens /\ 0 \in 0..MaxRebuilds
      OBVIOUS
    <3>. QED
      BY <3>1, <3>2 DEF CountTypeOK
  <2>. QED
    BY <2>2, <2>3, <2>4, <2>5, <2>6 DEF TypeOK
<1>2. Identity
  BY DEF Identity, Held
<1>3. AgreeInv /\ UnpublishedIsAnnounced /\ ShownInv
  BY DEF AgreeInv, NotifiedIsNews, OldTracksSettings, DraftIsUnseen,
         UnpublishedIsAnnounced, Unpublished, Active, ShownInv, DraftIsDesired,
         WindowShowsDesired
<1>. QED
  BY <1>1, <1>2, <1>3 DEF IInv

LEMMA IInvStep == IInv /\ [Next]_vars => IInv'
  BY TypeStep, IdentityStep, AgreeStep, AnnouncedStep, ShownStep DEF IInv

(* The inductive invariant holds in every state of every behaviour. *)
THEOREM Invariance == Spec => []IInv
  BY IInvInit, IInvStep, PTL DEF Spec

(* The variables of both threads, and the handle the UI thread posts        *)
(* messages to (lib.rs:132-146), are always of their types, and messages    *)
(* are queued only for a window that exists.                                *)
THEOREM Typing == Spec => []TypeOK
<1>1. IInv => TypeOK
  BY DEF IInv
<1>. QED
  BY <1>1, Invariance, PTL

(* `old` is the program's current settings whenever the UI thread takes an  *)
(* event, so on_notice_settings never finds that "someone else changed      *)
(* settings while our changes were pending" (lib.rs:219-232).               *)
THEOREM OldIsCurrent == Spec => []OldTracksSettings
<1>1. IInv => OldTracksSettings
  BY DEF IInv, AgreeInv
<1>. QED
  BY <1>1, Invariance, PTL

(* A wish of the window always has a notice on its way to the UI thread,    *)
(* or is about to be taken back, unless a rebuild lost its notice           *)
(* (lib.rs:137, 293).                                                       *)
THEOREM NoWishForgotten == Spec => []UnpublishedIsAnnounced
<1>1. IInv => UnpublishedIsAnnounced
  BY DEF IInv
<1>. QED
  BY <1>1, Invariance, PTL

(* An open window without unread messages shows what is wished for, however *)
(* its creation, updates and reloads met with changes from elsewhere        *)
(* (config_window.rs:381, 470, 1222).                                       *)
THEOREM WindowUpToDate == Spec => []WindowShowsDesired
<1>1. IInv => WindowShowsDesired
  BY DEF IInv, ShownInv
<1>. QED
  BY <1>1, Invariance, PTL

(* Publishing a change of the window takes back nothing the window wished   *)
(* for meanwhile (lib.rs:207-209, 299-333).                                 *)
THEOREM NewerWishesSurvive == Spec => OnlyOthersRollBack
<1>. DEFINE A == /\ ui = "notifying" /\ ui' = "idle"
                 /\ shared'.new # shared.new
                 => author = "menu"
<1>1. IInv /\ [Next]_vars => [A]_vars
  <2>. SUFFICES ASSUME IInv, [Next]_vars, ui = "notifying", ui' = "idle",
                       shared'.new # shared.new
                PROVE  author = "menu"
    OBVIOUS
  <2>1. NotifySettingsChanged
    BY DEF Next, UiSteps, WindowSteps, Environment, vars, HandleNotice, AfterPartialBuild,
           ReadSettings, ShareWindow, CreateWindow, WmCreate, StateChanged, SettingChanged,
           WmClose, Publish, ReloadFromSettings, DropWindow, ChangeInMenu, PostChange,
           EditFilters, BeginUpdate, ToggleWindow, OpenWindow, BeforeRebuild,
           DropConfigWindow, UserCloses, Destroy, OrphanNotice
  <2>2. ~WasRequested
    <3>. SUFFICES ASSUME WasRequested PROVE FALSE
      OBVIOUS
    <3>1. shared'.new = shared.new
      BY <2>1, HeldTypes DEF NotifySettingsChanged, IInv, TypeOK, SharedTypeOK, SharedStates
    <3>. QED
      BY <3>1
  <2>. QED
    BY <2>2 DEF IInv, TypeOK, CountTypeOK, AgreeInv, NotifiedIsNews
<1>. QED
  BY <1>1, Invariance, PTL DEF Spec, OnlyOthersRollBack
=============================================================================
