------------------------ MODULE OtherProcessesProofs ------------------------
(***************************************************************************)
(* What the program has to settle with other processes, for any            *)
(* combinations of keys, any number of presses and of failing calls: the   *)
(* hotkeys, which other programs may hold, and which instance of the       *)
(* program goes on after a restart.                                        *)
(*                                                                         *)
(* RegisteredIsKnown and HotkeysFollowSettings are inductive together:     *)
(* what a registration finds taken, other programs hold or an earlier      *)
(* failure has left.  OneGoesOn is not: that the parent goes on only when  *)
(* the child has ended or can no longer be watched follows from the same   *)
(* being true of everything that makes it give up, an error in the channel *)
(* and a connection that it has closed or made itself included.            *)
(***************************************************************************)
EXTENDS Hotkeys, Elevation, SequenceTheorems, TLAPS
-----------------------------------------------------------------------------
(***************************************************************************)
(* The hotkeys.                                                            *)
(***************************************************************************)

HotkeysInv == TypeOK /\ RegisteredIsKnown /\ HotkeysFollowSettings
-----------------------------------------------------------------------------
LEMMA ToSetSeq ==
    ASSUME NEW S, NEW s \in Seq(S)
    PROVE  /\ ToSet(s) \subseteq S
           /\ ToSet(s) = {s[i] : i \in DOMAIN s}
  BY DEF ToSet

LEMMA ToSetEmpty == ToSet(<<>>) = {}
  BY DEF ToSet

(* register_all registers hotkeys of its list that were not taken, and all *)
(* of them if it does not fail.                                            *)
LEMMA RegisteredFacts ==
    ASSUME NEW new \in Seq(Hotkeys), NEW taken
    PROVE  /\ Registered(new, taken) \subseteq Hotkeys \ taken
           /\ Refused(new, taken) = {} => Registered(new, taken) = ToSet(new)
<1>1. ASSUME NEW i \in DOMAIN new, \A j \in 1..i : j \notin Refused(new, taken)
      PROVE  new[i] \in Hotkeys \ taken
  <2>1. i \in 1..i
    OBVIOUS
  <2>. QED  BY <1>1, <2>1 DEF Refused
<1>2. Registered(new, taken) \subseteq Hotkeys \ taken
  BY <1>1 DEF Registered
<1>3. ASSUME Refused(new, taken) = {} PROVE Registered(new, taken) = ToSet(new)
  BY <1>3, ToSetSeq DEF Registered
<1>. QED  BY <1>2, <1>3

LEMMA TwoHotkeys ==
    ASSUME NEW S, NEW a \in S, NEW b \in S
    PROVE  <<a>> \o <<b>> \in Seq(S) /\ Len(<<a>> \o <<b>>) = 2
           /\ (<<a>> \o <<b>>)[1] = a /\ (<<a>> \o <<b>>)[2] = b
<1>1. <<a>> \in Seq(S) /\ <<b>> \in Seq(S)
  OBVIOUS
<1>. QED  BY <1>1, ConcatProperties

(* The list has at most two hotkeys, in the order of the settings.         *)
LEMMA NewHotkeysFacts ==
    ASSUME NEW ui \in [HotkeySettings -> Texts]
    PROVE  /\ NewHotkeys(ui) \in Seq(Hotkeys)
           /\ \A i, j \in DOMAIN NewHotkeys(ui) :
                 j < i => /\ NewHotkeys(ui)[j] = ui.quick_switch_hotkey
                          /\ NewHotkeys(ui)[i] = ui.open_menu_at_mouse_pos_hotkey
<1>. DEFINE quick == ui.quick_switch_hotkey
            open == ui.open_menu_at_mouse_pos_hotkey
<1>1. CASE quick \in Hotkeys /\ open \in Hotkeys
  <2>1. Parsed(quick) = <<quick>> /\ Parsed(open) = <<open>>
    BY <1>1 DEF Parsed
  <2>2. /\ NewHotkeys(ui) \in Seq(Hotkeys) /\ Len(NewHotkeys(ui)) = 2
        /\ NewHotkeys(ui)[1] = quick /\ NewHotkeys(ui)[2] = open
    BY <1>1, <2>1, TwoHotkeys DEF NewHotkeys
  <2>. QED  BY <1>1, <2>2
<1>2. CASE quick \in Hotkeys /\ open \notin Hotkeys
  <2>1. NewHotkeys(ui) = <<quick>>
    BY <1>2 DEF NewHotkeys, Parsed
  <2>. QED  BY <1>2, <2>1
<1>3. CASE quick \notin Hotkeys /\ open \in Hotkeys
  <2>1. NewHotkeys(ui) = <<open>>
    BY <1>3 DEF NewHotkeys, Parsed
  <2>. QED  BY <1>3, <2>1
<1>4. CASE quick \notin Hotkeys /\ open \notin Hotkeys
  <2>1. NewHotkeys(ui) = <<>>
    BY <1>4 DEF NewHotkeys, Parsed
  <2>. QED  BY <2>1
<1>. QED  BY <1>1, <1>2, <1>3, <1>4

(* If register_all fails, a hotkey was taken or is in the list twice.      *)
LEMMA RefusedReason ==
    ASSUME NEW ui \in [HotkeySettings -> Texts], NEW taken,
           Refused(NewHotkeys(ui), taken) # {}
    PROVE  \/ ToSet(NewHotkeys(ui)) \cap taken # {}
           \/ ui.quick_switch_hotkey = ui.open_menu_at_mouse_pos_hotkey
<1>. DEFINE new == NewHotkeys(ui)
<1>0. new \in Seq(Hotkeys)
  BY NewHotkeysFacts
<1>1. PICK i \in DOMAIN new : new[i] \in taken \/ \E j \in 1..(i - 1) : new[j] = new[i]
  BY DEF Refused
<1>2. CASE new[i] \in taken
  <2>1. new[i] \in ToSet(new)
    BY <1>0, ToSetSeq
  <2>. QED  BY <1>2, <2>1
<1>3. CASE \E j \in 1..(i - 1) : new[j] = new[i]
  <2>1. PICK j \in 1..(i - 1) : new[j] = new[i]
    BY <1>3
  <2>2. j \in DOMAIN new /\ j < i
    BY <1>0
  <2>. QED  BY <2>1, <2>2, NewHotkeysFacts
<1>. QED  BY <1>1, <1>2, <1>3
-----------------------------------------------------------------------------
(* register_all after unregister_all, in any state and for any settings.   *)
LEMMA UpdateFacts ==
    ASSUME HotkeysInv, NEW ui \in [HotkeySettings -> Texts], UpdateHotkeys(ui), UNCHANGED others
    PROVE  /\ registered_hotkeys' \in Seq(Hotkeys)
           /\ DOMAIN action_lookup' = ToSet(registered_hotkeys')
           /\ held' \in SUBSET Hotkeys /\ refused' \in SUBSET Hotkeys /\ left' \in SUBSET Hotkeys
           /\ RegisteredIsKnown'
           /\ \/ action_lookup' = NewLookup(ui) /\ registered_hotkeys' = NewHotkeys(ui)
              \/ /\ action_lookup' = Nothing
                 /\ \/ ToSet(NewHotkeys(ui)) \cap (refused' \cup left') # {}
                    \/ ui.quick_switch_hotkey = ui.open_menu_at_mouse_pos_hotkey
<1>. DEFINE new == NewHotkeys(ui)
            taken == left \cup others
            added == Registered(new, taken)
<1>1. new \in Seq(Hotkeys)
  BY NewHotkeysFacts
<1>2. left \in SUBSET Hotkeys /\ others \in SUBSET Hotkeys /\ held \cap others = {}
  BY DEF HotkeysInv, TypeOK, RegisteredIsKnown
<1>3. held \ ToSet(registered_hotkeys) = left /\ left \cap others = {}
  BY DEF HotkeysInv, RegisteredIsKnown
<1>4. added \subseteq Hotkeys \ taken
  BY <1>1, RegisteredFacts
<1>5. held' = left \cup added /\ refused' = others
  BY <1>3 DEF UpdateHotkeys, RegisterAll
<1>6. CASE Refused(new, taken) = {}
  <2>1. registered_hotkeys' = new /\ action_lookup' = NewLookup(ui) /\ left' = left
    BY <1>3, <1>6 DEF UpdateHotkeys, RegisterAll
  <2>2. added = ToSet(new)
    BY <1>1, <1>6, RegisteredFacts
  <2>3. DOMAIN action_lookup' = ToSet(registered_hotkeys')
    BY <2>1 DEF NewLookup
  <2>. QED  BY <1>1, <1>2, <1>3, <1>4, <1>5, <2>1, <2>2, <2>3 DEF RegisteredIsKnown
<1>7. CASE Refused(new, taken) # {}
  <2>1. registered_hotkeys' = <<>> /\ action_lookup' = Nothing /\ left' = left \cup added
    BY <1>3, <1>7 DEF UpdateHotkeys, RegisterAll
  <2>2. \/ ToSet(new) \cap (refused' \cup left') # {}
        \/ ui.quick_switch_hotkey = ui.open_menu_at_mouse_pos_hotkey
    BY <1>5, <1>7, <2>1, RefusedReason
  <2>3. ToSet(registered_hotkeys') = {} /\ DOMAIN action_lookup' = {}
    BY <2>1, ToSetEmpty DEF Nothing
  <2>4. registered_hotkeys' \in Seq(Hotkeys)
    BY <2>1
  <2>. QED  BY <1>2, <1>3, <1>4, <1>5, <2>1, <2>2, <2>3, <2>4 DEF RegisteredIsKnown
<1>. QED  BY <1>6, <1>7

LEMMA HotkeysInit == Init => HotkeysInv
<1>. SUFFICES ASSUME Init PROVE HotkeysInv
  OBVIOUS
<1>1. ToSet(registered_hotkeys) = {} /\ DOMAIN action_lookup = {}
  BY ToSetEmpty DEF Init, Nothing
<1>2. TypeOK
  <2>1. registered_hotkeys \in Seq(Hotkeys) /\ heard \in Seq(Hotkeys) /\ events \in Seq(Hotkeys)
    BY DEF Init
  <2>2. Len(heard) <= MaxPresses /\ Len(events) <= MaxEvents
    BY HotkeysAssumption DEF Init
  <2>. QED  BY <1>1, <2>1, <2>2, Zenon DEF Init, TypeOK
<1>3. RegisteredIsKnown /\ HotkeysFollowSettings
  BY <1>1 DEF Init, RegisteredIsKnown, HotkeysFollowSettings
<1>. QED  BY <1>2, <1>3 DEF HotkeysInv

(* One step of the UI thread, the listener thread or Windows.              *)
LEMMA UiStep == HotkeysInv /\ (UiThread \/ BeforeRebuild \/ ChangeSettings) => HotkeysInv'
<1>. SUFFICES ASSUME HotkeysInv, UiThread \/ BeforeRebuild \/ ChangeSettings PROVE HotkeysInv'
  OBVIOUS
<1>1. CASE AfterPartialBuild
  <2>1. settings \in [HotkeySettings -> Texts] /\ UpdateHotkeys(settings) /\ UNCHANGED <<settings, others>>
    BY <1>1 DEF AfterPartialBuild, HotkeysInv, TypeOK
  <2>2. TypeOK' /\ RegisteredIsKnown'
    BY <1>1, <2>1, UpdateFacts DEF AfterPartialBuild, HotkeysInv, TypeOK
  <2>3. HotkeysFollowSettings'
    <3>1. NewLookup(settings)' = NewLookup(settings) /\ NewHotkeys(settings)' = NewHotkeys(settings)
      BY <2>1 DEF NewLookup, NewHotkeys, Parsed
    <3>. QED  BY <2>1, <3>1, UpdateFacts DEF HotkeysFollowSettings, Nothing
  <2>. QED  BY <2>2, <2>3 DEF HotkeysInv
<1>2. CASE OnBackgroundNotice
  <2>1. events' \in Seq(Hotkeys) /\ Len(events') <= MaxEvents
    BY <1>2, HotkeysAssumption DEF OnBackgroundNotice
  <2>. QED
    BY <1>2, <2>1 DEF OnBackgroundNotice, cell, windows, HotkeysInv, TypeOK, RegisteredIsKnown, HotkeysFollowSettings
<1>3. CASE BeforeRebuild
  BY <1>3 DEF BeforeRebuild, cell, windows, HotkeysInv, TypeOK, RegisteredIsKnown, HotkeysFollowSettings
<1>4. CASE ChangeSettings
  <2>1. PICK new \in [HotkeySettings -> Texts] :
          settings' = new /\ OnSettingsChanged(new) /\ UNCHANGED <<built, others, pressed>>
    BY <1>4 DEF ChangeSettings
  <2>2. CASE built /\ new # settings
    <3>1. UpdateHotkeys(new) /\ UNCHANGED others
      BY <2>1, <2>2 DEF OnSettingsChanged
    <3>2. TypeOK' /\ RegisteredIsKnown'
      BY <2>1, <3>1, UpdateFacts DEF pressed, HotkeysInv, TypeOK
    <3>3. HotkeysFollowSettings'
      <4>1. NewLookup(settings)' = NewLookup(new) /\ NewHotkeys(settings)' = NewHotkeys(new)
        BY <2>1 DEF NewLookup, NewHotkeys, Parsed
      <4>. QED  BY <2>1, <3>1, <4>1, UpdateFacts DEF HotkeysFollowSettings, Nothing
    <3>. QED  BY <3>2, <3>3 DEF HotkeysInv
  <2>3. CASE ~(built /\ new # settings)
    BY <2>1, <2>3 DEF OnSettingsChanged, cell, windows, pressed, HotkeysInv, TypeOK, RegisteredIsKnown, HotkeysFollowSettings
  <2>. QED  BY <2>2, <2>3
<1>. QED  BY <1>1, <1>2, <1>3, <1>4 DEF UiThread

LEMMA OtherStep ==
    HotkeysInv /\ (ListenerThread \/ Press \/ OthersRegister \/ OthersUnregister) => HotkeysInv'
<1>. SUFFICES ASSUME HotkeysInv, ListenerThread \/ Press \/ OthersRegister \/ OthersUnregister
              PROVE  HotkeysInv'
  OBVIOUS
<1>. USE HotkeysAssumption DEF cell, windows, pressed, HotkeysInv, TypeOK, RegisteredIsKnown, HotkeysFollowSettings
<1>1. CASE SendEvent
  <2>1. /\ heard' \in Seq(Hotkeys) /\ Len(heard') <= MaxPresses
        /\ events' \in Seq(Hotkeys) /\ Len(events') <= MaxEvents
    BY <1>1 DEF SendEvent
  <2>. QED  BY <1>1, <2>1 DEF SendEvent
<1>2. CASE SendNotice
  BY <1>2 DEF SendNotice
<1>3. CASE Press
  <2>1. heard' \in Seq(Hotkeys) /\ Len(heard') <= MaxPresses
    BY <1>3 DEF Press
  <2>. QED  BY <1>3, <2>1 DEF Press
<1>4. CASE OthersRegister
  BY <1>4 DEF OthersRegister
<1>5. CASE OthersUnregister
  BY <1>5 DEF OthersUnregister
<1>. QED  BY <1>1, <1>2, <1>3, <1>4, <1>5 DEF ListenerThread

THEOREM HotkeysInvariant == Spec => []HotkeysInv
<1>1. HotkeysInv /\ [Next]_vars => HotkeysInv'
  <2>. SUFFICES ASSUME HotkeysInv, [Next]_vars PROVE HotkeysInv'
    OBVIOUS
  <2>1. CASE UNCHANGED vars
    BY <2>1 DEF vars, cell, windows, pressed, HotkeysInv, TypeOK, RegisteredIsKnown, HotkeysFollowSettings
  <2>. QED  BY <2>1, UiStep, OtherStep DEF Next, Environment
<1>. QED  BY <1>1, HotkeysInit, PTL DEF Spec
-----------------------------------------------------------------------------
(* The hotkeys' state keeps its types: on_settings_changed, update_hotkeys *)
(* and the two threads of tray_plugins/hotkeys.rs.                         *)
THEOREM HotkeysTypes == Spec => []TypeOK
<1>1. HotkeysInv => TypeOK
  BY DEF HotkeysInv
<1>. QED  BY <1>1, HotkeysInvariant, PTL

(* What Windows has registered for the program is what the program knows   *)
(* of, except for what a failed register_all left behind.                  *)
THEOREM RegisteredKnown == Spec => []RegisteredIsKnown
<1>1. HotkeysInv => RegisteredIsKnown
  BY DEF HotkeysInv
<1>. QED  BY <1>1, HotkeysInvariant, PTL

(* The hotkeys do what the settings say, or none does anything and there   *)
(* is a reason for it: update_hotkeys, after any rebuilds and changes.     *)
THEOREM FollowSettings == Spec => []HotkeysFollowSettings
<1>1. HotkeysInv => HotkeysFollowSettings
  BY DEF HotkeysInv
<1>. QED  BY <1>1, HotkeysInvariant, PTL
-----------------------------------------------------------------------------
(***************************************************************************)
(* The two instances.                                                      *)
(***************************************************************************)

GaveUp == child = "ended" \/ unwatched

(* What is only there when the parent has a reason to give up. *)
ReasonInv ==
    /\ parent \in {"cancelling", "unblocking", "receiving", "joining", "returned"} => GaveUp
    /\ errors > 0 => GaveUp
    /\ shut \/ stream = "parent" => GaveUp
    /\ \A i \in 1..Len(backlog) : backlog[i] = "parent" => GaveUp

(* The thread ends with its only error, and before the parent returns. *)
AcceptorInv ==
    /\ acceptor # "ended" => errors = 0
    /\ parent = "returned" => acceptor = "ended"
    /\ parent = "exited" => confirmed

ElevationInv == ElevationTypeOK /\ ReasonInv /\ AcceptorInv
-----------------------------------------------------------------------------
LEMMA ElevationInit == InitElevation => ElevationInv
<1>. SUFFICES ASSUME InitElevation PROVE ElevationInv
  OBVIOUS
<1>1. ElevationTypeOK
  <2>1. backlog \in Seq(Connections)
    BY DEF InitElevation
  <2>2. failures \in 0..MaxFailures /\ errors \in 0..1
    BY ElevationAssumption DEF InitElevation
  <2>. QED  BY <2>1, <2>2, ZenonT(30) DEF InitElevation, ElevationTypeOK
<1>2. ReasonInv /\ AcceptorInv
  BY DEF InitElevation, ReasonInv, AcceptorInv
<1>. QED  BY <1>1, <1>2 DEF ElevationInv

(* What the child does neither fills the channel nor stops the parent. *)
LEMMA ChildStep == ElevationInv /\ Child => ElevationInv'
<1>. SUFFICES ASSUME ElevationInv, Child PROVE ElevationInv'
  OBVIOUS
<1>. USE DEF ElevationInv
<1>1. CASE Connect
  <2>1. backlog' \in Seq(Connections) /\ Len(backlog') = Len(backlog) + 1
        /\ \A i \in 1..Len(backlog') : backlog'[i] = "parent" => i \in 1..Len(backlog) /\ backlog[i] = "parent"
    BY <1>1 DEF Connect, ElevationTypeOK, Connections
  <2>2. ElevationTypeOK'
    BY <1>1, <2>1 DEF Connect, ElevationTypeOK, history
  <2>3. ReasonInv' /\ AcceptorInv'
    BY <1>1, <2>1 DEF Connect, ElevationTypeOK, ReasonInv, AcceptorInv, GaveUp, history
  <2>. QED  BY <2>2, <2>3
<1>2. CASE Confirm
  BY <1>2 DEF Confirm, ElevationTypeOK, ReasonInv, AcceptorInv, GaveUp, history
<1>3. CASE EndChild
  BY <1>3 DEF EndChild, ElevationTypeOK, ReasonInv, AcceptorInv, GaveUp, history
<1>. QED  BY <1>1, <1>2, <1>3 DEF Child

(* A call that fails makes the child unwatched, except the connection that *)
(* would unblock the thread, after which the parent has given up already.  *)
LEMMA FailStep == ElevationInv /\ Failures => ElevationInv'
<1>. SUFFICES ASSUME ElevationInv, Failures PROVE ElevationInv'
  OBVIOUS
<1>. USE ElevationAssumption DEF ElevationInv
<1>1. CASE AcceptFails
  BY <1>1 DEF AcceptFails, InAcceptor, ParentAlive, Fail, OtherThanAcceptor, child_vars,
              ElevationTypeOK, ReasonInv, AcceptorInv, GaveUp
<1>2. CASE WaitFails
  BY <1>2 DEF WaitFails, Fail, OtherThanParent, child_vars, ElevationTypeOK, ReasonInv, AcceptorInv, GaveUp
<1>3. CASE UnblockFails
  BY <1>3 DEF UnblockFails, Fail, OtherThanParent, child_vars, ElevationTypeOK, ReasonInv, AcceptorInv, GaveUp
<1>. QED  BY <1>1, <1>2, <1>3 DEF Failures

LEMMA AcceptorStep == ElevationInv /\ Acceptor => ElevationInv'
<1>. SUFFICES ASSUME ElevationInv, Acceptor PROVE ElevationInv'
  OBVIOUS
<1>. USE DEF ElevationInv
<1>1. CASE Accept
  <2>1. backlog' \in Seq(Connections) /\ stream' \in Connections
        /\ Len(backlog') = Len(backlog) - 1
        /\ \A i \in 1..Len(backlog') : backlog'[i] = backlog[i + 1]
        /\ 1 \in 1..Len(backlog)
    BY <1>1 DEF Accept, ElevationTypeOK, Connections
  <2>2. ElevationTypeOK'
    BY <1>1, <2>1 DEF Accept, InAcceptor, OtherThanAcceptor, child_vars, history, ElevationTypeOK
  <2>3. ReasonInv'
    <3>1. ASSUME stream' = "parent" PROVE GaveUp
      <4>1. backlog[1] = "parent"
        BY <1>1, <3>1 DEF Accept, ElevationTypeOK
      <4>. QED  BY <2>1, <4>1 DEF ReasonInv
    <3>2. ASSUME NEW i \in 1..Len(backlog'), backlog'[i] = "parent" PROVE GaveUp
      <4>1. i + 1 \in 1..Len(backlog) /\ backlog[i + 1] = "parent"
        BY <2>1, <3>2 DEF ElevationTypeOK
      <4>. QED  BY <4>1 DEF ReasonInv
    <3>3. UNCHANGED <<parent, errors, shut, child, unwatched>>
      BY <1>1 DEF Accept, OtherThanAcceptor, child_vars, history
    <3>. QED  BY <3>1, <3>2, <3>3 DEF ReasonInv, GaveUp
  <2>4. AcceptorInv'
    BY <1>1 DEF Accept, InAcceptor, OtherThanAcceptor, child_vars, AcceptorInv
  <2>. QED  BY <2>2, <2>3, <2>4
<1>2. CASE ShareStream
  BY <1>2 DEF ShareStream, InAcceptor, OtherThanAcceptor, child_vars, history,
              ElevationTypeOK, ReasonInv, AcceptorInv, GaveUp
<1>3. CASE CheckCancel
  BY <1>3 DEF CheckCancel, InAcceptor, OtherThanAcceptor, child_vars, history,
              ElevationTypeOK, ReasonInv, AcceptorInv, GaveUp
<1>4. CASE ReadMessage
  BY <1>4 DEF ReadMessage, InAcceptor, child_vars, history, ElevationTypeOK, ReasonInv, AcceptorInv, GaveUp
<1>5. CASE ReadFails
  <2>1. GaveUp
    BY <1>5 DEF ReadFails, ReasonInv, GaveUp
  <2>. QED
    BY <1>5, <2>1 DEF ReadFails, InAcceptor, OtherThanAcceptor, child_vars, history,
                      ElevationTypeOK, ReasonInv, AcceptorInv, GaveUp
<1>. QED  BY <1>1, <1>2, <1>3, <1>4, <1>5 DEF Acceptor

LEMMA ParentStep == ElevationInv /\ Parent => ElevationInv'
<1>. SUFFICES ASSUME ElevationInv, Parent PROVE ElevationInv'
  OBVIOUS
<1>. USE DEF ElevationInv, OtherThanParent, child_vars, history, ElevationTypeOK, ReasonInv, AcceptorInv, GaveUp
<1>1. CASE ChildEnded
  BY <1>1 DEF ChildEnded
<1>2. CASE TimedOut
  BY <1>2 DEF TimedOut
<1>3. CASE Poll
  BY <1>3 DEF Poll
<1>4. CASE StoreCancel
  BY <1>4 DEF StoreCancel
<1>5. CASE Unblock
  <2>1. backlog' \in Seq(Connections)
    BY <1>5 DEF Unblock, Connections
  <2>2. GaveUp
    BY <1>5 DEF Unblock
  <2>. QED  BY <1>5, <2>1, <2>2 DEF Unblock
<1>6. CASE RecvTimeout
  BY <1>6 DEF RecvTimeout
<1>7. CASE Join
  BY <1>7 DEF Join
<1>. QED  BY <1>1, <1>2, <1>3, <1>4, <1>5, <1>6, <1>7 DEF Parent

THEOREM ElevationInvariant == ElevationSpec => []ElevationInv
<1>1. ElevationInv /\ [NextElevation]_elevation_vars => ElevationInv'
  <2>. SUFFICES ASSUME ElevationInv, [NextElevation]_elevation_vars PROVE ElevationInv'
    OBVIOUS
  <2>1. CASE UNCHANGED elevation_vars
    BY <2>1 DEF elevation_vars, child_vars, history, ElevationInv, ElevationTypeOK, ReasonInv, AcceptorInv, GaveUp
  <2>. QED  BY <2>1, ChildStep, FailStep, AcceptorStep, ParentStep DEF NextElevation
<1>. QED  BY <1>1, ElevationInit, PTL DEF ElevationSpec
-----------------------------------------------------------------------------
(* The handshake never leaves its states, and there is never more than one *)
(* error in the channel.                                                   *)
THEOREM ElevationTypes == ElevationSpec => []ElevationTypeOK
<1>1. ElevationInv => ElevationTypeOK
  BY DEF ElevationInv
<1>. QED  BY <1>1, ElevationInvariant, PTL

(* The program exits only for a child that runs, and goes on after a       *)
(* failed restart only without its other thread, when the child has ended  *)
(* or Windows failed to tell about it: set_elevation of                    *)
(* change_elevation.rs.                                                    *)
THEOREM OneInstance == ElevationSpec => []OneGoesOn
<1>1. ElevationInv => OneGoesOn
  BY DEF ElevationInv, ReasonInv, AcceptorInv, GaveUp, OneGoesOn
<1>. QED  BY <1>1, ElevationInvariant, PTL
=============================================================================
