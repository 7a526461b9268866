---------------------------- MODULE TimersProofs ----------------------------
(***************************************************************************)
(* Timers that are cancelled or armed again, for any timers, tasks, delays, *)
(* bounds, desktops and shortcuts: the thread that runs them, and the      *)
(* invisible window, which relies on several.  Then the menu whose choices *)
(* that window carries out.                                                *)
(*                                                                         *)
(* A cancelled timer is silent: a callback goes on only with a signal that *)
(* is armed, only the latest signal of a timer is, and that is in requests *)
(* of this timer only.  An interval never makes up for more than one       *)
(* missed tick.  NoBurst is not  *)
(* inductive: that a timer posts at most two notices at one instant follows *)
(* from there being one request per signal between the channel, the map and *)
(* the callback that runs, and from the time of that request: not before   *)
(* now after one notice, after now after two.                              *)
(*                                                                         *)
(* A window that carries a switch is not closed by the timer of another.   *)
(* The reason is in what closing and creating a window do to the timer: it *)
(* is armed for the present window or not at all, so that all notices that *)
(* were sent since the window was created are its own.                     *)
(*                                                                         *)
(* The digits that lead to a desktop are its number's.  Each submenu of the *)
(* tree begins with its parent's digits and one more, or a zero and one    *)
(* more; so each menu is reached by one sequence of keys, which are its    *)
(* digits or what is left of them without some zeros.                      *)
(* The digits of a number lead to its desktop because a menu is empty until *)
(* it is filled, is filled once, and what fills it leads on to every number *)
(* that begins as the menu does, each digit to one thing.                  *)
(***************************************************************************)
EXTENDS FiniteSetTheorems, SequenceTheorems, TimerThread, MenuSwitch, TLAPS
-----------------------------------------------------------------------------
(***************************************************************************)
(* The timer thread and the tasks.                                         *)
(***************************************************************************)

Callback ==
    [kind : {"once"}, timer : Timers, signal : Signals]
    \cup [kind : {"interval"}, timer : Timers, signal : Signals, every : Nat \ {0}]
    \cup [kind : {"wake"}, task : Tasks]
    \cup [kind : {"other"}]

AllRequests == [at : Nat, callback : Callback]

OfTimer(r) == r.callback.kind \in {"once", "interval"}
Holds(r, s) == OfTimer(r) /\ r.callback.signal = s
Busy == thread \in {"run", "fire", "tick"}

RequestInv ==
    /\ channel \in Seq(AllRequests)
    /\ times \subseteq AllRequests
    /\ thread \in {"run", "fire", "tick", "wake", "unpark"} => running \in AllRequests
    /\ thread = "fire" => callback.kind = "once"
    /\ thread = "tick" => callback.kind = "interval"

(* One request for each signal, none for a signal not yet allocated. *)
UniqueInv ==
    /\ \A e \in times : OfTimer(e) => e.callback.signal <= last_signal
    /\ \A i \in DOMAIN channel : OfTimer(channel[i]) => channel[i].callback.signal <= last_signal
    /\ Busy /\ OfTimer(running) => callback.signal <= last_signal
    /\ \A s \in Signals :
        /\ \A e, f \in times : Holds(e, s) /\ Holds(f, s) => e = f
        /\ \A i, j \in DOMAIN channel : Holds(channel[i], s) /\ Holds(channel[j], s) => i = j
        /\ \A e \in times, i \in DOMAIN channel : ~(Holds(e, s) /\ Holds(channel[i], s))
        /\ Busy /\ Holds(running, s) =>
               /\ \A e \in times : ~Holds(e, s)
               /\ \A i \in DOMAIN channel : ~Holds(channel[i], s)

(* After one notice of a timer at this instant its next is not before now, *)
(* after two it is later.                                                  *)
Paced(r) ==
    OfTimer(r) /\ r.callback.signal = latest[r.callback.timer] =>
        \/ ticks[r.callback.timer] = 0
        \/ ticks[r.callback.timer] = 1 /\ r.at >= now
        \/ ticks[r.callback.timer] = 2 /\ r.at > now

PaceInv ==
    /\ \A e \in times : Paced(e)
    /\ \A i \in DOMAIN channel : Paced(channel[i])
    /\ Busy => Paced(running) /\ running.at <= now

(* A request's signal is the latest of no timer but its own.               *)
Owned(r) ==
    OfTimer(r) => \A u \in Timers : latest[u] = r.callback.signal => u = r.callback.timer

Present == Queued \cup IF Busy THEN {running} ELSE {}
OwnInv == \A r \in Present : Owned(r)

(* A callback past its load whose signal was switched off since is the one *)
(* that was on its way then.                                               *)
SwitchedOff(c) == c.signal # latest[c.timer] \/ c.signal \notin armed
SilenceInv ==
    /\ OnlyLateIsStale
    /\ thread \in {"fire", "tick"} /\ SwitchedOff(callback) =>
           late[callback.timer] = 1 /\ stale[callback.timer] = 0

TimerInv ==
    /\ TypeOK /\ RequestInv /\ OnlyLatestArmed /\ UniqueInv /\ PaceInv /\ NoBurst
    /\ OwnInv /\ SilenceInv
-----------------------------------------------------------------------------
LEMMA LeastNat ==
    ASSUME NEW T \in SUBSET Nat, T # {}
    PROVE  \E x \in T : \A y \in T : x <= y
<1>. DEFINE R == OpToRel(<, Nat)
<1>1. \A x, y \in Nat : y < x => <<y, x>> \in R
  BY DEF OpToRel
<1>2. IsWellFoundedOn(R, Nat)
  BY NatLessThanWellFounded
<1>. HIDE DEF R
<1>3. PICK x \in T : \A y \in T : ~ (<<y, x>> \in R)
  BY <1>2, WFMin
<1>4. \A y \in T : ~ (y < x)
  BY <1>1, <1>3
<1>. QED  BY <1>4

(* The map has a first entry if it has any.                                *)
LEMMA FirstEntry ==
    ASSUME NEW entries \in SUBSET AllRequests, entries # {}
    PROVE  First(entries) \in entries
<1>. DEFINE ats == {e.at : e \in entries}
<1>1. ats \in SUBSET Nat /\ ats # {}
  BY DEF AllRequests
<1>2. PICK x \in ats : \A y \in ats : x <= y
  BY <1>1, LeastNat
<1>3. PICK e \in entries : e.at = x
  BY <1>2
<1>4. \A other \in entries : e.at <= other.at
  BY <1>2, <1>3
<1>. QED  BY <1>4 DEF First

LEMMA CallbackFacts ==
    ASSUME NEW r \in AllRequests
    PROVE  /\ r.at \in Nat /\ r.callback \in Callback
           /\ r.callback.kind \in {"once", "interval", "wake", "other"}
           /\ OfTimer(r) => r.callback.timer \in Timers /\ r.callback.signal \in Signals
           /\ r.callback.kind = "interval" => r.callback.every \in Nat \ {0}
           /\ r.callback.kind = "wake" => r.callback.task \in Tasks
<1>1. r.at \in Nat /\ r.callback \in Callback
  BY DEF AllRequests
<1>. QED  BY <1>1 DEF Callback, OfTimer

(* What is sent to the timer thread.                                       *)
LEMMA SendFacts ==
    ASSUME channel \in Seq(AllRequests), NEW r \in AllRequests, channel' = Append(channel, r)
    PROVE  /\ channel' \in Seq(AllRequests)
           /\ Len(channel) + 1 \in DOMAIN channel' /\ channel'[Len(channel) + 1] = r
           /\ Len(channel) + 1 \notin DOMAIN channel
           /\ \A i \in DOMAIN channel' :
                 \/ i \in DOMAIN channel /\ channel'[i] = channel[i]
                 \/ i = Len(channel) + 1 /\ channel'[i] = r
  BY AppendProperties

(* What the timer thread receives.                                         *)
LEMMA ReceiveFacts ==
    ASSUME channel \in Seq(AllRequests), channel # <<>>, channel' = Tail(channel)
    PROVE  /\ channel' \in Seq(AllRequests) /\ Head(channel) \in AllRequests
           /\ 1 \in DOMAIN channel /\ Head(channel) = channel[1]
           /\ \A i \in DOMAIN channel' :
                 i + 1 \in DOMAIN channel /\ channel'[i] = channel[i + 1] /\ i + 1 # 1 /\ i \in Nat
  BY HeadTailProperties
-----------------------------------------------------------------------------
LEMMA TimerInit == Init => TimerInv
<1>. SUFFICES ASSUME Init PROVE TimerInv
  OBVIOUS
<1>. USE TimerAssumption DEF Init
<1>1. ClockTypeOK /\ MapTypeOK
  BY DEF ClockTypeOK, MapTypeOK, ThreadStates
<1>2. SignalTypeOK
  BY DEF SignalTypeOK
<1>3. TaskTypeOK
  <2>1. fut \in [Tasks -> FutStates] /\ sleeps \in [Tasks -> 0..MaxSleeps]
    BY DEF FutStates
  <2>2. to_poll \subseteq Tasks /\ executor \in {"poll", "check", "park", "returned"}
    OBVIOUS
  <2>3. {unparked, token} \subseteq BOOLEAN
    BY Zenon
  <2>. QED  BY <2>1, <2>2, <2>3 DEF TaskTypeOK
<1>4. RequestInv
  BY DEF RequestInv
<1>5. UniqueInv /\ PaceInv
  BY DEF UniqueInv, PaceInv, Busy
<1>6. OnlyLatestArmed /\ NoBurst
  BY DEF OnlyLatestArmed, NoBurst
<1>7. OwnInv /\ SilenceInv
  BY DEF OwnInv, Present, Queued, Busy, SilenceInv, OnlyLateIsStale
<1>. QED  BY <1>1, <1>2, <1>3, <1>4, <1>5, <1>6, <1>7 DEF TimerInv, TypeOK

(* What is owned is owned when the latest signals stay and each request    *)
(* still there is one that was there.                                      *)
LEMMA OwnKept ==
    ASSUME OwnInv, UNCHANGED latest,
           \A e \in Present' : ~OfTimer(e) \/ \E f \in Present : f.callback = e.callback
    PROVE  OwnInv'
  BY DEF OwnInv, Owned, OfTimer

(* Cancelling a timer, or arming it, while its callback is past its load.  *)
LEMMA BeginsSilent ==
    ASSUME TimerInv, NEW t \in Timers, BeginSilence(t),
           UNCHANGED <<thread, running>>,
           \A u \in Timers : u # t => latest'[u] = latest[u],
           \A s \in armed : s # latest[t] => s \in armed'
    PROVE  /\ SilenceInv' /\ late' \in [Timers -> {0, 1}] /\ stale' \in [Timers -> Nat]
<1>1. /\ late \in [Timers -> {0, 1}] /\ stale \in [Timers -> Nat]
      /\ OnlyLateIsStale
  BY DEF TimerInv, TypeOK, SignalTypeOK, SilenceInv
<1>2. /\ late' \in [Timers -> {0, 1}] /\ stale' \in [Timers -> Nat]
      /\ stale'[t] = 0 /\ (OnItsWay(t) => late'[t] = 1)
      /\ \A u \in Timers : u # t => late'[u] = late[u] /\ stale'[u] = stale[u]
  BY <1>1 DEF BeginSilence
<1>3. OnlyLateIsStale'
  <2>1. stale'[t] <= late'[t]
    BY <1>2
  <2>. QED  BY <1>1, <1>2, <2>1 DEF OnlyLateIsStale
<1>4. ASSUME thread \in {"fire", "tick"}, SwitchedOff(callback)'
      PROVE  late'[callback.timer] = 1 /\ stale'[callback.timer] = 0
  <2>1. /\ running \in AllRequests /\ OfTimer(running) /\ callback.timer \in Timers
        /\ running \in Present
    BY <1>4, CallbackFacts DEF TimerInv, RequestInv, OfTimer, callback, Present, Busy
  <2>2. CASE callback.timer = t
    BY <1>2, <1>4, <2>2 DEF OnItsWay, callback
  <2>3. CASE callback.timer # t
    <3>1. callback.signal # latest[t]
      BY <2>1, <2>3 DEF TimerInv, OwnInv, Owned, callback
    <3>2. SwitchedOff(callback)
      BY <1>4, <2>1, <2>3, <3>1 DEF SwitchedOff, callback
    <3>. QED  BY <1>2, <1>4, <2>1, <2>3, <3>2 DEF TimerInv, SilenceInv
  <2>. QED  BY <2>2, <2>3
<1>. QED  BY <1>2, <1>3, <1>4 DEF SilenceInv, callback

(* Arming a timer: its new signal is in no other request.                  *)
LEMMA Arm ==
    ASSUME TimerInv, NEW t \in Timers, NEW r \in AllRequests,
           OfTimer(r), r.callback.timer = t, r.callback.signal = last_signal + 1,
           last_signal < MaxSignals, NewEnableSignal(t), BeginSilence(t),
           channel' = Append(channel, r), ticks' = [ticks EXCEPT ![t] = 0], UiOnly
    PROVE  TimerInv'
<1>. USE DEF TimerInv
<1>1. /\ UNCHANGED <<now, times, thread, running, fut, sleeps, to_poll, executor, unparked, token>>
      /\ last_signal' = last_signal + 1 /\ latest' = [latest EXCEPT ![t] = last_signal + 1]
      /\ armed' = (armed \ {latest[t]}) \cup {last_signal + 1}
  BY DEF UiOnly, clock, tasks, parking, NewEnableSignal
<1>2. /\ last_signal \in Nat /\ last_signal + 1 \in 1..MaxSignals
      /\ latest \in [Timers -> 0..last_signal] /\ ticks \in [Timers -> Nat]
      /\ armed \subseteq 1..last_signal
  BY TimerAssumption DEF TypeOK, SignalTypeOK
<1>3. /\ channel' \in Seq(AllRequests)
      /\ Len(channel) + 1 \notin DOMAIN channel
      /\ \A i \in DOMAIN channel' :
            \/ i \in DOMAIN channel /\ channel'[i] = channel[i]
            \/ i = Len(channel) + 1 /\ channel'[i] = r
  BY SendFacts DEF RequestInv
<1>4. TypeOK'
  <2>1. last_signal' \in 0..MaxSignals /\ armed' \subseteq 1..last_signal'
    <3>1. last_signal' \in 0..MaxSignals
      BY <1>1, <1>2, TimerAssumption
    <3>2. ASSUME NEW s \in armed' PROVE s \in 1..last_signal'
      BY <1>1, <1>2
    <3>. QED  BY <3>1, <3>2
  <2>2. latest' \in [Timers -> 0..last_signal'] /\ ticks' \in [Timers -> Nat]
    BY <1>1, <1>2
  <2>3. SignalTypeOK'
    BY <1>1, <1>2, <2>1, <2>2, BeginsSilent DEF SignalTypeOK
  <2>. QED  BY <1>1, <2>3 DEF TypeOK, ClockTypeOK, MapTypeOK, TaskTypeOK
<1>5. RequestInv'
  BY <1>1, <1>3 DEF RequestInv, callback
<1>6. OnlyLatestArmed'
  <2>1. latest'[t] = last_signal + 1
    BY <1>1, <1>2
  <2>2. ASSUME NEW s \in armed' PROVE \E u \in Timers : latest'[u] = s
    <3>1. CASE s = last_signal + 1
      BY <2>1, <3>1
    <3>2. CASE s \in armed /\ s # latest[t]
      <4>1. PICK u \in Timers : latest[u] = s
        BY <3>2 DEF OnlyLatestArmed
      <4>. QED  BY <1>1, <1>2, <3>2, <4>1
    <3>. QED  BY <1>1, <3>1, <3>2
  <2>. QED  BY <2>2 DEF OnlyLatestArmed
<1>7. UniqueInv'
  <2>1. /\ \A e \in times : ~Holds(e, last_signal + 1)
        /\ \A i \in DOMAIN channel : ~Holds(channel[i], last_signal + 1)
        /\ Busy => ~Holds(running, last_signal + 1)
    <3>1. last_signal + 1 > last_signal
      BY <1>2
    <3>2. ASSUME NEW e \in AllRequests, OfTimer(e) => e.callback.signal <= last_signal
          PROVE  ~Holds(e, last_signal + 1)
      BY <1>2, <3>2 DEF Holds
    <3>. QED  BY <3>2 DEF UniqueInv, RequestInv, Busy, callback
  <2>2. \A s : Holds(r, s) => s = last_signal + 1
    BY DEF Holds
  <2>3. Busy' = Busy
    BY <1>1 DEF Busy
  <2>4. /\ \A e \in times' : OfTimer(e) => e.callback.signal <= last_signal'
        /\ \A i \in DOMAIN channel' :
               OfTimer(channel'[i]) => channel'[i].callback.signal <= last_signal'
        /\ Busy' /\ OfTimer(running') => running'.callback.signal <= last_signal'
    <3>1. ASSUME NEW e \in AllRequests, OfTimer(e), e.callback.signal <= last_signal
          PROVE  e.callback.signal <= last_signal'
      <4>1. e.callback.signal \in Nat
        BY <3>1, CallbackFacts DEF Signals
      <4>. QED  BY <1>1, <1>2, <3>1, <4>1
    <3>2. r.callback.signal <= last_signal'
      BY <1>1, <1>2
    <3>. QED  BY <1>1, <1>3, <2>3, <3>1, <3>2 DEF UniqueInv, RequestInv, Busy, callback
  <2>5. ASSUME NEW s \in Signals
        PROVE  /\ \A e, f \in times' : Holds(e, s) /\ Holds(f, s) => e = f
               /\ \A i, j \in DOMAIN channel' :
                      Holds(channel'[i], s) /\ Holds(channel'[j], s) => i = j
               /\ \A e \in times', i \in DOMAIN channel' : ~(Holds(e, s) /\ Holds(channel'[i], s))
               /\ Busy' /\ Holds(running', s) =>
                      /\ \A e \in times' : ~Holds(e, s)
                      /\ \A i \in DOMAIN channel' : ~Holds(channel'[i], s)
    BY <1>1, <1>3, <2>1, <2>2, <2>3 DEF UniqueInv
  <2>. QED  BY <2>4, <2>5 DEF UniqueInv, callback, Holds, OfTimer
<1>8. PaceInv' /\ NoBurst'
  <2>1. \A u \in Timers : ticks'[u] = (IF u = t THEN 0 ELSE ticks[u])
                          /\ (u # t => latest'[u] = latest[u])
    BY <1>1, <1>2
  <2>2. ASSUME NEW e \in AllRequests, Paced(e) PROVE Paced(e)'
    BY <1>1, <2>1, <2>2, CallbackFacts DEF Paced, OfTimer
  <2>3. Paced(r)'
    BY <2>1 DEF Paced
  <2>4. PaceInv'
    BY <1>1, <1>3, <2>2, <2>3 DEF PaceInv, Busy, RequestInv
  <2>. QED  BY <2>1, <2>4 DEF NoBurst
<1>9. OwnInv'
  <2>1. ASSUME NEW e \in Present PROVE e \in AllRequests /\ Owned(e)
               /\ (OfTimer(e) => e.callback.signal <= last_signal)
    BY DEF Present, Queued, Busy, OwnInv, RequestInv, UniqueInv, callback
  <2>2. ASSUME NEW e \in Present PROVE Owned(e)'
    <3>1. OfTimer(e) => e.callback.signal \in Nat /\ e.callback.signal # last_signal + 1
      BY <1>2, <2>1, CallbackFacts DEF Signals
    <3>. QED  BY <1>1, <1>2, <2>1, <3>1 DEF Owned, OfTimer
  <2>3. Owned(r)'
    <3>1. ASSUME NEW u \in Timers, latest'[u] = last_signal + 1 PROVE u = t
      <4>1. latest[u] \in 0..last_signal
        BY <1>2
      <4>. QED  BY <1>1, <1>2, <3>1, <4>1
    <3>. QED  BY <3>1 DEF Owned
  <2>4. \A e \in Present' : e \in Present \/ e = r
    BY <1>1, <1>3 DEF Present, Queued, Busy
  <2>. QED  BY <2>2, <2>3, <2>4 DEF OwnInv
<1>10. SilenceInv'
  BY <1>1, BeginsSilent
<1>. QED  BY <1>4, <1>5, <1>6, <1>7, <1>8, <1>9, <1>10

LEMMA ArmStep ==
    ASSUME TimerInv, NEW t \in Timers, NEW d \in Delays, NotifyAfter(t, d) \/ StartInterval(t, d)
    PROVE  TimerInv'
<1>1. /\ last_signal < MaxSignals /\ last_signal + 1 \in Signals
      /\ now + d \in Nat
  BY TimerAssumption
     DEF NotifyAfter, StartInterval, Signals, TimerInv, TypeOK, SignalTypeOK, ClockTypeOK
<1>2. CASE NotifyAfter(t, d)
  <2>. DEFINE r == Request(now + d, Once(t, last_signal + 1))
  <2>1. /\ r \in AllRequests /\ OfTimer(r) /\ r.callback.timer = t
        /\ r.callback.signal = last_signal + 1
    BY <1>1 DEF Request, Once, AllRequests, Callback, OfTimer
  <2>. HIDE DEF r
  <2>2. NewEnableSignal(t) /\ channel' = Append(channel, r) /\ ticks' = [ticks EXCEPT ![t] = 0]
        /\ BeginSilence(t) /\ UiOnly
    BY <1>2 DEF NotifyAfter, r
  <2>. QED  BY <1>1, <2>1, <2>2, Arm
<1>3. CASE StartInterval(t, d)
  <2>. DEFINE r == Request(now + d, Interval(t, last_signal + 1, d))
  <2>1. d \in Nat \ {0}
    BY <1>3, TimerAssumption DEF StartInterval
  <2>2. /\ r \in AllRequests /\ OfTimer(r) /\ r.callback.timer = t
        /\ r.callback.signal = last_signal + 1
    BY <1>1, <2>1 DEF Request, Interval, AllRequests, Callback, OfTimer
  <2>. HIDE DEF r
  <2>3. NewEnableSignal(t) /\ channel' = Append(channel, r) /\ ticks' = [ticks EXCEPT ![t] = 0]
        /\ BeginSilence(t) /\ UiOnly
    BY <1>3 DEF StartInterval, r
  <2>. QED  BY <1>1, <2>2, <2>3, Arm
<1>. QED  BY <1>2, <1>3

(* Steps that touch no request.                                            *)
LEMMA Quiet ==
    ASSUME TimerInv, UNCHANGED <<now, channel, times, thread, running, latest, last_signal, ticks>>
    PROVE  RequestInv' /\ UniqueInv' /\ PaceInv' /\ NoBurst' /\ OwnInv'
<1>1. RequestInv' /\ UniqueInv' /\ PaceInv' /\ NoBurst'
  BY DEF TimerInv, RequestInv, UniqueInv, PaceInv, Paced, NoBurst, Busy, Holds, OfTimer, callback
<1>2. OwnInv'
  BY OwnKept DEF TimerInv, Present, Queued, Busy
<1>. QED  BY <1>1, <1>2

LEMMA SilenceKept ==
    ASSUME SilenceInv, UNCHANGED <<thread, running, armed, latest, late, stale>>
    PROVE  SilenceInv'
  BY DEF SilenceInv, OnlyLateIsStale, SwitchedOff, callback

(* A request that is none of a timer is sent.                              *)
LEMMA Sent ==
    ASSUME TimerInv, NEW r \in AllRequests, ~OfTimer(r), channel' = Append(channel, r),
           UNCHANGED <<now, times, thread, running, latest, last_signal, ticks>>
    PROVE  RequestInv' /\ UniqueInv' /\ PaceInv' /\ NoBurst' /\ OwnInv'
<1>1. /\ channel' \in Seq(AllRequests)
      /\ \A i \in DOMAIN channel' :
            \/ i \in DOMAIN channel /\ channel'[i] = channel[i]
            \/ channel'[i] = r
  BY SendFacts DEF TimerInv, RequestInv
<1>2. \A s : ~Holds(r, s)
  BY DEF Holds
<1>3. RequestInv'
  BY <1>1 DEF TimerInv, RequestInv, callback
<1>4. UniqueInv'
  BY <1>1, <1>2 DEF TimerInv, UniqueInv, Busy, callback, Holds, OfTimer
<1>5. PaceInv' /\ NoBurst'
  BY <1>1 DEF TimerInv, PaceInv, Paced, Busy, OfTimer, NoBurst
<1>6. OwnInv'
  <2>1. \A e \in Present' : e \in Present \/ e = r
    BY <1>1 DEF Present, Queued, Busy
  <2>. QED  BY <2>1, OwnKept DEF TimerInv
<1>. QED  BY <1>3, <1>4, <1>5, <1>6

LEMMA OtherStep ==
    ASSUME TimerInv, NEW d \in OtherDelays, OtherRequest(d)
    PROVE  TimerInv'
<1>. DEFINE r == Request(now + d, Other)
<1>1. r \in AllRequests /\ ~OfTimer(r)
  BY TimerAssumption
     DEF Request, Other, AllRequests, Callback, OfTimer, TimerInv, TypeOK, ClockTypeOK
<1>. HIDE DEF r
<1>2. /\ channel' = Append(channel, r)
      /\ UNCHANGED <<now, times, thread, running, armed, latest, last_signal, ticks, late, stale>>
      /\ UNCHANGED <<fut, sleeps, to_poll, executor, unparked, token>>
  BY DEF OtherRequest, UiOnly, clock, timer, tasks, parking, history, r
<1>3. TypeOK' /\ OnlyLatestArmed'
  BY <1>2
     DEF TimerInv, TypeOK, ClockTypeOK, MapTypeOK, SignalTypeOK, TaskTypeOK, OnlyLatestArmed
<1>. QED  BY <1>1, <1>2, <1>3, Sent, SilenceKept DEF TimerInv

LEMMA CancelStep ==
    ASSUME TimerInv, NEW t \in Timers, CancelLast(t)
    PROVE  TimerInv'
<1>1. /\ UNCHANGED <<now, channel, times, thread, running, latest, last_signal, ticks>>
      /\ UNCHANGED <<fut, sleeps, to_poll, executor, unparked, token>>
      /\ armed' = armed \ {latest[t]} /\ BeginSilence(t)
  BY DEF CancelLast, UiOnly, clock, tasks, parking
<1>2. SilenceInv' /\ late' \in [Timers -> {0, 1}] /\ stale' \in [Timers -> Nat]
  BY <1>1, BeginsSilent
<1>3. TypeOK' /\ OnlyLatestArmed'
  BY <1>1, <1>2
     DEF TimerInv, TypeOK, ClockTypeOK, MapTypeOK, SignalTypeOK, TaskTypeOK, OnlyLatestArmed
<1>. QED  BY <1>1, <1>2, <1>3, Quiet DEF TimerInv

LEMMA ExecutorStepInv == TimerInv /\ ExecutorStep => TimerInv'
<1>. SUFFICES ASSUME TimerInv, ExecutorStep PROVE TimerInv'
  OBVIOUS
<1>1. /\ UNCHANGED <<now, times, thread, running, armed, latest, last_signal, ticks>>
      /\ UNCHANGED <<late, stale>>
      /\ ClockTypeOK' /\ MapTypeOK' /\ SignalTypeOK' /\ OnlyLatestArmed'
  BY DEF ExecutorStep, Register, Finish, Sleep, Return, CheckWakeup, Unpark, ExecutorOnly,
         clock, timer, history, TimerInv, TypeOK, ClockTypeOK, MapTypeOK, SignalTypeOK, OnlyLatestArmed
<1>2. ASSUME NEW k \in Tasks, Register(k) \/ Finish(k) PROVE TaskTypeOK' /\ UNCHANGED channel
  BY <1>2 DEF Register, Finish, parking, TimerInv, TypeOK, TaskTypeOK, FutStates
<1>3. ASSUME Return \/ CheckWakeup \/ Unpark PROVE TaskTypeOK' /\ UNCHANGED channel
  BY <1>3 DEF Return, CheckWakeup, Unpark, parking, TimerInv, TypeOK, TaskTypeOK
<1>4. ASSUME NEW k \in Tasks, NEW d \in Delays, Sleep(k, d)
      PROVE  TaskTypeOK' /\ RequestInv' /\ UniqueInv' /\ PaceInv' /\ NoBurst' /\ OwnInv'
  <2>. DEFINE r == Request(now + d, Wake(k))
  <2>1. r \in AllRequests /\ ~OfTimer(r)
    BY TimerAssumption
       DEF Request, Wake, AllRequests, Callback, OfTimer, TimerInv, TypeOK, ClockTypeOK
  <2>. HIDE DEF r
  <2>2. channel' = Append(channel, r)
    BY <1>4 DEF Sleep, r
  <2>3. TaskTypeOK'
    BY <1>4, TimerAssumption DEF Sleep, parking, TimerInv, TypeOK, TaskTypeOK, FutStates
  <2>. QED  BY <1>1, <2>1, <2>2, <2>3, Sent
<1>5. TaskTypeOK' /\ RequestInv' /\ UniqueInv' /\ PaceInv' /\ NoBurst' /\ OwnInv'
  BY <1>1, <1>2, <1>3, <1>4, Quiet DEF ExecutorStep
<1>. QED  BY <1>1, <1>5, SilenceKept DEF TimerInv, TypeOK

LEMMA PassTimeStep == TimerInv /\ PassTime => TimerInv'
<1>. SUFFICES ASSUME TimerInv, PassTime PROVE TimerInv'
  OBVIOUS
<1>1. /\ UNCHANGED <<channel, times, thread, running, armed, latest, last_signal>>
      /\ UNCHANGED <<fut, sleeps, to_poll, executor, unparked, token>>
      /\ now' = now + 1 /\ now \in Nat /\ now' \in 0..MaxTime
      /\ ticks' = [t \in Timers |-> 0] /\ UNCHANGED <<late, stale>>
  BY TimerAssumption DEF PassTime, requests, tasks, parking, history, TimerInv, TypeOK, ClockTypeOK
<1>2. TypeOK' /\ OnlyLatestArmed'
  BY <1>1 DEF TimerInv, TypeOK, ClockTypeOK, MapTypeOK, SignalTypeOK, TaskTypeOK, OnlyLatestArmed
<1>3. RequestInv' /\ UniqueInv'
  BY <1>1 DEF TimerInv, RequestInv, UniqueInv, Busy, Holds, OfTimer, callback
<1>4. \A r \in AllRequests : Paced(r)'
  BY <1>1, CallbackFacts DEF Paced, OfTimer
<1>5. Busy => running \in AllRequests /\ running.at <= now'
  BY <1>1, CallbackFacts DEF TimerInv, RequestInv, PaceInv, Busy
<1>6. PaceInv' /\ NoBurst'
  BY <1>1, <1>4, <1>5 DEF TimerInv, RequestInv, PaceInv, Busy, NoBurst
<1>7. OwnInv' /\ SilenceInv'
  BY <1>1, OwnKept, SilenceKept DEF TimerInv, Present, Queued, Busy
<1>. QED  BY <1>2, <1>3, <1>6, <1>7 DEF TimerInv
-----------------------------------------------------------------------------
(* The timer thread goes back to its loop: no callback runs any more.      *)
LEMMA BackInv ==
    ASSUME TimerInv, BackToLoop, UNCHANGED <<now, channel, times, latest, last_signal, ticks>>
    PROVE  RequestInv' /\ UniqueInv' /\ PaceInv' /\ NoBurst'
  BY DEF BackToLoop, TimerInv, RequestInv, UniqueInv, PaceInv, Paced, NoBurst, Busy, Holds, OfTimer

(* The first entry of the map is taken from it, at its time or later.      *)
LEMMA TakeFirst ==
    ASSUME TimerInv, times # {}, First(times).at <= now,
           thread' = "run", running' = First(times), times' = times \ {First(times)},
           UNCHANGED <<now, channel, latest, last_signal, ticks>>
    PROVE  RequestInv' /\ UniqueInv' /\ PaceInv' /\ NoBurst' /\ MapTypeOK' /\ ClockTypeOK'
<1>. DEFINE e == First(times)
<1>1. e \in times /\ times \subseteq AllRequests
  BY FirstEntry DEF TimerInv, RequestInv
<1>. HIDE DEF e
<1>2. running' = e /\ times' = times \ {e} /\ e.at <= now
  BY DEF e
<1>3. RequestInv'
  BY <1>1, <1>2 DEF TimerInv, RequestInv, callback
<1>4. UniqueInv'
  <2>1. OfTimer(e) => e.callback.signal <= last_signal
    BY <1>1 DEF TimerInv, UniqueInv
  <2>2. ASSUME NEW s \in Signals, Holds(e, s)
        PROVE  (\A f \in times' : ~Holds(f, s)) /\ (\A i \in DOMAIN channel : ~Holds(channel[i], s))
    BY <1>1, <1>2, <2>2 DEF TimerInv, UniqueInv
  <2>. QED  BY <1>1, <1>2, <2>1, <2>2 DEF TimerInv, UniqueInv, Busy, callback, Holds, OfTimer
<1>5. PaceInv' /\ NoBurst'
  BY <1>1, <1>2 DEF TimerInv, PaceInv, Paced, Busy, OfTimer, NoBurst
<1>6. MapTypeOK' /\ ClockTypeOK'
  BY <1>2 DEF TimerInv, TypeOK, MapTypeOK, ClockTypeOK, ThreadStates
<1>. QED  BY <1>3, <1>4, <1>5, <1>6

(* A request goes from the channel to the map.                             *)
LEMMA ReceiveInv ==
    ASSUME TimerInv, Receive
    PROVE  RequestInv' /\ UniqueInv' /\ PaceInv' /\ NoBurst' /\ MapTypeOK' /\ ClockTypeOK'
<1>. DEFINE r == Head(channel)
            same == {e \in times : e.at = r.at}
<1>1. /\ thread' = "loop" /\ times' = (times \ same) \cup {r}
      /\ channel # <<>> /\ channel' = Tail(channel)
      /\ UNCHANGED <<now, running, latest, last_signal, ticks>>
  BY DEF Receive, ThreadOnly, clock
<1>2. /\ channel \in Seq(AllRequests) /\ times \subseteq AllRequests
      /\ channel' \in Seq(AllRequests) /\ r \in AllRequests /\ 1 \in DOMAIN channel
      /\ r = channel[1]
      /\ \A i \in DOMAIN channel' :
            i + 1 \in DOMAIN channel /\ channel'[i] = channel[i + 1] /\ i + 1 # 1 /\ i \in Nat
  BY <1>1, ReceiveFacts DEF TimerInv, RequestInv
<1>3. MapTypeOK' /\ ClockTypeOK'
  BY <1>1 DEF TimerInv, TypeOK, MapTypeOK, ClockTypeOK, ThreadStates
<1>. HIDE DEF r, same
<1>4. RequestInv'
  BY <1>1, <1>2 DEF RequestInv
<1>5. UniqueInv'
  <2>1. /\ \A e \in times' : OfTimer(e) => e.callback.signal <= last_signal
        /\ \A i \in DOMAIN channel' :
               OfTimer(channel'[i]) => channel'[i].callback.signal <= last_signal
    BY <1>1, <1>2 DEF TimerInv, UniqueInv
  <2>2. ASSUME NEW s \in Signals
        PROVE  /\ \A e, f \in times' : Holds(e, s) /\ Holds(f, s) => e = f
               /\ \A i, j \in DOMAIN channel' :
                      Holds(channel'[i], s) /\ Holds(channel'[j], s) => i = j
               /\ \A e \in times', i \in DOMAIN channel' : ~(Holds(e, s) /\ Holds(channel'[i], s))
    <3>1. \A e, f \in times' : Holds(e, s) /\ Holds(f, s) => e = f
      BY <1>1, <1>2 DEF TimerInv, UniqueInv
    <3>2. ASSUME NEW i \in DOMAIN channel', NEW j \in DOMAIN channel',
                 Holds(channel'[i], s), Holds(channel'[j], s)
          PROVE  i = j
      <4>1. i + 1 = j + 1
        BY <1>2, <3>2 DEF TimerInv, UniqueInv
      <4>. QED  BY <1>2, <4>1
    <3>3. ASSUME NEW e \in times', NEW i \in DOMAIN channel', Holds(e, s), Holds(channel'[i], s)
          PROVE  FALSE
      BY <1>1, <1>2, <3>3 DEF TimerInv, UniqueInv
    <3>. QED  BY <3>1, <3>2, <3>3
  <2>. QED  BY <1>1, <2>1, <2>2 DEF UniqueInv, Busy, Holds, OfTimer
<1>6. PaceInv' /\ NoBurst'
  <2>1. \A e \in times' : Paced(e)
    BY <1>1, <1>2 DEF TimerInv, PaceInv
  <2>2. \A i \in DOMAIN channel' : Paced(channel'[i])
    BY <1>2 DEF TimerInv, PaceInv
  <2>. QED  BY <1>1, <2>1, <2>2 DEF TimerInv, PaceInv, Paced, Busy, OfTimer, NoBurst
<1>. QED  BY <1>3, <1>4, <1>5, <1>6

(* The callback goes on: its request stays the one that runs.              *)
LEMMA GoOn ==
    ASSUME TimerInv, thread = "run", thread' \in {"fire", "tick", "wake"},
           thread' = "fire" => callback.kind = "once",
           thread' = "tick" => callback.kind = "interval",
           UNCHANGED <<now, channel, times, running, latest, last_signal, ticks>>
    PROVE  RequestInv' /\ UniqueInv' /\ PaceInv' /\ NoBurst'
<1>1. Busy /\ (Busy' => Busy)
  BY DEF Busy
<1>2. RequestInv'
  BY DEF TimerInv, RequestInv, callback
<1>3. UniqueInv'
  BY <1>1 DEF TimerInv, UniqueInv, callback, Holds, OfTimer
<1>4. PaceInv' /\ NoBurst'
  BY <1>1 DEF TimerInv, PaceInv, Paced, OfTimer, NoBurst
<1>. QED  BY <1>2, <1>3, <1>4

(* A callback posts its notice: no other request has its signal, so the    *)
(* others keep their pace.                                                 *)
LEMMA PostInv ==
    ASSUME TimerInv, Busy, OfTimer(running), PostNotice, UNCHANGED <<now, latest>>
    PROVE  /\ \A e \in Queued : Paced(e)'
           /\ NoBurst' /\ ticks' \in [Timers -> Nat]
           /\ \A t \in Timers : latest[t] = callback.signal /\ t = callback.timer =>
                 \/ ticks'[t] = 1
                 \/ ticks'[t] = 2 /\ running.at = now
<1>. DEFINE t == callback.timer
            s == callback.signal
<1>1. /\ running \in AllRequests /\ t \in Timers /\ s \in Signals
      /\ ticks \in [Timers -> Nat] /\ now \in Nat /\ running.at \in Nat /\ running.at <= now
  BY CallbackFacts
     DEF TimerInv, TypeOK, SignalTypeOK, ClockTypeOK, RequestInv, PaceInv, Busy, callback
<1>2. CASE s # latest[t]
  <2>1. ticks' = ticks
    BY <1>2 DEF PostNotice
  <2>2. \A e \in Queued : Paced(e)
    BY DEF TimerInv, PaceInv, Queued
  <2>3. \A e \in Queued : Paced(e)'
    BY <2>1, <2>2 DEF Paced, OfTimer
  <2>. QED  BY <1>1, <1>2, <2>1, <2>3 DEF TimerInv, NoBurst
<1>3. CASE s = latest[t]
  <2>1. /\ ticks'[t] = ticks[t] + 1 /\ ticks' \in [Timers -> Nat]
        /\ \A u \in Timers : u # t => ticks'[u] = ticks[u]
    BY <1>1, <1>3 DEF PostNotice
  <2>2. ticks[t] = 0 \/ (ticks[t] = 1 /\ running.at = now)
    BY <1>1, <1>3 DEF TimerInv, PaceInv, Paced, Busy, callback
  <2>3. Holds(running, s)
    BY DEF Holds, callback
  <2>4. ASSUME NEW e \in AllRequests, Paced(e), ~Holds(e, s) PROVE Paced(e)'
    BY <1>3, <2>1, <2>4, CallbackFacts DEF Paced, Holds, OfTimer
  <2>5. \A e \in Queued : e \in AllRequests /\ Paced(e) /\ ~Holds(e, s)
    BY <1>1, <2>3 DEF TimerInv, RequestInv, UniqueInv, PaceInv, Queued
  <2>6. NoBurst'
    BY <1>1, <2>1, <2>2 DEF TimerInv, NoBurst
  <2>. QED  BY <2>1, <2>2, <2>4, <2>5, <2>6
<1>. QED  BY <1>2, <1>3

(* The next tick of an interval is at no earlier time than now, and later  *)
(* if this one was for now.                                                *)
LEMMA NextTargetFacts ==
    ASSUME TimerInv, thread = "tick"
    PROVE  /\ NextTarget \in Nat /\ NextTarget >= now
           /\ running.at = now => NextTarget > now
<1>1. running.at \in Nat /\ callback.every \in Nat \ {0} /\ now \in Nat
  BY CallbackFacts DEF TimerInv, RequestInv, callback, TypeOK, ClockTypeOK
<1>. QED  BY <1>1 DEF NextTarget

LEMMA FireInv ==
    ASSUME TimerInv, Fire
    PROVE  RequestInv' /\ UniqueInv' /\ PaceInv' /\ NoBurst' /\ ticks' \in [Timers -> Nat]
<1>1. /\ thread = "fire" /\ Busy /\ OfTimer(running) /\ PostNotice /\ BackToLoop
      /\ UNCHANGED <<now, channel, times, latest, last_signal>>
  BY DEF Fire, ThreadOnly, clock, requests, TimerInv, RequestInv, Busy, OfTimer, callback
<1>2. RequestInv' /\ UniqueInv'
  BY <1>1 DEF BackToLoop, TimerInv, RequestInv, UniqueInv, Busy, Holds, OfTimer
<1>3. PaceInv'
  BY <1>1, PostInv DEF BackToLoop, PaceInv, Busy, Paced, OfTimer, Queued
<1>. QED  BY <1>1, <1>2, <1>3, PostInv

LEMMA TickInv ==
    ASSUME TimerInv, Tick
    PROVE  RequestInv' /\ UniqueInv' /\ PaceInv' /\ NoBurst' /\ ticks' \in [Timers -> Nat]
<1>1. /\ thread = "tick" /\ Busy /\ OfTimer(running) /\ PostNotice /\ BackToLoop
      /\ UNCHANGED <<now, times, latest, last_signal>>
      /\ running \in AllRequests
  BY DEF Tick, ThreadOnly, clock, TimerInv, RequestInv, Busy, OfTimer, callback
<1>2. PICK r \in AllRequests :
        r.callback = callback /\ r.at = NextTarget /\ channel' = Append(channel, r)
  BY <1>1, NextTargetFacts DEF Tick, Request, AllRequests, callback
<1>3. /\ channel' \in Seq(AllRequests)
      /\ Len(channel) + 1 \notin DOMAIN channel
      /\ \A i \in DOMAIN channel' :
            \/ i \in DOMAIN channel /\ channel'[i] = channel[i]
            \/ i = Len(channel) + 1 /\ channel'[i] = r
  BY <1>2, SendFacts DEF TimerInv, RequestInv
<1>4. RequestInv'
  BY <1>1, <1>3 DEF BackToLoop, TimerInv, RequestInv
<1>5. UniqueInv'
  <2>1. /\ \A s : Holds(r, s) <=> Holds(running, s)
        /\ OfTimer(r) /\ r.callback.signal <= last_signal
    BY <1>1, <1>2 DEF Holds, OfTimer, callback, TimerInv, UniqueInv
  <2>2. ASSUME NEW s \in Signals
        PROVE  /\ \A i, j \in DOMAIN channel' :
                      Holds(channel'[i], s) /\ Holds(channel'[j], s) => i = j
               /\ \A e \in times, i \in DOMAIN channel' : ~(Holds(e, s) /\ Holds(channel'[i], s))
    BY <1>1, <1>3, <2>1 DEF TimerInv, UniqueInv
  <2>3. \A i \in DOMAIN channel' :
            OfTimer(channel'[i]) => channel'[i].callback.signal <= last_signal
    BY <1>3, <2>1 DEF TimerInv, UniqueInv
  <2>. QED  BY <1>1, <2>2, <2>3 DEF BackToLoop, TimerInv, UniqueInv, Busy, Holds, OfTimer
<1>6. PaceInv'
  <2>1. Paced(r)'
    <3>1. now \in Nat
      BY DEF TimerInv, TypeOK, ClockTypeOK
    <3>2. callback.timer \in Timers
      BY <1>1, CallbackFacts DEF OfTimer, callback
    <3>3. latest[callback.timer] = callback.signal =>
              \/ ticks'[callback.timer] = 1
              \/ ticks'[callback.timer] = 2 /\ NextTarget > now
      BY <1>1, <3>2, PostInv, NextTargetFacts
    <3>4. NextTarget >= now
      BY <1>1, NextTargetFacts
    <3>5. ASSUME NEW e \in AllRequests, e.callback = callback, e.at = NextTarget PROVE Paced(e)'
      BY <1>1, <3>1, <3>3, <3>4, <3>5 DEF Paced
    <3>. QED  BY <1>2, <3>5
  <2>2. \A e \in Queued : Paced(e)'
    BY <1>1, PostInv
  <2>3. \A i \in DOMAIN channel' : channel'[i] \in Queued \/ channel'[i] = r
    BY <1>3 DEF Queued
  <2>. QED  BY <1>1, <2>1, <2>2, <2>3 DEF BackToLoop, PaceInv, Busy, Paced, OfTimer, Queued
<1>. QED  BY <1>1, <1>4, <1>5, <1>6, PostInv

LEMMA ThreadRequests ==
    ASSUME TimerInv, ThreadStep
    PROVE  /\ RequestInv' /\ UniqueInv' /\ PaceInv' /\ NoBurst'
           /\ MapTypeOK' /\ ClockTypeOK' /\ ticks' \in [Timers -> Nat]
<1>1. /\ UNCHANGED <<now, latest, last_signal>>
      /\ thread \in ThreadStates /\ now \in 0..MaxTime /\ ticks \in [Timers -> Nat]
  BY DEF ThreadStep, LoopTop, Receive, Timeout, Load, Fire, Tick, RunOther, Elapse, WakeByRef,
         UnparkExecutor, ThreadOnly, clock, TimerInv, TypeOK, ClockTypeOK, SignalTypeOK
<1>2. ASSUME UNCHANGED times, thread' \in ThreadStates \ {"recv_timeout"}
      PROVE  MapTypeOK' /\ ClockTypeOK'
  BY <1>1, <1>2 DEF TimerInv, TypeOK, MapTypeOK, ClockTypeOK
<1>3. CASE LoopTop
  <2>1. CASE times = {} \/ First(times).at >= now
    <3>1. /\ thread' \in {"recv", "recv_timeout"} /\ (thread' = "recv_timeout" => times # {})
          /\ UNCHANGED <<now, channel, times, running, latest, last_signal, ticks>>
          /\ thread = "loop"
      BY <1>3, <2>1 DEF LoopTop, ThreadOnly, clock
    <3>2. MapTypeOK' /\ ClockTypeOK'
      BY <3>1 DEF TimerInv, TypeOK, MapTypeOK, ClockTypeOK, ThreadStates
    <3>3. RequestInv' /\ UniqueInv' /\ PaceInv' /\ NoBurst'
      BY <3>1 DEF TimerInv, RequestInv, UniqueInv, PaceInv, Paced, NoBurst, Busy, Holds, OfTimer
    <3>. QED  BY <1>1, <3>1, <3>2, <3>3
  <2>2. CASE ~(times = {} \/ First(times).at >= now)
    <3>1. First(times).at \in Nat /\ now \in Nat
      BY <2>2, FirstEntry, CallbackFacts DEF TimerInv, RequestInv, TypeOK, ClockTypeOK
    <3>2. /\ times # {} /\ First(times).at <= now
          /\ thread' = "run" /\ running' = First(times) /\ times' = times \ {First(times)}
          /\ UNCHANGED <<now, channel, latest, last_signal, ticks>>
      BY <1>3, <2>2, <3>1 DEF LoopTop, ThreadOnly, clock
    <3>. QED  BY <1>1, <3>2, TakeFirst
  <2>. QED  BY <2>1, <2>2
<1>4. CASE Receive
  <2>1. UNCHANGED ticks
    BY <1>4 DEF Receive
  <2>. QED  BY <1>1, <1>4, <2>1, ReceiveInv
<1>5. CASE Timeout
  <2>1. times # {}
    BY <1>5 DEF Timeout, TimerInv, TypeOK, MapTypeOK
  <2>2. First(times).at \in Nat /\ now \in Nat
    BY <2>1, FirstEntry, CallbackFacts DEF TimerInv, RequestInv, TypeOK, ClockTypeOK
  <2>3. /\ First(times).at <= now
        /\ thread' = "run" /\ running' = First(times) /\ times' = times \ {First(times)}
        /\ UNCHANGED <<now, channel, latest, last_signal, ticks>>
    BY <1>5, <2>2 DEF Timeout, ThreadOnly, clock
  <2>. QED  BY <1>1, <2>1, <2>3, TakeFirst
<1>6. CASE Load \/ RunOther \/ Elapse \/ WakeByRef \/ UnparkExecutor
  <2>1. UNCHANGED <<now, channel, times, latest, last_signal, ticks>>
    BY <1>6 DEF Load, RunOther, Elapse, WakeByRef, UnparkExecutor, ThreadOnly, clock, requests
  <2>2. CASE BackToLoop
    BY <1>1, <1>2, <2>1, <2>2, BackInv DEF BackToLoop, ThreadStates
  <2>3. CASE ~BackToLoop /\ (Load \/ Elapse)
    <3>1. /\ thread = "run" /\ UNCHANGED running
          /\ thread' \in {"fire", "tick", "wake"}
          /\ thread' = "fire" => callback.kind = "once"
          /\ thread' = "tick" => callback.kind = "interval"
      BY <2>3 DEF Load, Elapse
    <3>. QED  BY <1>1, <1>2, <2>1, <3>1, GoOn DEF ThreadStates
  <2>4. CASE ~BackToLoop /\ (WakeByRef \/ UnparkExecutor)
    <3>1. thread = "wake" /\ thread' = "unpark" /\ UNCHANGED running
      BY <2>4 DEF WakeByRef, UnparkExecutor
    <3>2. RequestInv' /\ UniqueInv' /\ PaceInv' /\ NoBurst'
      BY <2>1, <3>1
         DEF TimerInv, RequestInv, UniqueInv, PaceInv, Paced, NoBurst, Busy, Holds, OfTimer
    <3>. QED  BY <1>1, <1>2, <2>1, <3>1, <3>2 DEF ThreadStates
  <2>. QED  BY <1>6, <2>2, <2>3, <2>4 DEF RunOther
<1>7. CASE Fire
  <2>1. UNCHANGED times /\ thread' = "loop"
    BY <1>7 DEF Fire, BackToLoop, requests
  <2>. QED  BY <1>2, <1>7, <2>1, FireInv DEF ThreadStates
<1>8. CASE Tick
  <2>1. UNCHANGED times /\ thread' = "loop"
    BY <1>8 DEF Tick, BackToLoop
  <2>. QED  BY <1>2, <1>8, <2>1, TickInv DEF ThreadStates
<1>. QED  BY <1>3, <1>4, <1>5, <1>6, <1>7, <1>8 DEF ThreadStep

(* The requests after a step of the timer thread were there before, or are *)
(* the next of an interval that was.                                       *)
LEMMA ThreadOwns ==
    ASSUME TimerInv, ThreadStep
    PROVE  OwnInv'
<1>1. UNCHANGED latest
  BY DEF ThreadStep, LoopTop, Receive, Timeout, Load, Fire, Tick, RunOther, Elapse, WakeByRef,
         UnparkExecutor, ThreadOnly
<1>2. /\ channel \in Seq(AllRequests) /\ times \subseteq AllRequests
      /\ running \in Present \/ ~Busy
      /\ \A e \in times : e \in Present
      /\ \A i \in DOMAIN channel : channel[i] \in Present
  BY DEF TimerInv, RequestInv, Present, Queued
<1>. SUFFICES \A e \in Present' : \E f \in Present : f.callback = e.callback
  BY <1>1, OwnKept DEF TimerInv
<1>3. CASE UNCHANGED <<requests, running>> /\ (Busy' => Busy)
  BY <1>3 DEF Present, Queued, Busy, requests
<1>4. CASE UNCHANGED requests /\ thread' = "loop"
  BY <1>4 DEF Present, Queued, Busy, requests
<1>5. CASE UNCHANGED channel /\ running' \in times /\ times' \subseteq times
  BY <1>2, <1>5 DEF Present, Queued, Busy
<1>6. CASE Receive
  <2>1. /\ thread' = "loop" /\ channel # <<>> /\ channel' = Tail(channel)
        /\ times' \subseteq times \cup {Head(channel)}
    BY <1>6 DEF Receive
  <2>2. /\ 1 \in DOMAIN channel /\ Head(channel) = channel[1]
        /\ \A i \in DOMAIN channel' : i + 1 \in DOMAIN channel /\ channel'[i] = channel[i + 1]
    BY <1>2, <2>1, ReceiveFacts
  <2>. QED  BY <1>2, <2>1, <2>2 DEF Present, Queued, Busy
<1>7. CASE Tick
  <2>1. /\ thread = "tick" /\ thread' = "loop" /\ UNCHANGED times
        /\ running \in AllRequests /\ running \in Present
    BY <1>2, <1>7 DEF Tick, BackToLoop, Busy, TimerInv, RequestInv
  <2>2. PICK r \in AllRequests : r.callback = running.callback /\ channel' = Append(channel, r)
    BY <1>7, <2>1, NextTargetFacts DEF Tick, Request, AllRequests, callback
  <2>3. \A i \in DOMAIN channel' :
            (i \in DOMAIN channel /\ channel'[i] = channel[i]) \/ channel'[i] = r
    BY <1>2, <2>2, SendFacts
  <2>. QED  BY <1>2, <2>1, <2>2, <2>3 DEF Present, Queued, Busy
<1>8. CASE LoopTop
  <2>1. CASE times = {} \/ First(times).at >= now
    BY <1>4, <1>8, <2>1 DEF LoopTop, Present, Queued, Busy
  <2>2. CASE ~(times = {} \/ First(times).at >= now)
    BY <1>2, <1>5, <1>8, <2>2, FirstEntry DEF LoopTop
  <2>. QED  BY <2>1, <2>2
<1>9. CASE Timeout
  <2>1. times # {}
    BY <1>9 DEF Timeout, TimerInv, TypeOK, MapTypeOK
  <2>. QED  BY <1>2, <1>5, <1>9, <2>1, FirstEntry DEF Timeout
<1>10. CASE Load \/ Fire \/ RunOther \/ Elapse \/ WakeByRef \/ UnparkExecutor
  BY <1>3, <1>4, <1>10
     DEF Load, Fire, RunOther, Elapse, WakeByRef, UnparkExecutor, BackToLoop, Busy, requests
<1>. QED  BY <1>6, <1>7, <1>8, <1>9, <1>10 DEF ThreadStep

(* A callback goes on only with a signal that is armed, which is then the  *)
(* latest of its timer; what it posts late was counted when it was called  *)
(* back.                                                                   *)
LEMMA ThreadIsSilent ==
    ASSUME TimerInv, ThreadStep
    PROVE  SilenceInv' /\ late' \in [Timers -> {0, 1}] /\ stale' \in [Timers -> Nat]
<1>1. /\ late \in [Timers -> {0, 1}] /\ stale \in [Timers -> Nat] /\ OnlyLateIsStale
      /\ UNCHANGED latest
  BY DEF TimerInv, TypeOK, SignalTypeOK, SilenceInv, ThreadStep, LoopTop, Receive, Timeout, Load,
         Fire, Tick, RunOther, Elapse, WakeByRef, UnparkExecutor, ThreadOnly
<1>2. ASSUME UNCHANGED <<late, stale>>, thread' \notin {"fire", "tick"} PROVE SilenceInv'
  BY <1>1, <1>2 DEF SilenceInv, OnlyLateIsStale
<1>3. CASE LoopTop \/ Receive \/ Timeout \/ RunOther \/ Elapse \/ WakeByRef \/ UnparkExecutor
  <2>1. UNCHANGED <<late, stale>> /\ thread' \notin {"fire", "tick"}
    BY <1>3 DEF LoopTop, Receive, Timeout, RunOther, Elapse, WakeByRef, UnparkExecutor, BackToLoop,
                history
  <2>. QED  BY <1>1, <1>2, <2>1
<1>4. CASE Load
  <2>1. UNCHANGED <<late, stale, armed>> /\ thread = "run"
    BY <1>4 DEF Load, history
  <2>2. CASE callback.signal \in armed
    <3>1. running \in AllRequests /\ OfTimer(running) /\ running \in Present /\ UNCHANGED running
      BY <1>4, <2>1, <2>2
         DEF Load, TimerInv, RequestInv, OfTimer, callback, Present, Busy
    <3>2. PICK u \in Timers : latest[u] = callback.signal
      BY <2>2 DEF TimerInv, OnlyLatestArmed
    <3>3. u = callback.timer
      BY <3>1, <3>2 DEF TimerInv, OwnInv, Owned, callback
    <3>4. ~SwitchedOff(callback)'
      BY <1>1, <2>1, <2>2, <3>1, <3>2, <3>3 DEF SwitchedOff, callback
    <3>5. SilenceInv'
      BY <1>1, <2>1, <3>1, <3>4 DEF SilenceInv, OnlyLateIsStale, callback
    <3>. QED  BY <1>1, <2>1, <3>5
  <2>3. CASE callback.signal \notin armed
    BY <1>1, <1>2, <1>4, <2>1, <2>3 DEF Load, BackToLoop
  <2>. QED  BY <2>2, <2>3
<1>5. CASE Fire \/ Tick
  <2>. DEFINE t == callback.timer
  <2>1. /\ thread \in {"fire", "tick"} /\ thread' = "loop" /\ PostNotice
        /\ running \in AllRequests /\ OfTimer(running)
    BY <1>5 DEF Fire, Tick, BackToLoop, TimerInv, RequestInv, OfTimer, callback
  <2>2. t \in Timers
    BY <2>1, CallbackFacts DEF callback
  <2>3. UNCHANGED late
    BY <2>1 DEF PostNotice
  <2>4. CASE SwitchedOff(callback)
    <3>1. stale' = [stale EXCEPT ![t] = @ + 1] /\ stale[t] = 0 /\ late[t] = 1
      BY <2>1, <2>4 DEF PostNotice, SwitchedOff, TimerInv, SilenceInv
    <3>2. stale' \in [Timers -> Nat] /\ OnlyLateIsStale'
      BY <1>1, <2>2, <2>3, <3>1 DEF OnlyLateIsStale
    <3>. QED  BY <1>1, <2>1, <2>3, <3>2 DEF SilenceInv
  <2>5. CASE ~SwitchedOff(callback)
    <3>1. stale' = stale
      BY <2>1, <2>5 DEF PostNotice, SwitchedOff
    <3>. QED  BY <1>1, <1>2, <2>1, <2>3, <3>1
  <2>. QED  BY <2>4, <2>5
<1>. QED  BY <1>3, <1>4, <1>5 DEF ThreadStep

LEMMA ThreadStepInv == TimerInv /\ ThreadStep => TimerInv'
<1>. SUFFICES ASSUME TimerInv, ThreadStep PROVE TimerInv'
  OBVIOUS
<1>1. armed' \subseteq armed /\ UNCHANGED <<latest, last_signal, sleeps, to_poll, executor>>
  BY DEF ThreadStep, LoopTop, Receive, Timeout, Load, Fire, Tick, RunOther, Elapse, WakeByRef,
     UnparkExecutor, ThreadOnly
<1>2. fut' \in [Tasks -> FutStates] /\ {unparked', token'} \subseteq BOOLEAN
  <2>1. CASE Elapse
    <3>1. fut' = [fut EXCEPT ![callback.task] = "elapsed"] /\ UNCHANGED <<unparked, token>>
      BY <2>1 DEF Elapse, parking
    <3>. QED  BY <3>1 DEF TimerInv, TypeOK, TaskTypeOK, FutStates
  <2>2. CASE WakeByRef \/ UnparkExecutor
    BY <2>2 DEF WakeByRef, UnparkExecutor, TimerInv, TypeOK, TaskTypeOK
  <2>3. CASE LoopTop \/ Receive \/ Timeout \/ Load \/ Fire \/ Tick \/ RunOther
    BY <2>3 DEF LoopTop, Receive, Timeout, Load, Fire, Tick, RunOther, parking, TimerInv, TypeOK,
                TaskTypeOK
  <2>. QED  BY <2>1, <2>2, <2>3 DEF ThreadStep
<1>3. TaskTypeOK' /\ OnlyLatestArmed'
  BY <1>1, <1>2 DEF TimerInv, TypeOK, TaskTypeOK, OnlyLatestArmed
<1>4. SignalTypeOK'
  BY <1>1, ThreadRequests, ThreadIsSilent DEF TimerInv, TypeOK, SignalTypeOK
<1>. QED  BY <1>3, <1>4, ThreadRequests, ThreadOwns, ThreadIsSilent DEF TimerInv, TypeOK
-----------------------------------------------------------------------------
THEOREM TimerInvariant == Spec => []TimerInv
<1>1. TimerInv /\ [Next]_vars => TimerInv'
  <2>. SUFFICES ASSUME TimerInv, [Next]_vars PROVE TimerInv'
    OBVIOUS
  <2>1. CASE UNCHANGED vars
    <3>1. TypeOK' /\ OnlyLatestArmed'
      BY <2>1
         DEF vars, TimerInv, TypeOK, ClockTypeOK, MapTypeOK, SignalTypeOK, TaskTypeOK,
         OnlyLatestArmed
    <3>. QED  BY <2>1, <3>1, Quiet, SilenceKept DEF vars, TimerInv
  <2>. QED
    BY <2>1, ArmStep, CancelStep, OtherStep, ExecutorStepInv, ThreadStepInv, PassTimeStep DEF Next
<1>. QED  BY <1>1, TimerInit, PTL DEF Spec

(* The timers, the map and the executor keep their types: background_work, *)
(* FastTimerControl and run_executor.                                      *)
THEOREM TimerTypes == Spec => []TypeOK
<1>1. TimerInv => TypeOK
  BY DEF TimerInv
<1>. QED  BY <1>1, TimerInvariant, PTL

(* A timer that was cancelled or armed again posts nothing more for what   *)
(* it was armed for, except the notice of a callback that was past its     *)
(* load then: new_enable_signal, cancel_last and the callbacks of          *)
(* FastTimerControl::notify_at and start_interval.                         *)
THEOREM SilentAfterCancel == Spec => []OnlyLateIsStale
<1>1. TimerInv => OnlyLateIsStale
  BY DEF TimerInv, SilenceInv
<1>. QED  BY <1>1, TimerInvariant, PTL

(* However late the timer thread is, an interval makes up for at most one  *)
(* tick: the callback of FastTimerControl::start_interval.                 *)
THEOREM IntervalsNeverBurst == Spec => []NoBurst
<1>1. TimerInv => NoBurst
  BY DEF TimerInv
<1>. QED  BY <1>1, TimerInvariant, PTL
-----------------------------------------------------------------------------
(***************************************************************************)
(* The invisible window.                                                   *)
(***************************************************************************)

Notices == [timer : {"close", "refocus", "reshow"}, for : Nat]

OwnNotices ==
    \A i \in DOMAIN notices : notices[i].timer = "close" => notices[i].for = window

SwitchInv ==
    /\ switches \in Nat /\ window \in Nat
    /\ notices \in Seq(Notices)
    /\ close_timer \in {0, window}
    /\ window # 0 => on_its_way \/ OwnNotices
    /\ WindowIsNotCutShort
-----------------------------------------------------------------------------
(* What leaves the window, its timer and the notices alone, and does not   *)
(* add to the switches that may come.                                      *)
LEMMA Unconcerned ==
    ASSUME SwitchInv, UNCHANGED <<window, on_its_way, close_timer, notices, cut_short>>,
           switches' \in Nat
    PROVE  SwitchInv'
  BY DEF SwitchInv, OwnNotices, WindowIsNotCutShort

LEMMA FireKeeps ==
    ASSUME SwitchInv, Timeouts PROVE SwitchInv'
<1>1. PICK which \in {"close", "refocus", "reshow"}, for \in Nat :
          /\ notices' = Append(notices, [timer |-> which, for |-> for])
          /\ which = "close" => for = window /\ close_timer' = 0
          /\ which # "close" => close_timer' = close_timer
          /\ UNCHANGED <<window, on_its_way, switches, cut_short>>
  BY DEF Timeouts, FireClose, FireRefocus, FireReshow, Send, window_vars, SwitchInv
<1>. DEFINE n == [timer |-> which, for |-> for]
<1>2. n \in Notices
  BY DEF Notices
<1>3. /\ notices' \in Seq(Notices)
      /\ \A i \in DOMAIN notices' :
             notices'[i] = n \/ (i \in DOMAIN notices /\ notices'[i] = notices[i])
  BY <1>1, <1>2, AppendProperties DEF SwitchInv
<1>4. OwnNotices => OwnNotices'
  BY <1>1, <1>3 DEF OwnNotices
<1>. QED  BY <1>1, <1>3, <1>4 DEF SwitchInv, WindowIsNotCutShort

(* The first notice is handled.                                            *)
LEMMA Handled ==
    ASSUME SwitchInv, notices # <<>>, notices' = Tail(notices)
    PROVE  /\ notices' \in Seq(Notices)
           /\ Head(notices) \in Notices
           /\ OwnNotices =>
                 /\ Head(notices).timer = "close" => Head(notices).for = window
                 /\ \A i \in DOMAIN notices' :
                        notices'[i].timer = "close" => notices'[i].for = window
<1>1. /\ Head(notices) = notices[1] /\ 1 \in DOMAIN notices
      /\ \A i \in DOMAIN notices' : i + 1 \in DOMAIN notices /\ notices'[i] = notices[i + 1]
  BY HeadTailProperties DEF SwitchInv
<1>. QED  BY <1>1 DEF SwitchInv, OwnNotices

LEMMA NoticeKeeps ==
    ASSUME SwitchInv, OnNotice PROVE SwitchInv'
<1>1. CASE OnCloseTick
  <2>1. /\ window' = 0 /\ close_timer' = 0 /\ switches' = switches
        /\ notices # <<>> /\ notices' = Tail(notices) /\ Head(notices).timer = "close"
        /\ cut_short' = (cut_short \/ (window # 0 /\ window # Head(notices).for /\ ~on_its_way))
    BY <1>1 DEF OnCloseTick, CloseWindow, CancelClose, Received, SwitchInv
  <2>2. window # 0 /\ ~on_its_way => window = Head(notices).for
    BY <2>1, Handled DEF SwitchInv
  <2>. QED  BY <2>1, <2>2, Handled DEF SwitchInv, WindowIsNotCutShort
<1>2. CASE OnRefocusTick \/ Reshow \/ IgnoreReshow
  <2>1. /\ UNCHANGED <<window, on_its_way, close_timer, switches, cut_short>>
        /\ notices # <<>> /\ notices' = Tail(notices)
    BY <1>2 DEF OnRefocusTick, Reshow, IgnoreReshow, Received, timers, window_vars
  <2>2. OwnNotices => OwnNotices'
    BY <2>1, Handled DEF OwnNotices
  <2>. QED  BY <2>1, <2>2, Handled DEF SwitchInv, WindowIsNotCutShort
<1>. QED  BY <1>1, <1>2 DEF OnNotice

(* A new window has no notices but those on their way.                     *)
LEMMA SwitchKeeps ==
    ASSUME SwitchInv, NEW desktop, SwitchDesktop(desktop) PROVE SwitchInv'
<1>1. switches \in Nat /\ switches > 0 /\ switches' = switches - 1 /\ switches' \in Nat
  <2>1. CanSwitch
    BY DEF SwitchDesktop, SwitchByLibrary, SwitchByWindow
  <2>. QED  BY <2>1 DEF CanSwitch, SwitchInv
<1>2. CASE SwitchByLibrary(desktop)
  BY <1>1, <1>2, Unconcerned DEF SwitchByLibrary, window_vars
<1>3. CASE SwitchByWindow(desktop)
  <2>1. /\ window' = switches /\ close_timer' = 0 /\ UNCHANGED <<notices, cut_short>>
        /\ on_its_way' = (CloseNotices # {})
    BY <1>3 DEF SwitchByWindow, CreateInvisibleWindow, CancelClose, SwitchInv
  <2>2. ~on_its_way' => OwnNotices'
    BY <2>1 DEF CloseNotices, OwnNotices
  <2>. QED  BY <1>1, <2>1, <2>2 DEF SwitchInv, WindowIsNotCutShort
<1>. QED  BY <1>2, <1>3 DEF SwitchDesktop

LEMMA FinishKeeps ==
    ASSUME SwitchInv, FinishSwitch PROVE SwitchInv'
<1>1. CASE Retry \/ ShowClosedWindow
  BY <1>1, Unconcerned DEF Retry, ShowClosedWindow, window_vars, timers, SwitchInv
<1>2. CASE MoveFails
  <2>1. /\ window' = 0 /\ close_timer' = 0 /\ UNCHANGED <<notices, switches, cut_short>>
    BY <1>2 DEF MoveFails, CloseWindow, CancelClose, SwitchInv
  <2>. QED  BY <2>1 DEF SwitchInv, WindowIsNotCutShort
<1>3. CASE MoveSucceeds
  BY <1>3 DEF MoveSucceeds, window_vars, SwitchInv, OwnNotices, WindowIsNotCutShort
<1>. QED  BY <1>1, <1>2, <1>3 DEF FinishSwitch

LEMMA NextKeeps ==
    ASSUME SwitchInv, [NextMenuSwitch]_menu_switch_vars PROVE SwitchInv'
<1>1. CASE Build \/ Navigate \/ UNCHANGED menu_switch_vars
  BY <1>1, Unconcerned DEF Build, Navigate, menu_switch_vars, switch_vars, SwitchInv
<1>2. CASE SelectItem
  BY <1>2, Unconcerned DEF SelectItem, window_vars, timers, SwitchInv
<1>3. CASE ItemSelected \/ SpacePressed
  BY <1>3, SwitchKeeps DEF ItemSelected, SpacePressed
<1>4. CASE MenuShown
  <2>1. CASE OpenContextMenu
    BY <2>1, Unconcerned DEF OpenContextMenu, window_vars, SwitchInv
  <2>2. CASE Reshow
    BY <2>2, NoticeKeeps DEF OnNotice
  <2>. QED  BY <1>4, <2>1, <2>2 DEF MenuShown
<1>5. CASE MenuGone
  BY <1>5, Unconcerned DEF MenuGone, MenuClosed, window_vars, SwitchInv
<1>6. CASE Elsewhere
  <2>1. CASE ReopenContextMenu \/ Escape \/ Age
    BY <2>1, Unconcerned DEF ReopenContextMenu, Escape, Age, window_vars, timers, SwitchInv
  <2>. QED  BY <1>6, <2>1, FireKeeps, NoticeKeeps, FinishKeeps DEF Elsewhere, OnNotice
<1>. QED  BY <1>1, <1>2, <1>3, <1>4, <1>5, <1>6 DEF NextMenuSwitch

LEMMA SwitchInit == ASSUME InitMenuSwitch PROVE SwitchInv
<1>1. PICK desktops \in DesktopCounts : desktop_count = desktops + 1
  BY DEF InitMenuSwitch, InitMenu
<1>2. desktop_count - 1 = desktops
  BY <1>1, QuickSwitchAssumption
<1>3. switches \in Nat
  BY <1>2, MenuSwitchAssumption DEF InitMenuSwitch
<1>. QED  BY <1>3 DEF InitMenuSwitch, InitSwitch, SwitchInv, WindowIsNotCutShort

THEOREM SwitchInvariant == MenuSwitchSpec => []SwitchInv
<1>. QED  BY SwitchInit, NextKeeps, PTL DEF MenuSwitchSpec

(* The window that carries a switch is closed by its own timer or by a     *)
(* later switch, not by the timer of the window before it, unless that     *)
(* timer's notice was on its way when the window was created               *)
(* (invisible_window.rs, close_window and on_close_tick).                  *)
THEOREM NotCutShort == MenuSwitchSpec => []WindowIsNotCutShort
<1>1. SwitchInv => WindowIsNotCutShort
  BY DEF SwitchInv
<1>. QED  BY <1>1, SwitchInvariant, PTL
-----------------------------------------------------------------------------
(***************************************************************************)
(* The digits of numbers.                                                  *)
(***************************************************************************)
LEMMA Tens ==
    /\ TenTo(0) = 1 /\ TenTo(1) = 10 /\ TenTo(2) = 100 /\ TenTo(3) = 1000
    /\ TenTo(4) = 10000 /\ TenTo(5) = 100000 /\ TenTo(6) = 1000000
    /\ TenTo(7) = 10000000 /\ TenTo(8) = 100000000 /\ TenTo(9) = 1000000000
BY SMTT(30) DEF TenTo, Powers

(* A digit at the end moves the other digits by one place.                 *)
LEMMA Shift ==
    ASSUME NEW number \in Nat, NEW digit \in Digits, NEW k \in 0..8
    PROVE  (10 * number + digit) \div TenTo(k + 1) = number \div TenTo(k)
<1>1. k \in {0, 1, 2, 3, 4, 5, 6, 7, 8}
  OBVIOUS
<1>. QED  BY <1>1, Tens, SMTT(30) DEF Digits

LEMMA DigitOf ==
    ASSUME NEW number \in Nat, NEW k \in {0, 1, 2, 3, 4, 5, 6, 7, 8}
    PROVE  (number \div TenTo(k)) % 10 \in Digits
<1>1. ASSUME NEW d \in Nat PROVE d % 10 \in Digits
  BY DEF Digits
<1>2. number \div TenTo(k) \in Nat
  <2>1. CASE k = 0  BY <2>1, Tens
  <2>2. CASE k = 1  BY <2>2, Tens
  <2>3. CASE k = 2  BY <2>3, Tens
  <2>4. CASE k = 3  BY <2>4, Tens
  <2>5. CASE k = 4  BY <2>5, Tens
  <2>6. CASE k = 5  BY <2>6, Tens
  <2>7. CASE k = 6  BY <2>7, Tens
  <2>8. CASE k = 7  BY <2>8, Tens
  <2>9. CASE k = 8  BY <2>9, Tens
  <2>. QED  BY <2>1, <2>2, <2>3, <2>4, <2>5, <2>6, <2>7, <2>8, <2>9
<1>. QED  BY <1>1, <1>2

LEMMA PaddedType ==
    ASSUME NEW number \in Nat, NEW width \in 0..9
    PROVE  Padded(number, width) \in Seq(Digits) /\ Len(Padded(number, width)) = width
<1>1. ASSUME NEW k \in 1..width PROVE (number \div TenTo(width - k)) % 10 \in Digits
  <2>1. width - k \in {0, 1, 2, 3, 4, 5, 6, 7, 8}
    OBVIOUS
  <2>. QED  BY <2>1, DigitOf
<1>2. Padded(number, width) \in [1..width -> Digits]
  BY <1>1 DEF Padded
<1>. HIDE DEF Padded
<1>. QED  BY <1>2

(* Typing one more digit.                                                  *)
LEMMA PaddedNext ==
    ASSUME NEW number \in Nat, NEW digit \in Digits, NEW width \in 0..8
    PROVE  Padded(10 * number + digit, width + 1) = Append(Padded(number, width), digit)
<1>. DEFINE more == 10 * number + digit
            longer == Padded(more, width + 1)
            shorter == Padded(number, width)
<1>1. /\ shorter \in Seq(Digits) /\ Len(shorter) = width
      /\ longer \in Seq(Digits) /\ Len(longer) = width + 1
  <2>1. more \in Nat /\ width + 1 \in 0..9 /\ width \in 0..9
    BY DEF Digits
  <2>. HIDE DEF more
  <2>. QED  BY <2>1, PaddedType
<1>2. ASSUME NEW k \in 1..width PROVE longer[k] = shorter[k]
  <2>1. width - k \in 0..8 /\ width + 1 - k = (width - k) + 1
    OBVIOUS
  <2>2. more \div TenTo(width + 1 - k) = number \div TenTo(width - k)
    BY <2>1, Shift
  <2>3. longer[k] = (more \div TenTo(width + 1 - k)) % 10
    BY DEF Padded
  <2>4. shorter[k] = (number \div TenTo(width - k)) % 10
    BY DEF Padded
  <2>. QED  BY <2>2, <2>3, <2>4
<1>3. longer[width + 1] = digit
  <2>1. longer[width + 1] = (more \div TenTo(0)) % 10
    BY DEF Padded
  <2>2. more \div TenTo(0) = more
    BY Tens, SMTT(30) DEF Digits
  <2>. QED  BY <2>1, <2>2 DEF Digits
<1>. HIDE DEF longer, shorter
<1>4. longer = Append(shorter, digit)
  BY <1>1, <1>2, <1>3
<1>. QED  BY <1>4 DEF longer, shorter

LEMMA NoZeros == IsWithoutSomeZeros(<<>>, <<>>)
<1>. DEFINE place == [k \in {} |-> 0]
<1>1. DOMAIN <<>> = {} /\ place \in [{} -> {}]
  OBVIOUS
<1>. QED  BY <1>1 DEF IsWithoutSomeZeros

LEMMA OneDigitMore ==
    ASSUME NEW keys \in Seq(Digits), NEW digits \in Seq(Digits), NEW digit \in Digits,
           IsWithoutSomeZeros(keys, digits)
    PROVE  IsWithoutSomeZeros(Append(keys, digit), Append(digits, digit))
<1>1. PICK place \in [DOMAIN keys -> DOMAIN digits] :
        /\ \A i, j \in DOMAIN keys : i < j => place[i] < place[j]
        /\ \A i \in DOMAIN keys : keys[i] = digits[place[i]]
        /\ \A k \in DOMAIN digits : digits[k] # 0 => \E i \in DOMAIN keys : place[i] = k
  BY DEF IsWithoutSomeZeros
<1>. DEFINE more == Append(keys, digit)
            longer == Append(digits, digit)
            to == [i \in DOMAIN more |-> IF i = Len(more) THEN Len(longer) ELSE place[i]]
<1>2. /\ DOMAIN more = 1..Len(keys) + 1 /\ Len(more) = Len(keys) + 1
      /\ DOMAIN longer = 1..Len(digits) + 1 /\ Len(longer) = Len(digits) + 1
      /\ DOMAIN keys = 1..Len(keys) /\ DOMAIN digits = 1..Len(digits)
      /\ Len(keys) \in Nat /\ Len(digits) \in Nat
      /\ more[Len(keys) + 1] = digit /\ longer[Len(digits) + 1] = digit
      /\ \A i \in DOMAIN keys : more[i] = keys[i]
      /\ \A i \in DOMAIN digits : longer[i] = digits[i]
  BY AppendProperties
<1>. HIDE DEF more, longer
<1>3. to \in [DOMAIN more -> DOMAIN longer]
  BY <1>2
<1>4. \A i \in DOMAIN more :
         \/ i = Len(keys) + 1 /\ to[i] = Len(digits) + 1
         \/ i \in DOMAIN keys /\ to[i] = place[i] /\ place[i] \in DOMAIN digits
  BY <1>2
<1>. HIDE DEF to
<1>5. \A i, j \in DOMAIN more : i < j => to[i] < to[j]
  <2> SUFFICES ASSUME NEW i \in DOMAIN more, NEW j \in DOMAIN more, i < j
               PROVE  to[i] < to[j]
    OBVIOUS
  <2>1. i \in DOMAIN keys /\ to[i] = place[i] /\ place[i] \in DOMAIN digits
    BY <1>2, <1>4
  <2>2. CASE j = Len(keys) + 1
    BY <1>2, <1>4, <2>1, <2>2
  <2>3. CASE j \in DOMAIN keys
    BY <1>1, <1>2, <1>4, <2>1, <2>3
  <2>. QED  BY <1>2, <2>2, <2>3
<1>6. \A i \in DOMAIN more : more[i] = longer[to[i]]
  BY <1>1, <1>2, <1>4
<1>7. ASSUME NEW k \in DOMAIN longer, longer[k] # 0 PROVE \E i \in DOMAIN more : to[i] = k
  <2>1. CASE k = Len(digits) + 1
    <3>1. Len(keys) + 1 \in DOMAIN more /\ to[Len(keys) + 1] = k
      BY <2>1, <1>2, <1>4
    <3>. QED  BY <3>1
  <2>2. CASE k \in DOMAIN digits
    <3>1. PICK i \in DOMAIN keys : place[i] = k
      BY <1>1, <1>2, <1>7, <2>2
    <3>2. i \in DOMAIN more /\ to[i] = k
      BY <1>2, <1>4, <3>1
    <3>. QED  BY <3>2
  <2>. QED  BY <1>2, <2>1, <2>2
<1>8. IsWithoutSomeZeros(more, longer)
  BY <1>3, <1>5, <1>6, <1>7 DEF IsWithoutSomeZeros
<1>. QED  BY <1>8 DEF more, longer

LEMMA OneZeroMore ==
    ASSUME NEW keys \in Seq(Digits), NEW digits \in Seq(Digits),
           IsWithoutSomeZeros(keys, digits)
    PROVE  IsWithoutSomeZeros(keys, Append(digits, 0))
<1>. DEFINE longer == Append(digits, 0)
<1>1. PICK place \in [DOMAIN keys -> DOMAIN digits] :
        /\ \A i, j \in DOMAIN keys : i < j => place[i] < place[j]
        /\ \A i \in DOMAIN keys : keys[i] = digits[place[i]]
        /\ \A k \in DOMAIN digits : digits[k] # 0 => \E i \in DOMAIN keys : place[i] = k
  BY DEF IsWithoutSomeZeros
<1>2. /\ DOMAIN longer = 1..Len(digits) + 1
      /\ DOMAIN digits = 1..Len(digits) /\ Len(digits) \in Nat
      /\ longer[Len(digits) + 1] = 0
      /\ \A i \in DOMAIN digits : longer[i] = digits[i]
  BY AppendProperties
<1>. HIDE DEF longer
<1>3. place \in [DOMAIN keys -> DOMAIN longer]
  BY <1>2
<1>4. \A i \in DOMAIN keys : keys[i] = longer[place[i]]
  BY <1>1, <1>2
<1>5. \A k \in DOMAIN longer : longer[k] # 0 => \E i \in DOMAIN keys : place[i] = k
  BY <1>1, <1>2
<1>6. IsWithoutSomeZeros(keys, longer)
  BY <1>1, <1>3, <1>4, <1>5 DEF IsWithoutSomeZeros
<1>. QED  BY <1>6 DEF longer

(* A key that leads one digit further, or over a zero.                     *)
LEMMA OneKeyMore ==
    ASSUME NEW keys \in Seq(Digits), NEW number \in Nat, NEW key \in Digits, NEW width \in 0..9,
           IsWithoutSomeZeros(keys, Padded(number, width))
    PROVE  /\ width <= 8 =>
                  IsWithoutSomeZeros(Append(keys, key), Padded(10 * number + key, width + 1))
           /\ width <= 7 =>
                  IsWithoutSomeZeros(Append(keys, key), Padded(100 * number + key, width + 2))
<1>1. ASSUME NEW n \in Nat, NEW w \in 0..8, IsWithoutSomeZeros(keys, Padded(n, w))
      PROVE  IsWithoutSomeZeros(Append(keys, key), Padded(10 * n + key, w + 1))
  <2>1. Padded(10 * n + key, w + 1) = Append(Padded(n, w), key)
    BY PaddedNext
  <2>2. Padded(n, w) \in Seq(Digits)
    <3>1. w \in 0..9
      OBVIOUS
    <3>. QED  BY <3>1, PaddedType
  <2>3. IsWithoutSomeZeros(Append(keys, key), Append(Padded(n, w), key))
    BY <1>1, <2>2, OneDigitMore
  <2>. QED  BY <2>1, <2>3
<1>2. ASSUME width <= 7
      PROVE  IsWithoutSomeZeros(Append(keys, key), Padded(100 * number + key, width + 2))
  <2>1. PICK zero \in Digits : zero = 0
    BY DEF Digits
  <2>. DEFINE n == 10 * number + zero
  <2>2. width \in 0..8 /\ n \in Nat /\ n = 10 * number
    BY <1>2, <2>1
  <2>3. Padded(n, width + 1) = Append(Padded(number, width), zero)
    BY <2>2, PaddedNext
  <2>4. Padded(number, width) \in Seq(Digits)
    BY PaddedType
  <2>. HIDE DEF n
  <2>5. IsWithoutSomeZeros(keys, Padded(n, width + 1))
    BY <2>1, <2>3, <2>4, OneZeroMore
  <2>6. width + 1 \in 0..8 /\ 10 * n + key = 100 * number + key /\ (width + 1) + 1 = width + 2
    BY <1>2, <2>2 DEF Digits
  <2>7. IsWithoutSomeZeros(Append(keys, key), Padded(10 * n + key, (width + 1) + 1))
    BY <1>1, <2>2, <2>5, <2>6
  <2>. QED  BY <2>6, <2>7
<1>. QED  BY <1>1, <1>2
-----------------------------------------------------------------------------
(***************************************************************************)
(* The tree of submenus.                                                   *)
(***************************************************************************)

Submenu == [menu : Nat, prefix : Nat, remaining_digits : 1..9, key : Digits, index : Nat]
Call == [menu : Nat, prefix : Nat, remaining_digits : 1..9]

(* The digits that lead to a menu, as a number, and how many more a number *)
(* of a desktop has.                                                       *)
PrefixOf(tree, m) == IF m = Root THEN 0 ELSE tree[m].prefix
Remaining(tree, count, m) == IF m = Root THEN Width(count) ELSE tree[m].remaining_digits

(* A submenu begins with one digit more than the menu it is in, or with a  *)
(* zero and a digit.                                                       *)
Begins(tree, count, submenu) ==
    LET m == submenu.menu IN
    \/ /\ submenu.prefix = 10 * PrefixOf(tree, m) + submenu.key
       /\ submenu.remaining_digits = Remaining(tree, count, m) - 1
    \/ /\ submenu.prefix = 100 * PrefixOf(tree, m) + submenu.key
       /\ submenu.remaining_digits = Remaining(tree, count, m) - 2

(* An item with a digit for a key is for the number that ends with it.     *)
Ends(tree, count, item) ==
    LET number == item.index + 1
        prefix == PrefixOf(tree, item.menu)
    IN /\ item.index < count - 1
       /\ \/ number = 10 * prefix + item.key /\ Remaining(tree, count, item.menu) = 1
          \/ number = 100 * prefix + item.key /\ Remaining(tree, count, item.menu) = 2

IsItem(tree, count, item) ==
    /\ item.menu \in 0..Len(tree) /\ item.index \in Nat
    /\ item.key \in Digits => Ends(tree, count, item)

CountInv ==
    /\ desktop_count - 1 \in DesktopCounts /\ desktop_count \in Nat /\ desktop_count > 1
    /\ desktop_count < TenTo(9)
    /\ Width(desktop_count) \in 1..9

TreeInv ==
    /\ CountInv
    /\ submenus \in Seq(Submenu)
    /\ \A m \in DOMAIN submenus :
           submenus[m].menu \in 0..m - 1 /\ Begins(submenus, desktop_count, submenus[m])
    /\ call_queue \in Seq(Call)
    /\ \A k \in DOMAIN call_queue :
           LET call == call_queue[k] IN
           /\ call.menu \in 0..Len(submenus)
           /\ call.prefix = PrefixOf(submenus, call.menu)
           /\ call.remaining_digits = Remaining(submenus, desktop_count, call.menu)
    /\ \A item \in items : IsItem(submenus, desktop_count, item)

(* A menu never has more digits to come than the whole number.             *)
RemainingInv == \A m \in 0..Len(submenus) :
    Remaining(submenus, desktop_count, m) <= Width(desktop_count)

(* Each menu has its keys, those of the menu it is in and one more, and    *)
(* they are the digits it begins with.                                     *)
PathInv ==
    \E path \in [0..Len(submenus) -> Seq(Digits)] :
        /\ path[Root] = <<>>
        /\ \A m \in DOMAIN submenus : path[m] = Append(path[submenus[m].menu], submenus[m].key)
        /\ \A m \in 0..Len(submenus) :
               IsWithoutSomeZeros(path[m],
                                  Padded(PrefixOf(submenus, m),
                                         Width(desktop_count)
                                             - Remaining(submenus, desktop_count, m)))
        /\ typed = path[here]

DigitsInv == TreeInv /\ RemainingInv /\ PathInv /\ here \in 0..Len(submenus) /\ DigitsAreTheNumber
-----------------------------------------------------------------------------
LEMMA WidthType ==
    ASSUME NEW n \in Nat, n > 0, n < TenTo(9) PROVE Width(n) \in 1..9
<1>1. \E w \in 1..9 : TenTo(w - 1) <= n /\ n < TenTo(w)
  <2>1. CASE n < 1000  BY <2>1, Tens, SMTT(30)
  <2>2. CASE n >= 1000 /\ n < 1000000  BY <2>2, Tens, SMTT(30)
  <2>3. CASE n >= 1000000  BY <2>3, Tens, SMTT(30)
  <2>. QED  BY <2>1, <2>2, <2>3
<1>. QED  BY <1>1 DEF Width

(* What a digit of a submenu is made of is the digit.                      *)
LEMMA KeyOfDigit ==
    ASSUME NEW prefix \in Nat, NEW digit \in Digits, NEW k \in 1..8, NEW first,
           first = (prefix * 10 + digit) * TenTo(k)
               \/ first = Larger((prefix * 10 + digit) * TenTo(k), 1)
    PROVE  /\ (first % (TenTo(k) * 10)) \div TenTo(k) = digit
           /\ IndexSoFar(first, TenTo(k)) \in Nat
<1>1. k \in {1, 2, 3, 4, 5, 6, 7, 8}
  OBVIOUS
<1>2. first \in Nat
  BY <1>1, Tens, SMTT(30) DEF Larger, Digits
<1>3. (first % (TenTo(k) * 10)) \div TenTo(k) = digit
  BY <1>1, Tens, SMTT(30) DEF Larger, Digits
<1>4. IndexSoFar(first, TenTo(k)) \in Nat
  BY <1>1, <1>2, Tens, SMTT(30) DEF IndexSoFar, Larger
<1>. QED  BY <1>3, <1>4

(* At most ten submenus of a menu, each with one digit more.               *)
OneDigitOn(created, m, prefix, remaining_digits) ==
    /\ created \in Seq(Submenu) /\ Len(created) <= 10
    /\ \A i \in DOMAIN created :
           /\ created[i].menu = m
           /\ created[i].prefix = 10 * prefix + created[i].key
           /\ created[i].remaining_digits = remaining_digits - 1

(* Their digits are consecutive, up to the last that a number can have.    *)
LastDigit(prefix, unit) == ((EndOf(prefix, unit) - 1) \div unit) % 10

CountsOn(created, prefix, r, start) ==
    /\ Len(created) = Larger(LastDigit(prefix, TenTo(r - 1)) + 1 - start, 0)
    /\ \A i \in DOMAIN created : created[i].key = start + i - 1

LEMMA CreatedSubmenus ==
    ASSUME NEW m \in Nat, NEW prefix \in Nat, NEW r \in 2..9, NEW start \in Nat,
           start <= 10, desktop_count \in Nat
    PROVE  LET created == CreateSubmenus(m, prefix, r, start) IN
           OneDigitOn(created, m, prefix, r) /\ CountsOn(created, prefix, r, start)
<1>. DEFINE unit == TenTo(r - 1)
            first_number == Larger((prefix * 10 + start) * unit, 1)
            end_digit == LastDigit(prefix, unit)
            FirstOf(digit) == IF digit = start THEN first_number ELSE (prefix * 10 + digit) * unit
            n == Larger(end_digit + 1 - start, 0)
            New(k) == LET digit == start + k - 1 IN
                      [menu |-> m, prefix |-> prefix * 10 + digit, remaining_digits |-> r - 1,
                       key |-> (FirstOf(digit) % (unit * 10)) \div unit,
                       index |-> IndexSoFar(FirstOf(digit), unit)]
            created == CreateSubmenus(m, prefix, r, start)
<1>1. created = [k \in 1..n |-> New(k)]
  BY DEF CreateSubmenus, LastDigit
<1>2. r - 1 \in {1, 2, 3, 4, 5, 6, 7, 8}
  OBVIOUS
<1>3. end_digit \in 0..9
  BY <1>2, Tens, SMTT(30) DEF EndOf, Smaller, LastDigit
<1>4. /\ n \in 0..10 /\ \A k \in 1..n : start + k - 1 \in Digits
  <2>. HIDE DEF end_digit
  <2>. QED  BY <1>3 DEF Larger, Digits
<1>5. ASSUME NEW k \in 1..n
      PROVE  /\ New(k) \in Submenu
             /\ New(k).menu = m /\ New(k).prefix = 10 * prefix + New(k).key
             /\ New(k).remaining_digits = r - 1 /\ New(k).key = start + k - 1
  <2>. DEFINE digit == start + k - 1
              first == FirstOf(digit)
  <2>1. digit \in Digits
    BY <1>4
  <2>2. first = (prefix * 10 + digit) * unit \/ first = Larger((prefix * 10 + digit) * unit, 1)
    OBVIOUS
  <2>3. r - 1 \in 1..8
    OBVIOUS
  <2>4. New(k) = [menu |-> m, prefix |-> prefix * 10 + digit, remaining_digits |-> r - 1,
                  key |-> (first % (unit * 10)) \div unit, index |-> IndexSoFar(first, unit)]
    OBVIOUS
  <2>. HIDE DEF digit, first
  <2>5. (first % (unit * 10)) \div unit = digit /\ IndexSoFar(first, unit) \in Nat
    BY <2>1, <2>2, <2>3, KeyOfDigit
  <2>6. prefix * 10 + digit \in Nat /\ prefix * 10 + digit = 10 * prefix + digit /\ r - 1 \in 1..9
    BY <2>1 DEF Digits
  <2>7. digit = start + k - 1
    BY DEF digit
  <2>. HIDE DEF New, unit
  <2>. QED  BY <2>1, <2>4, <2>5, <2>6, <2>7 DEF Submenu
<1>. HIDE DEF New, n
<1>6. created \in [1..n -> Submenu]
  BY <1>1, <1>5
<1>7. \A k \in 1..n : created[k] = New(k)
  BY <1>1
<1>. HIDE DEF created
<1>8. created \in Seq(Submenu) /\ DOMAIN created = 1..n /\ Len(created) = n
  BY <1>4, <1>6
<1>9. \A i \in DOMAIN created :
         /\ created[i].menu = m
         /\ created[i].prefix = 10 * prefix + created[i].key
         /\ created[i].remaining_digits = r - 1
  BY <1>5, <1>7, <1>8
<1>10. Len(created) <= 10
  BY <1>4, <1>8
<1>11. \A i \in DOMAIN created : created[i].key = start + i - 1
  BY <1>5, <1>7, <1>8
<1>12. OneDigitOn(created, m, prefix, r)
  BY <1>8, <1>9, <1>10 DEF OneDigitOn
<1>13. CountsOn(created, prefix, r, start)
  BY <1>8, <1>11 DEF CountsOn, n
<1>. QED  BY <1>12, <1>13 DEF created

(* Among ten numbers from a multiple of ten on each has its own last digit. *)
LEMMA CreatedItems ==
    ASSUME CountInv, NEW m, NEW tens \in Nat, NEW start \in Nat, NEW end \in Nat,
           start >= 1, start >= 10 * tens, end <= 10 * tens + 10, end <= desktop_count,
           NEW item \in TryCreateLeafItems(m, start, end)
    PROVE  /\ item.menu = m /\ item.index \in Nat
           /\ item.index < desktop_count - 1 /\ item.index + 1 = 10 * tens + item.key
<1>1. PICK number \in start..end - 1 :
          item = [menu |-> m, key |-> number % 10, index |-> number - 1]
  BY DEF TryCreateLeafItems
<1>2. number % 10 = number - 10 * tens
  OBVIOUS
<1>. QED  BY <1>1, <1>2 DEF CountInv

LEMMA ShortcutKeys ==
    ASSUME NEW m \in 0..Len(submenus), NEW item \in CreateShortcutItems(m)
    PROVE  IsItem(submenus, desktop_count, item)
<1>1. PICK shortcut \in Shortcuts :
          item = [menu |-> m, key |-> shortcut.key, index |-> shortcut.index]
  BY DEF CreateShortcutItems
<1>2. shortcut.key \notin Digits /\ shortcut.index \in Nat
  BY QuickSwitchAssumption DEF Digits
<1>. QED  BY <1>1, <1>2 DEF IsItem

LEMMA LeafRange ==
    ASSUME NEW prefix \in Nat, NEW count \in Nat
    PROVE  LET start == Larger(prefix * 10, 1)
               end == Smaller((prefix + 1) * 10, count)
           IN  /\ start \in Nat /\ start >= 1 /\ start >= 10 * prefix
               /\ end \in Nat /\ end <= 10 * prefix + 10 /\ end <= count
BY DEF Larger, Smaller

LEMMA TrailingRange ==
    ASSUME NEW prefix \in Nat, NEW count \in Nat, NEW n \in Nat
    PROVE  LET start == Larger(prefix * 100 + n, 1)
               end == Smaller((prefix * 10 + 1) * 10, count)
           IN  /\ start \in Nat /\ start >= 1 /\ start >= 100 * prefix
               /\ end \in Nat /\ end <= 100 * prefix + 10 /\ end <= count
BY DEF Larger, Smaller

(* The items for the last digit, and those that leave out the zero before it. *)
LEMMA LeafItems ==
    ASSUME CountInv, NEW m \in 0..Len(submenus), NEW prefix \in Nat, prefix = PrefixOf(submenus, m),
           Remaining(submenus, desktop_count, m) = 1
    PROVE  \A item \in TryCreateLeafItems(m, Larger(prefix * 10, 1),
                                           Smaller((prefix + 1) * 10, desktop_count)) :
                                               IsItem(submenus, desktop_count, item)
<1>. DEFINE start == Larger(prefix * 10, 1)
            end == Smaller((prefix + 1) * 10, desktop_count)
<1>1. desktop_count \in Nat
  BY DEF CountInv
<1>2. /\ start \in Nat /\ start >= 1 /\ start >= 10 * prefix
      /\ end \in Nat /\ end <= 10 * prefix + 10 /\ end <= desktop_count
  BY <1>1, LeafRange
<1>. HIDE DEF start, end
<1>3. ASSUME NEW item \in TryCreateLeafItems(m, start, end)
      PROVE  /\ item.menu = m /\ item.index \in Nat
             /\ item.index < desktop_count - 1 /\ item.index + 1 = 10 * prefix + item.key
  BY <1>2, CreatedItems
<1>4. \A item \in TryCreateLeafItems(m, start, end) : IsItem(submenus, desktop_count, item)
  BY <1>3 DEF IsItem, Ends
<1>. QED  BY <1>4 DEF start, end

LEMMA TrailingItems ==
    ASSUME CountInv, NEW m \in 0..Len(submenus), NEW prefix \in Nat, prefix = PrefixOf(submenus, m),
           Remaining(submenus, desktop_count, m) = 2, NEW n \in Nat
    PROVE  \A item \in TryCreateLeafItems(m, Larger(prefix * 100 + n, 1),
                                           Smaller((prefix * 10 + 1) * 10, desktop_count)) :
                                               IsItem(submenus, desktop_count, item)
<1>. DEFINE start == Larger(prefix * 100 + n, 1)
            end == Smaller((prefix * 10 + 1) * 10, desktop_count)
            tens == 10 * prefix
<1>1. desktop_count \in Nat
  BY DEF CountInv
<1>2. /\ start \in Nat /\ start >= 1 /\ start >= 100 * prefix
      /\ end \in Nat /\ end <= 100 * prefix + 10 /\ end <= desktop_count
  BY <1>1, TrailingRange
<1>. HIDE DEF start, end
<1>3. /\ tens \in Nat /\ 10 * tens = 100 * prefix
      /\ start >= 10 * tens /\ end <= 10 * tens + 10
  BY <1>2
<1>. HIDE DEF tens
<1>4. ASSUME NEW item \in TryCreateLeafItems(m, start, end)
      PROVE  /\ item.menu = m /\ item.index \in Nat
             /\ item.index < desktop_count - 1 /\ item.index + 1 = 10 * tens + item.key
  BY <1>2, <1>3, CreatedItems
<1>5. \A item \in TryCreateLeafItems(m, start, end) : item.index + 1 = 100 * prefix + item.key
  BY <1>3, <1>4
<1>6. \A item \in TryCreateLeafItems(m, start, end) : IsItem(submenus, desktop_count, item)
  BY <1>4, <1>5 DEF IsItem, Ends
<1>. QED  BY <1>6 DEF start, end
-----------------------------------------------------------------------------
LEMMA FrontFacts ==
    ASSUME NEW S, NEW s \in Seq(S), s # <<>>
    PROVE  /\ Front(s) \in Seq(S) /\ Len(Front(s)) = Len(s) - 1
           /\ \A i \in DOMAIN Front(s) : i \in DOMAIN s /\ Front(s)[i] = s[i]
<1>. DEFINE f == [i \in 1..(Len(s) - 1) |-> s[i]]
<1>1. Len(s) \in Nat \ {0} /\ DOMAIN s = 1..Len(s)
  BY EmptySeq
<1>2. f \in Seq(S) /\ DOMAIN f = 1..(Len(s) - 1) /\ Len(f) = Len(s) - 1
  BY <1>1
<1>3. Front(s) = f
  BY <1>1 DEF Front
<1>. QED  BY <1>1, <1>2, <1>3

LEMMA FrontOfAppend ==
    ASSUME NEW S, NEW s \in Seq(S), NEW e \in S
    PROVE  Front(Append(s, e)) = s
<1>. DEFINE t == Append(s, e)
<1>1. /\ t \in Seq(S) /\ Len(t) = Len(s) + 1 /\ t # <<>>
      /\ \A i \in 1..Len(s) : t[i] = s[i]
  BY AppendProperties
<1>. HIDE DEF t
<1>. DEFINE f == Front(t)
<1>2. f \in Seq(S) /\ Len(f) = Len(t) - 1 /\ \A i \in DOMAIN f : i \in DOMAIN t /\ f[i] = t[i]
  BY <1>1, FrontFacts
<1>. HIDE DEF f
<1>3. f = s
  BY <1>1, <1>2
<1>. QED  BY <1>3 DEF f, t

(* What is right of the submenus that are there stays right.               *)
LEMMA OldMenus ==
    ASSUME TreeInv, NEW created \in Seq(Submenu), submenus' = submenus \o created,
           desktop_count' = desktop_count
    PROVE  /\ submenus' \in Seq(Submenu) /\ Len(submenus') = Len(submenus) + Len(created)
           /\ \A m \in DOMAIN submenus : m \in DOMAIN submenus' /\ submenus'[m] = submenus[m]
           /\ \A k \in DOMAIN created : submenus'[Len(submenus) + k] = created[k]
           /\ \A m \in DOMAIN submenus' :
                  m \in DOMAIN submenus \/ \E k \in DOMAIN created : m = Len(submenus) + k
           /\ \A m \in 0..Len(submenus) :
                  m \in 0..Len(submenus') /\ PrefixOf(submenus', m) = PrefixOf(submenus, m)
                  /\ Remaining(submenus', desktop_count, m) = Remaining(submenus, desktop_count, m)
           /\ \A item :
                  IsItem(submenus, desktop_count, item) => IsItem(submenus', desktop_count, item)
           /\ \A submenu :
                  submenu.menu \in 0..Len(submenus) =>
                      (Begins(submenus', desktop_count, submenu) <=>
                          Begins(submenus, desktop_count, submenu))
<1>. DEFINE longer == submenus \o created
<1>1. submenus \in Seq(Submenu)
  BY DEF TreeInv
<1>2. /\ longer \in Seq(Submenu) /\ Len(longer) = Len(submenus) + Len(created)
      /\ \A m \in 1..Len(longer) :
             longer[m] = IF m <= Len(submenus) THEN submenus[m] ELSE created[m - Len(submenus)]
  BY <1>1, ConcatProperties
<1>3. submenus' = longer
  OBVIOUS
<1>. HIDE DEF longer
<1>4. /\ \A m \in DOMAIN submenus : m \in DOMAIN submenus' /\ submenus'[m] = submenus[m]
      /\ \A k \in DOMAIN created : submenus'[Len(submenus) + k] = created[k]
      /\ \A m \in DOMAIN submenus' :
             m \in DOMAIN submenus \/ \E k \in DOMAIN created : m = Len(submenus) + k
  <2>1. /\ Len(submenus) \in Nat /\ Len(created) \in Nat
        /\ DOMAIN submenus = 1..Len(submenus) /\ DOMAIN created = 1..Len(created)
        /\ DOMAIN submenus' = 1..Len(submenus) + Len(created)
    BY <1>1, <1>2, <1>3
  <2>2. ASSUME NEW m \in DOMAIN submenus', m \notin DOMAIN submenus
        PROVE  \E k \in DOMAIN created : m = Len(submenus) + k
    <3>1. m - Len(submenus) \in DOMAIN created /\ m = Len(submenus) + (m - Len(submenus))
      BY <2>1, <2>2
    <3>. QED  BY <3>1
  <2>3. ASSUME NEW k \in DOMAIN created PROVE submenus'[Len(submenus) + k] = created[k]
    <3>1. /\ Len(submenus) + k \in 1..Len(longer) /\ ~(Len(submenus) + k <= Len(submenus))
          /\ (Len(submenus) + k) - Len(submenus) = k
      BY <1>2, <2>1
    <3>. QED  BY <1>2, <1>3, <3>1
  <2>4. \A m \in DOMAIN submenus : m \in DOMAIN submenus' /\ submenus'[m] = submenus[m]
    BY <1>2, <1>3, <2>1
  <2>. QED  BY <2>2, <2>3, <2>4
<1>5. ASSUME NEW m \in 0..Len(submenus)
      PROVE  m \in 0..Len(submenus') /\ PrefixOf(submenus', m) = PrefixOf(submenus, m)
             /\ Remaining(submenus', desktop_count, m) = Remaining(submenus, desktop_count, m)
  <2>1. m = 0 \/ m \in DOMAIN submenus
    BY <1>1
  <2>2. m \in 0..Len(submenus')
    BY <1>1, <1>2, <1>3
  <2>3. m # 0 => submenus'[m] = submenus[m]
    BY <1>4, <2>1
  <2>. QED  BY <2>2, <2>3 DEF PrefixOf, Remaining, Root
<1>6. ASSUME NEW item, IsItem(submenus, desktop_count, item)
      PROVE  IsItem(submenus', desktop_count, item)
  BY <1>5, <1>6 DEF IsItem, Ends
<1>7. ASSUME NEW submenu, submenu.menu \in 0..Len(submenus)
      PROVE  Begins(submenus', desktop_count, submenu) <=> Begins(submenus, desktop_count, submenu)
  BY <1>5, <1>7 DEF Begins
<1>. QED  BY <1>2, <1>3, <1>4, <1>5, <1>6, <1>7

LEMMA PathTypes ==
    ASSUME TreeInv, NEW m \in 0..Len(submenus)
    PROVE  PrefixOf(submenus, m) \in Nat /\ Remaining(submenus, desktop_count, m) \in 1..9
<1>1. m = 0 \/ m \in DOMAIN submenus
  BY DEF TreeInv
<1>2. CASE m = 0
  BY <1>2 DEF PrefixOf, Remaining, Root, TreeInv, CountInv
<1>3. CASE m \in DOMAIN submenus /\ m # 0
  <2>1. submenus[m] \in Submenu
    BY <1>3 DEF TreeInv
  <2>. QED  BY <1>3, <2>1 DEF PrefixOf, Remaining, Root, Submenu
<1>. QED  BY <1>1, <1>2, <1>3

LEMMA DigitsLeft ==
    ASSUME NEW all \in 1..9, NEW rest \in 1..9
    PROVE  /\ all - (rest - 1) = (all - rest) + 1
           /\ rest - 2 >= 1 => all - (rest - 2) = (all - rest) + 2 /\ all - rest <= 7
OBVIOUS

(* A menu that was called is filled with submenus that begin as they       *)
(* should and with items that are right.                                   *)
LEMMA FillKeeps ==
    ASSUME DigitsInv, call_queue # <<>>, NEW created \in Seq(Submenu), NEW leafs,
           \A k \in DOMAIN created :
               created[k].menu = Called.menu /\ Begins(submenus, desktop_count, created[k]),
           \A leaf \in leafs : IsItem(submenus, desktop_count, leaf),
           Fill(created, leafs)
    PROVE  DigitsInv'
<1>. DEFINE n == Len(submenus)
<1>1. /\ submenus' = submenus \o created /\ items' = items \cup leafs
      /\ call_queue' = Front(call_queue) \o QueueOf(created)
      /\ desktop_count' = desktop_count /\ here' = here /\ typed' = typed /\ chosen' = chosen
  BY DEF Fill
<1>2. /\ TreeInv /\ RemainingInv /\ PathInv /\ here \in 0..n /\ DigitsAreTheNumber
      /\ submenus \in Seq(Submenu) /\ n \in Nat /\ DOMAIN submenus = 1..n
  BY DEF DigitsInv, TreeInv
<1>3. /\ \A m \in DOMAIN submenus : m \in DOMAIN submenus' /\ submenus'[m] = submenus[m]
      /\ \A k \in DOMAIN created : submenus'[n + k] = created[k]
      /\ \A m \in DOMAIN submenus' : m \in DOMAIN submenus \/ \E k \in DOMAIN created : m = n + k
  BY <1>1, <1>2, OldMenus
<1>same. \A m \in 0..n :
             /\ m \in 0..Len(submenus') /\ PrefixOf(submenus', m) = PrefixOf(submenus, m)
             /\ Remaining(submenus', desktop_count, m) = Remaining(submenus, desktop_count, m)
  BY <1>1, <1>2, OldMenus
<1>right. /\ \A item :
                 IsItem(submenus, desktop_count, item) => IsItem(submenus', desktop_count, item)
          /\ \A submenu : submenu.menu \in 0..n =>
                 (Begins(submenus', desktop_count, submenu) <=>
                     Begins(submenus, desktop_count, submenu))
  BY <1>1, <1>2, OldMenus
<1>sizes. /\ submenus' \in Seq(Submenu) /\ Len(submenus') = n + Len(created)
          /\ DOMAIN submenus' = 1..(n + Len(created))
          /\ Len(created) \in Nat /\ DOMAIN created = 1..Len(created)
  <2>1. submenus' \in Seq(Submenu) /\ Len(submenus') = n + Len(created)
    BY <1>1, <1>2, OldMenus
  <2>. QED  BY <2>1
<1>4. Called \in Call /\ Called.menu \in 0..n /\ Len(call_queue) \in DOMAIN call_queue
  <2>1. Len(call_queue) \in DOMAIN call_queue /\ call_queue \in Seq(Call)
    BY EmptySeq DEF DigitsInv, TreeInv
  <2>2. /\ call_queue[Len(call_queue)] \in Call
        /\ call_queue[Len(call_queue)].menu \in 0..n
    BY <2>1 DEF DigitsInv, TreeInv
  <2>. QED  BY <2>1, <2>2 DEF Called
<1>5. \A m \in DOMAIN submenus' :
          submenus'[m].menu \in 0..n /\ submenus'[m].menu \in 0..m - 1
          /\ Begins(submenus, desktop_count, submenus'[m])
  <2> SUFFICES ASSUME NEW m \in DOMAIN submenus'
               PROVE  submenus'[m].menu \in 0..n /\ submenus'[m].menu \in 0..m - 1
                      /\ Begins(submenus, desktop_count, submenus'[m])
    OBVIOUS
  <2>1. CASE m \in DOMAIN submenus
    <3>1. submenus[m].menu \in 0..m - 1 /\ Begins(submenus, desktop_count, submenus[m])
      BY <2>1 DEF DigitsInv, TreeInv
    <3>. QED  BY <1>2, <1>3, <1>same, <1>right, <1>sizes, <2>1, <3>1
  <2>2. CASE \E k \in DOMAIN created : m = n + k
    <3>1. PICK k \in DOMAIN created : m = n + k
      BY <2>2
    <3>. QED  BY <1>2, <1>3, <1>same, <1>right, <1>sizes, <1>4, <3>1
  <2>. QED  BY <1>3, <1>same, <1>right, <1>sizes, <2>1, <2>2
<1>6. \A m \in DOMAIN submenus' : Begins(submenus', desktop_count, submenus'[m])
  BY <1>3, <1>same, <1>right, <1>sizes, <1>5
<1>7. ASSUME NEW k \in DOMAIN created
      PROVE  /\ n + k \in DOMAIN submenus' /\ n + k # Root
             /\ PrefixOf(submenus', n + k) = created[k].prefix
             /\ Remaining(submenus', desktop_count, n + k) = created[k].remaining_digits
             /\ created[k] \in Submenu
  <2>1. n + k \in DOMAIN submenus' /\ n + k # Root /\ submenus'[n + k] = created[k]
    BY <1>2, <1>3, <1>same, <1>right, <1>sizes DEF Root
  <2>2. created[k] \in Submenu
    BY <1>3, <1>same, <1>right, <1>sizes
  <2>. QED  BY <2>1, <2>2 DEF PrefixOf, Remaining
<1>8. /\ call_queue' \in Seq(Call)
      /\ \A k \in DOMAIN call_queue' :
             LET call == call_queue'[k] IN
             /\ call.menu \in 0..Len(submenus')
             /\ call.prefix = PrefixOf(submenus', call.menu)
             /\ call.remaining_digits = Remaining(submenus', desktop_count, call.menu)
  <2>. DEFINE Right(call) == /\ call.menu \in 0..Len(submenus')
                             /\ call.prefix = PrefixOf(submenus', call.menu)
                             /\ call.remaining_digits =
                                    Remaining(submenus', desktop_count, call.menu)
              front == Front(call_queue)
              queue == QueueOf(created)
              both == front \o queue
  <2>1. /\ front \in Seq(Call)
        /\ \A i \in DOMAIN front : i \in DOMAIN call_queue /\ front[i] = call_queue[i]
    BY FrontFacts DEF DigitsInv, TreeInv
  <2>2. \A i \in DOMAIN call_queue :
           /\ call_queue[i].menu \in 0..n
           /\ call_queue[i].prefix = PrefixOf(submenus, call_queue[i].menu)
           /\ call_queue[i].remaining_digits =
                  Remaining(submenus, desktop_count, call_queue[i].menu)
    BY DEF DigitsInv, TreeInv
  <2>3. \A i \in DOMAIN front : Right(front[i])
    BY <1>3, <1>same, <1>right, <1>sizes, <2>1, <2>2
  <2>4. ASSUME NEW k \in DOMAIN created
        PROVE  [menu |-> n + k, prefix |-> created[k].prefix,
                remaining_digits |-> created[k].remaining_digits] \in Call
    BY <1>2, <1>3, <1>same, <1>right, <1>sizes, <1>7 DEF Submenu, Call
  <2>5. queue \in [1..Len(created) -> Call]
    BY <1>3, <1>same, <1>right, <1>sizes, <2>4 DEF QueueOf
  <2>6. \A k \in DOMAIN created :
           queue[k] = [menu |-> n + k, prefix |-> created[k].prefix,
                       remaining_digits |-> created[k].remaining_digits]
    BY DEF QueueOf
  <2>7. \A k \in DOMAIN created : Right(queue[k])
    <3> SUFFICES ASSUME NEW k \in DOMAIN created PROVE Right(queue[k])
      OBVIOUS
    <3>1. /\ queue[k].menu = n + k /\ queue[k].prefix = created[k].prefix
          /\ queue[k].remaining_digits = created[k].remaining_digits
      <4>1. queue[k] = [menu |-> n + k, prefix |-> created[k].prefix,
                        remaining_digits |-> created[k].remaining_digits]
        BY <2>6
      <4>. HIDE DEF queue
      <4>. QED  BY <4>1
    <3>2. n + k \in 0..Len(submenus')
      BY <1>2, <1>sizes
    <3>. QED  BY <1>7, <3>1, <3>2
  <2>. HIDE DEF queue, front, Right
  <2>8. queue \in Seq(Call) /\ DOMAIN queue = DOMAIN created
    BY <1>3, <1>same, <1>right, <1>sizes, <2>5
  <2>9. /\ both \in Seq(Call)
        /\ \A k \in DOMAIN both : \/ k \in DOMAIN front /\ both[k] = front[k]
                                  \/ \E i \in DOMAIN queue : both[k] = queue[i]
    <3>1. /\ both \in Seq(Call) /\ Len(both) = Len(front) + Len(queue)
          /\ \A i \in 1..Len(both) :
                 both[i] = IF i <= Len(front) THEN front[i] ELSE queue[i - Len(front)]
      BY <2>1, <2>8, ConcatProperties
    <3>. HIDE DEF both
    <3>2. ASSUME NEW k \in DOMAIN both, k \notin DOMAIN front
          PROVE  \E i \in DOMAIN queue : both[k] = queue[i]
      <4>1. k - Len(front) \in DOMAIN queue /\ both[k] = queue[k - Len(front)]
        BY <2>1, <2>8, <3>1, <3>2
      <4>. QED  BY <4>1
    <3>3. \A k \in DOMAIN front : k \in DOMAIN both => both[k] = front[k]
      BY <2>1, <2>8, <3>1
    <3>. QED  BY <3>1, <3>2, <3>3
  <2>10. call_queue' = both
    BY <1>1 DEF front, queue
  <2>. HIDE DEF both
  <2>11. \A k \in DOMAIN both : Right(both[k])
    BY <2>3, <2>7, <2>8, <2>9
  <2>. QED  BY <2>9, <2>10, <2>11 DEF Right
<1>9. CountInv'
  BY <1>1, <1>2 DEF TreeInv, CountInv
<1>10. \A item \in items' : IsItem(submenus', desktop_count, item)
  BY <1>1, <1>2, <1>3, <1>same, <1>right, <1>sizes DEF TreeInv
<1>11. TreeInv'
  BY <1>1, <1>sizes, <1>5, <1>6, <1>8, <1>9, <1>10 DEF TreeInv
<1>12. RemainingInv'
  <2> SUFFICES ASSUME NEW m \in 0..Len(submenus')
               PROVE  Remaining(submenus', desktop_count, m) <= Width(desktop_count)
    BY <1>1 DEF RemainingInv
  <2>1. CASE m \in 0..n
    BY <1>2, <1>same, <2>1 DEF RemainingInv
  <2>2. CASE m \notin 0..n
    <3>1. PICK k \in DOMAIN created : m = n + k
      BY <1>2, <1>3, <1>same, <1>right, <1>sizes, <2>2
    <3>2. Remaining(submenus', desktop_count, m) = created[k].remaining_digits
      BY <1>7, <3>1
    <3>3. created[k].menu \in 0..n /\ Begins(submenus, desktop_count, created[k])
          /\ created[k] \in Submenu
      BY <1>4, <1>7
    <3>4. created[k].remaining_digits <= Remaining(submenus, desktop_count, created[k].menu)
      <4>1. Remaining(submenus, desktop_count, created[k].menu) \in 1..9
        BY <1>2, <3>3, PathTypes
      <4>. QED  BY <3>3, <4>1 DEF Begins
    <3>5. Remaining(submenus, desktop_count, created[k].menu) <= Width(desktop_count)
          /\ Remaining(submenus, desktop_count, created[k].menu) \in 1..9
      BY <1>2, <3>3, PathTypes DEF RemainingInv
    <3>6. Width(desktop_count) \in 1..9 /\ created[k].remaining_digits \in 1..9
      BY <1>2, <3>3 DEF TreeInv, CountInv, Submenu
    <3>. QED  BY <3>2, <3>4, <3>5, <3>6
  <2>. QED  BY <2>1, <2>2
<1>13. PathInv'
  <2>. DEFINE W == Width(desktop_count)
  <2>1. PICK path \in [0..n -> Seq(Digits)] :
          /\ path[Root] = <<>>
          /\ \A m \in DOMAIN submenus : path[m] = Append(path[submenus[m].menu], submenus[m].key)
          /\ \A m \in 0..n :
                 IsWithoutSomeZeros(path[m],
                                    Padded(PrefixOf(submenus, m),
                                           W - Remaining(submenus, desktop_count, m)))
          /\ typed = path[here]
    BY <1>2 DEF PathInv
  <2>. DEFINE longer == [m \in 0..Len(submenus') |->
                            IF m <= n THEN path[m]
                            ELSE Append(path[Called.menu], submenus'[m].key)]
  <2>2. \A m \in 0..n : m \in 0..Len(submenus') /\ longer[m] = path[m] /\ path[m] \in Seq(Digits)
    BY <1>2, <1>same, <2>1
  <2>3. ASSUME NEW k \in DOMAIN created
        PROVE  /\ longer[n + k] = Append(path[Called.menu], created[k].key)
               /\ created[k].key \in Digits
    <3>1. /\ n + k \in 0..Len(submenus') /\ ~(n + k <= n) /\ submenus'[n + k] = created[k]
      BY <1>2, <1>3, <1>same, <1>right, <1>sizes
    <3>2. created[k].key \in Digits
      BY <1>7 DEF Submenu
    <3>. QED  BY <3>1, <3>2
  <2>4. \A m \in 0..Len(submenus') : m \in 0..n \/ \E k \in DOMAIN created : m = n + k
    <3>1. ASSUME NEW m \in 0..Len(submenus'), m \notin 0..n
          PROVE  m - n \in DOMAIN created /\ m = n + (m - n)
      BY <1>2, <1>sizes, <3>1
    <3>. QED  BY <3>1
  <2>5. longer \in [0..Len(submenus') -> Seq(Digits)]
    <3>1. \A m \in 0..Len(submenus') : longer[m] \in Seq(Digits)
      <4>1. path[Called.menu] \in Seq(Digits)
        BY <1>4, <2>2
      <4>2. \A d \in Digits : Append(path[Called.menu], d) \in Seq(Digits)
        BY <4>1, AppendProperties
      <4>. HIDE DEF longer
      <4>. QED  BY <2>2, <2>3, <2>4, <4>2
    <3>. QED  BY <3>1
  <2>. HIDE DEF longer
  <2>6. longer[Root] = <<>>
    BY <1>2, <2>1, <2>2 DEF Root
  <2>7. \A m \in DOMAIN submenus' : longer[m] = Append(longer[submenus'[m].menu], submenus'[m].key)
    <3> SUFFICES ASSUME NEW m \in DOMAIN submenus'
                 PROVE  longer[m] = Append(longer[submenus'[m].menu], submenus'[m].key)
      OBVIOUS
    <3>1. longer[submenus'[m].menu] = path[submenus'[m].menu]
      BY <1>5, <2>2
    <3>2. CASE m \in DOMAIN submenus
      <4>1. longer[m] = path[m] /\ submenus'[m] = submenus[m]
        BY <1>2, <1>3, <1>same, <1>right, <1>sizes, <2>2, <3>2
      <4>. QED  BY <2>1, <3>1, <3>2, <4>1
    <3>3. CASE \E k \in DOMAIN created : m = n + k
      <4>1. PICK k \in DOMAIN created : m = n + k
        BY <3>3
      <4>2. submenus'[m] = created[k] /\ created[k].menu = Called.menu
        BY <1>3, <1>same, <1>right, <1>sizes, <4>1
      <4>. QED  BY <2>3, <3>1, <4>1, <4>2
    <3>. QED  BY <1>3, <1>same, <1>right, <1>sizes, <3>2, <3>3
  <2>8. \A m \in 0..Len(submenus') :
            IsWithoutSomeZeros(longer[m],
                               Padded(PrefixOf(submenus', m),
                                      W - Remaining(submenus', desktop_count, m)))
    <3> SUFFICES ASSUME NEW m \in 0..Len(submenus')
                 PROVE  IsWithoutSomeZeros(longer[m],
                                           Padded(PrefixOf(submenus', m),
                                                  W - Remaining(submenus', desktop_count, m)))
      OBVIOUS
    <3>1. CASE m \in 0..n
      BY <1>3, <1>same, <1>right, <1>sizes, <2>1, <2>2, <3>1
    <3>2. CASE \E k \in DOMAIN created : m = n + k
      <4>1. PICK k \in DOMAIN created : m = n + k
        BY <3>2
      <4>. DEFINE parent == Called.menu
                  prefix == PrefixOf(submenus, parent)
                  width == W - Remaining(submenus, desktop_count, parent)
                  key == created[k].key
                  keys == path[parent]
      <4>2. /\ PrefixOf(submenus', m) = created[k].prefix
            /\ Remaining(submenus', desktop_count, m) = created[k].remaining_digits
            /\ created[k].remaining_digits \in 1..9
        BY <1>7, <4>1 DEF Submenu
      <4>3. prefix \in Nat /\ Remaining(submenus, desktop_count, parent) \in 1..9
            /\ Remaining(submenus, desktop_count, parent) <= W /\ W \in 1..9
        BY <1>2, <1>4, PathTypes DEF RemainingInv, TreeInv, CountInv
      <4>4. keys \in Seq(Digits) /\ key \in Digits /\ longer[m] = Append(keys, key)
            /\ IsWithoutSomeZeros(keys, Padded(prefix, width))
        BY <1>4, <2>1, <2>2, <2>3, <4>1
      <4>5. width \in 0..8 /\ width \in 0..9
        BY <4>3
      <4>6. \/ /\ created[k].prefix = 10 * prefix + key
               /\ created[k].remaining_digits = Remaining(submenus, desktop_count, parent) - 1
            \/ /\ created[k].prefix = 100 * prefix + key
               /\ created[k].remaining_digits = Remaining(submenus, desktop_count, parent) - 2
        BY DEF Begins
      <4>. HIDE DEF keys, key, prefix
      <4>7. CASE /\ created[k].prefix = 10 * prefix + key
                 /\ created[k].remaining_digits = Remaining(submenus, desktop_count, parent) - 1
        <5>0. Remaining(submenus', desktop_count, m) =
                  Remaining(submenus, desktop_count, parent) - 1
          BY <4>2, <4>7
        <5>1. W - Remaining(submenus', desktop_count, m) = width + 1
          BY <4>3, <5>0, DigitsLeft
        <5>. HIDE DEF width, W
        <5>2. IsWithoutSomeZeros(Append(keys, key), Padded(10 * prefix + key, width + 1))
          BY <4>3, <4>4, <4>5, OneKeyMore
        <5>. QED  BY <4>2, <4>4, <4>7, <5>1, <5>2
      <4>8. CASE /\ created[k].prefix = 100 * prefix + key
                 /\ created[k].remaining_digits = Remaining(submenus, desktop_count, parent) - 2
        <5>0. /\ Remaining(submenus', desktop_count, m) =
                     Remaining(submenus, desktop_count, parent) - 2
              /\ Remaining(submenus, desktop_count, parent) - 2 >= 1
          BY <4>2, <4>8
        <5>1. W - Remaining(submenus', desktop_count, m) = width + 2 /\ width <= 7
          BY <4>3, <5>0, DigitsLeft
        <5>. HIDE DEF width, W
        <5>2. IsWithoutSomeZeros(Append(keys, key), Padded(100 * prefix + key, width + 2))
          BY <4>3, <4>4, <4>5, <5>1, OneKeyMore
        <5>. QED  BY <4>2, <4>4, <4>8, <5>1, <5>2
      <4>. QED  BY <4>6, <4>7, <4>8
    <3>. QED  BY <2>4, <3>1, <3>2
  <2>9. typed' = longer[here']
    BY <1>1, <1>2, <2>1, <2>2
  <2>10. Width(desktop_count') = W
    BY <1>1
  <2>. QED  BY <1>1, <2>5, <2>6, <2>7, <2>8, <2>9, <2>10 DEF PathInv
<1>14. here' \in 0..Len(submenus')
  BY <1>1, <1>2, <1>3, <1>same, <1>right, <1>sizes
<1>15. DigitsAreTheNumber'
  BY <1>1, <1>2 DEF DigitsAreTheNumber
<1>. QED  BY <1>11, <1>12, <1>13, <1>14, <1>15 DEF DigitsInv
-----------------------------------------------------------------------------
LEMMA DigitsInit == ASSUME InitMenu PROVE DigitsInv
<1>1. PICK desktops \in DesktopCounts : desktop_count = desktops + 1
  BY DEF InitMenu
<1>2. CountInv
  <2>1. /\ desktops \in Nat \ {0} /\ desktops + 1 < TenTo(9) /\ desktop_count - 1 = desktops
        /\ desktop_count \in Nat /\ desktop_count > 1
    BY <1>1, QuickSwitchAssumption
  <2>2. Width(desktop_count) \in 1..9
    BY <1>1, <2>1, WidthType
  <2>. QED  BY <1>1, <2>1, <2>2 DEF CountInv
<1>. DEFINE W == Width(desktop_count)
            root == [menu |-> Root, prefix |-> 0, remaining_digits |-> W]
<1>3. /\ items = {} /\ submenus = <<>> /\ call_queue = <<root>> /\ here = 0 /\ typed = <<>>
      /\ chosen = NoChoice /\ Len(submenus) = 0 /\ DOMAIN submenus = {} /\ W \in 1..9
  BY <1>2 DEF InitMenu, Root, CountInv
<1>4. \A m \in 0..0 :
          m = Root /\ PrefixOf(submenus, m) = 0 /\ Remaining(submenus, desktop_count, m) = W
  BY DEF PrefixOf, Remaining, Root
<1>. HIDE DEF W
<1>5. TreeInv
  <2>1. root \in Call /\ root.menu = Root /\ root.prefix = 0 /\ root.remaining_digits = W
    BY <1>3 DEF Call, Root
  <2>. HIDE DEF root
  <2>2. /\ call_queue \in Seq(Call)
        /\ \A k \in DOMAIN call_queue : call_queue[k] = root
    BY <1>3, <2>1
  <2>3. root.menu \in 0..0
    BY <2>1 DEF Root
  <2>4. submenus \in Seq(Submenu)
    BY <1>3
  <2>. QED  BY <1>2, <1>3, <1>4, <2>1, <2>2, <2>3, <2>4 DEF TreeInv
<1>6. RemainingInv
  BY <1>3, <1>4 DEF RemainingInv, W
<1>7. PathInv
  <2>. DEFINE path == [m \in 0..Len(submenus) |-> <<>>]
  <2>1. path \in [0..Len(submenus) -> Seq(Digits)] /\ path[Root] = <<>> /\ path[here] = <<>>
    BY <1>3 DEF Root
  <2>2. Padded(0, 0) = <<>>
    BY PaddedType, EmptySeq
  <2>3. \A m \in 0..Len(submenus) :
           IsWithoutSomeZeros(path[m],
                              Padded(PrefixOf(submenus, m),
                                     W - Remaining(submenus, desktop_count, m)))
    BY <1>3, <1>4, <2>2, NoZeros
  <2>. HIDE DEF path
  <2>. QED  BY <1>3, <2>1, <2>3 DEF PathInv, W
<1>8. DigitsAreTheNumber
  BY <1>3 DEF DigitsAreTheNumber, IsTyped, NoChoice
<1>. QED  BY <1>3, <1>5, <1>6, <1>7, <1>8 DEF DigitsInv

(* What is known of the menu to fill next.                                 *)
LEMMA CalledFacts ==
    ASSUME DigitsInv, call_queue # <<>>
    PROVE  /\ Called.menu \in 0..Len(submenus) /\ Called.menu \in Nat
           /\ Called.prefix \in Nat /\ Called.prefix = PrefixOf(submenus, Called.menu)
           /\ Called.remaining_digits \in 1..9
           /\ Called.remaining_digits = Remaining(submenus, desktop_count, Called.menu)
           /\ desktop_count \in Nat /\ CountInv
<1>1. Len(call_queue) \in DOMAIN call_queue /\ call_queue \in Seq(Call)
  BY EmptySeq DEF DigitsInv, TreeInv
<1>2. call_queue[Len(call_queue)] \in Call
  BY <1>1
<1>3. /\ Called.menu \in 0..Len(submenus) /\ Called.prefix = PrefixOf(submenus, Called.menu)
      /\ Called.remaining_digits = Remaining(submenus, desktop_count, Called.menu)
      /\ desktop_count \in Nat /\ CountInv
  BY <1>1 DEF DigitsInv, TreeInv, Called, CountInv
<1>. QED  BY <1>2, <1>3 DEF Called, Call

LEMMA BeginsOneDigitOn ==
    ASSUME NEW created, NEW m,
           OneDigitOn(created, m, PrefixOf(submenus, m), Remaining(submenus, desktop_count, m))
    PROVE  \A k \in DOMAIN created : Begins(submenus, desktop_count, created[k])
BY DEF OneDigitOn, Begins

LEMMA FirstSubmenus ==
    ASSUME DigitsInv, call_queue # <<>>, Called.remaining_digits > 1
    PROVE  /\ Submenus \in Seq(Submenu) /\ Len(Submenus) \in Nat /\ Len(Submenus) <= 10
           /\ \A k \in DOMAIN Submenus : /\ Submenus[k].menu = Called.menu
                                         /\ Begins(submenus, desktop_count, Submenus[k])
<1>. DEFINE r == Called.remaining_digits
            m == Called.menu
            prefix == Called.prefix
            created == CreateSubmenus(m, prefix, r, 0)
<1>1. /\ r \in 2..9 /\ prefix \in Nat /\ m \in Nat /\ desktop_count \in Nat
      /\ prefix = PrefixOf(submenus, m) /\ r = Remaining(submenus, desktop_count, m)
  BY CalledFacts
<1>2. Submenus = created
  BY DEF Submenus
<1>. HIDE DEF r, m, prefix
<1>3. OneDigitOn(created, m, prefix, r)
  BY <1>1, CreatedSubmenus
<1>. HIDE DEF created
<1>4. \A k \in DOMAIN created : Begins(submenus, desktop_count, created[k])
  BY <1>1, <1>3, BeginsOneDigitOn
<1>5. Len(created) \in Nat /\ Len(created) <= 10
  <2>1. created \in Seq(Submenu) /\ Len(created) <= 10
    BY <1>3 DEF OneDigitOn
  <2>. QED  BY <2>1
<1>. QED  BY <1>2, <1>3, <1>4, <1>5 DEF m, OneDigitOn

LEMMA Fills ==
    ASSUME DigitsInv, BuildMenu PROVE DigitsInv'
<1>. DEFINE m == Called.menu
            prefix == Called.prefix
            shortcuts == CreateShortcutItems(m)
<1>1. \A leaf \in shortcuts : IsItem(submenus, desktop_count, leaf)
  <2>1. call_queue # <<>>
    BY DEF BuildMenu, CreateLeafMenu, CreateFullMenu, CreateTrailingItems, CreateTrailingSubmenus,
       HasTrailing
  <2>. QED  BY <2>1, CalledFacts, ShortcutKeys
<1>2. CASE CreateLeafMenu
  <2>. DEFINE leafs == TryCreateLeafItems(m, Larger(prefix * 10, 1),
                                          Smaller((prefix + 1) * 10, desktop_count))
  <2>1. /\ call_queue # <<>> /\ Called.remaining_digits = 1 /\ Fill(<<>>, leafs \cup shortcuts)
    BY <1>2 DEF CreateLeafMenu
  <2>2. \A leaf \in leafs : IsItem(submenus, desktop_count, leaf)
    BY <2>1, CalledFacts, LeafItems
  <2>3. <<>> \in Seq(Submenu) /\ DOMAIN <<>> = {}
    OBVIOUS
  <2>. HIDE DEF leafs, shortcuts
  <2>. QED  BY <1>1, <2>1, <2>2, <2>3, FillKeeps
<1>3. CASE CreateFullMenu
  <2>1. call_queue # <<>> /\ Called.remaining_digits > 1 /\ Fill(Submenus, {})
    BY <1>3 DEF CreateFullMenu
  <2>. QED  BY <2>1, FirstSubmenus, FillKeeps
<1>4. CASE CreateTrailingItems
  <2>. DEFINE leafs == TryCreateLeafItems(m, Larger(prefix * 100 + Len(Submenus), 1),
                                          Smaller((prefix * 10 + 1) * 10, desktop_count))
  <2>1. call_queue # <<>> /\ Called.remaining_digits = 2 /\ Fill(Submenus, leafs \cup shortcuts)
    BY <1>4 DEF CreateTrailingItems, HasTrailing
  <2>2. Called.remaining_digits > 1
    BY <2>1
  <2>3. Len(Submenus) \in Nat
    BY <2>1, <2>2, FirstSubmenus
  <2>4. \A leaf \in leafs : IsItem(submenus, desktop_count, leaf)
    BY <2>1, <2>3, CalledFacts, TrailingItems
  <2>. HIDE DEF leafs, shortcuts
  <2>. QED  BY <1>1, <2>1, <2>2, <2>4, FirstSubmenus, FillKeeps
<1>5. CASE CreateTrailingSubmenus
  <2>. DEFINE r == Called.remaining_digits
              more == CreateSubmenus(m, prefix * 10, r - 1, Len(Submenus))
              created == Submenus \o more
  <2>1. call_queue # <<>> /\ r > 2 /\ r > 1 /\ Fill(created, shortcuts) /\ r \in 1..9
    <3>1. call_queue # <<>> /\ r > 2 /\ Fill(created, shortcuts)
      BY <1>5 DEF CreateTrailingSubmenus, HasTrailing
    <3>. QED  BY <3>1, CalledFacts
  <2>2. /\ Submenus \in Seq(Submenu) /\ Len(Submenus) \in Nat /\ Len(Submenus) <= 10
        /\ \A k \in DOMAIN Submenus :
               Submenus[k].menu = m /\ Begins(submenus, desktop_count, Submenus[k])
    BY <2>1, FirstSubmenus
  <2>3. /\ m \in Nat /\ prefix \in Nat /\ prefix = PrefixOf(submenus, m)
        /\ r = Remaining(submenus, desktop_count, m)
        /\ desktop_count \in Nat
    BY <2>1, CalledFacts
  <2>4. OneDigitOn(more, m, prefix * 10, r - 1)
    <3>. DEFINE p == prefix * 10
                s == r - 1
    <3>1. p \in Nat /\ s \in 2..9
      BY <2>1, <2>3
    <3>. HIDE DEF p, s, m
    <3>2. OneDigitOn(CreateSubmenus(m, p, s, Len(Submenus)), m, p, s)
      BY <2>2, <2>3, <3>1, CreatedSubmenus
    <3>. QED  BY <3>2 DEF p, s
  <2>. HIDE DEF more
  <2>5. more \in Seq(Submenu) /\ \A k \in DOMAIN more :
            more[k].menu = m /\ Begins(submenus, desktop_count, more[k])
    <3>0. more \in Seq(Submenu)
      BY <2>4 DEF OneDigitOn
    <3> SUFFICES ASSUME NEW k \in DOMAIN more
                 PROVE  more[k].menu = m /\ Begins(submenus, desktop_count, more[k])
      BY <3>0
    <3>1. more[k] \in Submenu
      BY <3>0
    <3>. HIDE DEF m, prefix, r
    <3>2. /\ more[k].key \in Nat /\ more[k].menu = m
          /\ more[k].prefix = 10 * (prefix * 10) + more[k].key
          /\ more[k].remaining_digits = (r - 1) - 1
      BY <2>4, <3>1 DEF Submenu, Digits, OneDigitOn
    <3>3. more[k].prefix = 100 * prefix + more[k].key /\ more[k].remaining_digits = r - 2
      BY <2>1, <2>3, <3>2
    <3>. QED  BY <2>3, <3>2, <3>3 DEF Begins
  <2>. HIDE DEF m, prefix, r
  <2>6. /\ created \in Seq(Submenu)
        /\ \A k \in DOMAIN created : \/ k \in DOMAIN Submenus /\ created[k] = Submenus[k]
                                     \/ \E i \in DOMAIN more : created[k] = more[i]
    <3>1. /\ created \in Seq(Submenu) /\ Len(created) = Len(Submenus) + Len(more)
          /\ \A i \in 1..Len(created) :
                 created[i] = IF i <= Len(Submenus) THEN Submenus[i] ELSE more[i - Len(Submenus)]
      BY <2>2, <2>5, ConcatProperties
    <3>. HIDE DEF created
    <3>2. ASSUME NEW k \in DOMAIN created, k \notin DOMAIN Submenus
          PROVE  \E i \in DOMAIN more : created[k] = more[i]
      <4>1. k - Len(Submenus) \in DOMAIN more /\ created[k] = more[k - Len(Submenus)]
        BY <2>2, <2>5, <3>1, <3>2
      <4>. QED  BY <4>1
    <3>3. \A k \in DOMAIN Submenus : k \in DOMAIN created => created[k] = Submenus[k]
      BY <2>2, <2>5, <3>1
    <3>. QED  BY <3>1, <3>2, <3>3
  <2>. HIDE DEF created
  <2>7. \A k \in DOMAIN created : created[k].menu = m /\ Begins(submenus, desktop_count, created[k])
    BY <2>2, <2>5, <2>6
  <2>. HIDE DEF shortcuts
  <2>. QED  BY <1>1, <2>1, <2>6, <2>7, FillKeeps DEF m
<1>. QED  BY <1>2, <1>3, <1>4, <1>5 DEF BuildMenu
-----------------------------------------------------------------------------
(* What changes neither the menu nor where in it the user is.              *)
LEMMA StaysRight ==
    ASSUME DigitsInv, UNCHANGED <<desktop_count, items, submenus, call_queue, here, typed>>,
           DigitsAreTheNumber'
    PROVE  DigitsInv'
BY DEF DigitsInv, TreeInv, CountInv, RemainingInv, PathInv

LEMMA TypedIsTyped ==
    ASSUME DigitsInv PROVE typed \in Seq(Digits)
BY DEF DigitsInv, PathInv

(* An item's digit is the last of its number.                              *)
LEMMA ItemChosen ==
    ASSUME DigitsInv, NEW key, ChooseItem(key)
    PROVE  DigitsInv'
<1>1. PICK item \in ItemsOf(here, key) :
          chosen' = [index |-> item.index, keys |-> Append(typed, key)]
  BY DEF ChooseItem
<1>2. /\ UNCHANGED <<desktop_count, items, submenus, call_queue, here, typed>>
      /\ item.menu = here /\ item.key = key /\ IsItem(submenus, desktop_count, item)
      /\ CountInv /\ here \in 0..Len(submenus)
  BY DEF ChooseItem, built, ItemsOf, DigitsInv, TreeInv
<1>. DEFINE W == Width(desktop_count)
            prefix == PrefixOf(submenus, here)
            rest == Remaining(submenus, desktop_count, here)
            number == item.index + 1
            keys == Append(typed, key)
<1>3. ASSUME IsTyped(keys) PROVE /\ item.index < desktop_count - 1
                                 /\ IsWithoutSomeZeros(keys, Padded(number, W))
  <2>1. key \in Digits
    <3>1. keys[Len(typed) + 1] = key /\ Len(typed) + 1 \in DOMAIN keys
      BY TypedIsTyped, AppendProperties
    <3>. QED  BY <1>3, <3>1 DEF IsTyped
  <2>2. /\ item.index < desktop_count - 1
        /\ \/ number = 10 * prefix + key /\ rest = 1
           \/ number = 100 * prefix + key /\ rest = 2
    BY <1>2, <2>1 DEF IsItem, Ends
  <2>3. prefix \in Nat /\ rest \in 1..9 /\ W \in 1..9 /\ rest <= W
    BY <1>2, PathTypes DEF DigitsInv, TreeInv, CountInv, RemainingInv
  <2>4. typed \in Seq(Digits) /\ IsWithoutSomeZeros(typed, Padded(prefix, W - rest))
    BY <1>2 DEF DigitsInv, PathInv
  <2>. DEFINE width == W - rest
  <2>5. width \in 0..9 /\ (rest = 1 => width <= 8 /\ width + 1 = W)
        /\ (rest = 2 => width <= 7 /\ width + 2 = W)
    <3>. HIDE DEF W, rest
    <3>. QED  BY <2>3
  <2>. HIDE DEF W, rest, width, number, prefix
  <2>6. /\ width <= 8 =>
               IsWithoutSomeZeros(Append(typed, key), Padded(10 * prefix + key, width + 1))
        /\ width <= 7 =>
               IsWithoutSomeZeros(Append(typed, key), Padded(100 * prefix + key, width + 2))
    <3>1. IsWithoutSomeZeros(typed, Padded(prefix, width))
      BY <2>4 DEF width
    <3>. QED  BY <2>1, <2>3, <2>4, <2>5, <3>1, OneKeyMore
  <2>7. CASE number = 10 * prefix + key /\ rest = 1
    BY <2>2, <2>5, <2>6, <2>7
  <2>8. CASE number = 100 * prefix + key /\ rest = 2
    BY <2>2, <2>5, <2>6, <2>8
  <2>. QED  BY <2>2, <2>7, <2>8
<1>4. DigitsAreTheNumber'
  BY <1>1, <1>2, <1>3 DEF DigitsAreTheNumber
<1>. QED  BY <1>2, <1>4, StaysRight

(* A space is not a digit.                                                 *)
LEMMA SoFarChosen ==
    ASSUME DigitsInv, ChooseSoFar PROVE DigitsInv'
<1>1. /\ UNCHANGED <<desktop_count, items, submenus, call_queue, here, typed>>
      /\ chosen'.keys = Append(typed, Space)
  BY DEF ChooseSoFar, built
<1>2. ~IsTyped(chosen'.keys)
  <2>. DEFINE keys == Append(typed, Space)
  <2>1. keys[Len(typed) + 1] = Space /\ Len(typed) + 1 \in DOMAIN keys
    BY TypedIsTyped, AppendProperties
  <2>2. Space \notin Digits
    BY DEF Space, Digits
  <2>. QED  BY <1>1, <2>1, <2>2 DEF IsTyped
<1>. QED  BY <1>1, <1>2, StaysRight DEF DigitsAreTheNumber

(* Moving about in the tree.                                               *)
LEMMA Moves ==
    ASSUME DigitsInv, UNCHANGED <<built, chosen>>,
           \/ here' = Root /\ typed' = <<>>
           \/ \E key \in Digits : Descend(key)
           \/ Backspace
    PROVE  DigitsInv'
<1>1. /\ UNCHANGED <<desktop_count, items, submenus, call_queue, chosen>>
      /\ TreeInv /\ RemainingInv /\ here \in 0..Len(submenus) /\ DigitsAreTheNumber
      /\ submenus \in Seq(Submenu) /\ Root \in 0..Len(submenus)
  BY DEF built, DigitsInv, TreeInv, Root
<1>2. PICK path \in [0..Len(submenus) -> Seq(Digits)] :
        /\ path[Root] = <<>>
        /\ \A m \in DOMAIN submenus : path[m] = Append(path[submenus[m].menu], submenus[m].key)
        /\ \A m \in 0..Len(submenus) :
              IsWithoutSomeZeros(path[m], Padded(PrefixOf(submenus, m),
                                 Width(desktop_count) - Remaining(submenus, desktop_count, m)))
        /\ typed = path[here]
  BY DEF DigitsInv, PathInv
<1>3. here' \in 0..Len(submenus) /\ typed' = path[here']
  <2>1. CASE here' = Root /\ typed' = <<>>
    BY <1>1, <1>2, <2>1
  <2>2. CASE \E key \in Digits : Descend(key)
    <3>1. PICK key \in Digits : Descend(key)
      BY <2>2
    <3>2. here' \in DOMAIN submenus /\ submenus[here'].menu = here /\ submenus[here'].key = key
          /\ typed' = Append(typed, key)
      BY <3>1 DEF Descend, SubmenusOf
    <3>3. here' \in 0..Len(submenus)
      BY <1>1, <3>2
    <3>. QED  BY <1>2, <3>2, <3>3
  <2>3. CASE Backspace
    <3>1. here # Root /\ here' = submenus[here].menu /\ typed' = Front(typed)
      BY <2>3 DEF Backspace
    <3>2. here \in DOMAIN submenus
      BY <1>1, <3>1 DEF Root
    <3>3. submenus[here].menu \in 0..here - 1 /\ submenus[here].key \in Digits
      <4>1. submenus[here].menu \in 0..here - 1
        BY <1>1, <3>2 DEF TreeInv
      <4>2. submenus[here] \in Submenu
        BY <1>1, <3>2
      <4>. QED  BY <4>1, <4>2 DEF Submenu
    <3>4. here' \in 0..Len(submenus)
      BY <1>1, <3>1, <3>2, <3>3
    <3>5. path[here'] \in Seq(Digits) /\ typed = Append(path[here'], submenus[here].key)
      BY <1>2, <3>1, <3>2, <3>4
    <3>6. Front(Append(path[here'], submenus[here].key)) = path[here']
      BY <3>3, <3>5, FrontOfAppend
    <3>. QED  BY <3>1, <3>4, <3>5, <3>6
  <2>. QED  BY <2>1, <2>2, <2>3
<1>4. PathInv'
  BY <1>1, <1>2, <1>3 DEF PathInv
<1>5. TreeInv' /\ RemainingInv' /\ DigitsAreTheNumber'
  BY <1>1 DEF TreeInv, CountInv, RemainingInv, DigitsAreTheNumber
<1>. QED  BY <1>1, <1>3, <1>4, <1>5 DEF DigitsInv

LEMMA DigitsNext ==
    ASSUME DigitsInv, [NextMenuSwitch]_menu_switch_vars PROVE DigitsInv'
<1>1. CASE Build
  BY <1>1, Fills DEF Build
<1>2. CASE Navigate
  BY <1>2, Moves DEF Navigate, Descend, Backspace
<1>3. CASE SelectItem
  BY <1>3, ItemChosen DEF SelectItem
<1>4. CASE ItemSelected
  <2>1. UNCHANGED <<desktop_count, items, submenus, call_queue, here, typed>> /\ chosen' = NoChoice
    BY <1>4 DEF ItemSelected, built
  <2>. QED  BY <2>1, StaysRight DEF DigitsAreTheNumber, IsTyped, NoChoice
<1>5. CASE SpacePressed
  BY <1>5, SoFarChosen DEF SpacePressed
<1>6. CASE MenuShown
  BY <1>6, Moves DEF MenuShown, ShowRoot
<1>7. CASE MenuGone
  <2>1. /\ UNCHANGED <<desktop_count, items, submenus, call_queue, here, typed>>
        /\ chosen' \in {NoChoice, chosen}
    BY <1>7 DEF MenuGone, built
  <2>2. DigitsAreTheNumber'
    BY <2>1 DEF DigitsAreTheNumber, IsTyped, NoChoice, DigitsInv
  <2>. QED  BY <2>1, <2>2, StaysRight
<1>8. CASE Elsewhere \/ UNCHANGED menu_switch_vars
  <2>1. UNCHANGED <<desktop_count, items, submenus, call_queue, here, typed, chosen>>
    BY <1>8 DEF Elsewhere, menu_switch_vars, menu_vars, built
  <2>2. DigitsAreTheNumber'
    BY <2>1 DEF DigitsAreTheNumber, DigitsInv
  <2>. QED  BY <2>1, <2>2, StaysRight
<1>. QED  BY <1>1, <1>2, <1>3, <1>4, <1>5, <1>6, <1>7, <1>8 DEF NextMenuSwitch

THEOREM DigitsInvariant == MenuSwitchSpec => []DigitsInv
<1>1. InitMenuSwitch => DigitsInv
  BY DigitsInit DEF InitMenuSwitch
<1>. QED  BY <1>1, DigitsNext, PTL DEF MenuSwitchSpec

(* Whichever digits lead to a desktop, they are those of its number,       *)
(* without some of its zeros, for every number of desktops that nine       *)
(* digits can write (quick_switch.rs, create_quick_switch_menu).           *)
THEOREM DigitsLeadToTheirNumber == MenuSwitchSpec => []DigitsAreTheNumber
<1>1. DigitsInv => DigitsAreTheNumber
  BY DEF DigitsInv
<1>. QED  BY <1>1, DigitsInvariant, PTL
-----------------------------------------------------------------------------
(***************************************************************************)
(* Every desktop is reached.                                               *)
(***************************************************************************)

(* What the last digit of a number leads to, and a digit before it.        *)
HasItem(all, m, number) ==
    \E item \in all : item.menu = m /\ item.key = number % 10 /\ item.index = number - 1

HasSubmenu(tree, m, number, rest) ==
    \E s \in DOMAIN tree :
        /\ tree[s].menu = m /\ tree[s].key = (number \div TenTo(rest)) % 10
        /\ tree[s].prefix = number \div TenTo(rest) /\ tree[s].remaining_digits = rest

(* A menu leads on to every desktop whose number begins as the menu does.  *)
LeadsOn(all, tree, count, m, prefix, digits) ==
    \A number \in 1..count - 1 :
        number \div TenTo(digits) = prefix =>
            IF digits = 1 THEN HasItem(all, m, number)
            ELSE HasSubmenu(tree, m, number, digits - 1)

(* No digit stands for two things in one menu.                             *)
OneMeaning(all, tree) ==
    /\ \A a, b \in all : a.menu = b.menu /\ a.key = b.key /\ a.key \in Digits => a = b
    /\ \A s, t \in DOMAIN tree :
           tree[s].menu = tree[t].menu /\ tree[s].key = tree[t].key => s = t
    /\ \A a \in all, s \in DOMAIN tree : tree[s].menu = a.menu => tree[s].key # a.key

Waits(queue, m) == \E k \in DOMAIN queue : queue[k].menu = m

(* A menu waits once to be filled, empty until then.                       *)
WaitingInv ==
    /\ \A i, j \in DOMAIN call_queue : call_queue[i].menu = call_queue[j].menu => i = j
    /\ \A item \in items : ~Waits(call_queue, item.menu)
    /\ \A s \in DOMAIN submenus : ~Waits(call_queue, submenus[s].menu)

CompleteInv ==
    /\ OneMeaning(items, submenus)
    /\ WaitingInv
    /\ \A m \in 0..Len(submenus) :
           \/ Waits(call_queue, m)
           \/ LeadsOn(items, submenus, desktop_count, m, PrefixOf(submenus, m),
                      Remaining(submenus, desktop_count, m))
-----------------------------------------------------------------------------
(* A menu leads on however much is added to others.                        *)
LEMMA StillLeadsOn ==
    ASSUME NEW all, NEW more, all \subseteq more, NEW tree, NEW larger,
           \A s \in DOMAIN tree : \E t \in DOMAIN larger : larger[t] = tree[s],
           NEW count, NEW m, NEW prefix, NEW digits,
           LeadsOn(all, tree, count, m, prefix, digits)
    PROVE  LeadsOn(more, larger, count, m, prefix, digits)
<1>1. \A number : HasItem(all, m, number) => HasItem(more, m, number)
  BY DEF HasItem
<1>2. ASSUME NEW number, NEW rest, HasSubmenu(tree, m, number, rest)
      PROVE  HasSubmenu(larger, m, number, rest)
  <2>1. PICK s \in DOMAIN tree :
            /\ tree[s].menu = m /\ tree[s].key = (number \div TenTo(rest)) % 10
            /\ tree[s].prefix = number \div TenTo(rest) /\ tree[s].remaining_digits = rest
    BY <1>2 DEF HasSubmenu
  <2>2. PICK t \in DOMAIN larger : larger[t] = tree[s]
    OBVIOUS
  <2>. QED  BY <2>1, <2>2 DEF HasSubmenu
<1>. QED  BY <1>1, <1>2 DEF LeadsOn

(* The queue after a menu is filled.                                       *)
LEMMA NextCalls ==
    ASSUME DigitsInv, call_queue # <<>>, NEW created \in Seq(Submenu)
    PROVE  LET next == Front(call_queue) \o QueueOf(created)
               front == Len(call_queue) - 1
           IN  /\ front \in Nat /\ DOMAIN call_queue = 1..(front + 1)
               /\ Called = call_queue[front + 1]
               /\ DOMAIN next = 1..(front + Len(created)) /\ Len(created) \in Nat
               /\ \A i \in 1..front : next[i] = call_queue[i]
               /\ \A k \in 1..Len(created) : next[front + k].menu = Len(submenus) + k
<1>. DEFINE front == Front(call_queue)
            queue == QueueOf(created)
            both == front \o queue
            n == Len(call_queue) - 1
<1>1. call_queue \in Seq(Call) /\ submenus \in Seq(Submenu)
  BY DEF DigitsInv, TreeInv
<1>2. /\ front \in Seq(Call) /\ Len(front) = n
      /\ \A i \in DOMAIN front : front[i] = call_queue[i]
  BY <1>1, FrontFacts
<1>3. n \in Nat /\ DOMAIN call_queue = 1..(n + 1) /\ Called = call_queue[n + 1]
  BY <1>1, EmptySeq DEF Called
<1>4. /\ Len(created) \in Nat /\ DOMAIN created = 1..Len(created)
      /\ \A k \in 1..Len(created) : created[k] \in Submenu
  OBVIOUS
<1>5. ASSUME NEW k \in DOMAIN created
      PROVE  [menu |-> Len(submenus) + k, prefix |-> created[k].prefix,
              remaining_digits |-> created[k].remaining_digits] \in Call
  <2>1. k \in Nat /\ Len(submenus) \in Nat
    BY <1>1, <1>4
  <2>2. Len(submenus) + k \in Nat
    BY <2>1
  <2>3. created[k] \in Submenu
    BY <1>4
  <2>4. created[k].prefix \in Nat /\ created[k].remaining_digits \in 1..9
    BY <2>3 DEF Submenu
  <2>. QED  BY <2>2, <2>4 DEF Call
<1>6. queue \in [1..Len(created) -> Call]
  BY <1>4, <1>5 DEF QueueOf
<1>7. \A k \in 1..Len(created) : queue[k].menu = Len(submenus) + k
  <2>1. \A k \in DOMAIN created :
            queue[k] = [menu |-> Len(submenus) + k, prefix |-> created[k].prefix,
                        remaining_digits |-> created[k].remaining_digits]
    BY DEF QueueOf
  <2>. HIDE DEF queue
  <2>2. ASSUME NEW k \in DOMAIN created PROVE queue[k].menu = Len(submenus) + k
    <3>1. queue[k] = [menu |-> Len(submenus) + k, prefix |-> created[k].prefix,
                      remaining_digits |-> created[k].remaining_digits]
      BY <2>1
    <3>. QED  BY <3>1
  <2>. QED  BY <1>4, <2>2
<1>. HIDE DEF front, queue
<1>8. queue \in Seq(Call) /\ Len(queue) = Len(created)
  BY <1>4, <1>6
<1>9. /\ both \in Seq(Call) /\ Len(both) = n + Len(created)
      /\ \A i \in 1..Len(both) : both[i] = IF i <= n THEN front[i] ELSE queue[i - n]
  <2>1. /\ both \in Seq(Call) /\ Len(both) = Len(front) + Len(queue)
        /\ \A i \in 1..Len(both) :
               both[i] = IF i <= Len(front) THEN front[i] ELSE queue[i - Len(front)]
    <3>1. front \in Seq(Call) /\ queue \in Seq(Call)
      BY <1>2, <1>8
    <3>. QED  BY <3>1, ConcatProperties
  <2>. HIDE DEF both, n
  <2>. QED  BY <1>2, <1>8, <2>1
<1>. HIDE DEF both, n
<1>10. \A i \in 1..n : both[i] = call_queue[i]
  BY <1>2, <1>3, <1>4, <1>9
<1>11. ASSUME NEW k \in 1..Len(created) PROVE both[n + k].menu = Len(submenus) + k
  <2>1. n + k \in 1..Len(both) /\ ~(n + k <= n) /\ (n + k) - n = k
    BY <1>3, <1>4, <1>9
  <2>. QED  BY <1>7, <1>9, <2>1
<1>12. DOMAIN both = 1..(n + Len(created))
  BY <1>9
<1>. QED  BY <1>3, <1>4, <1>10, <1>11, <1>12 DEF both, n, front, queue

(* What fills the menu that was called: it is all that is in it.           *)
LEMMA FillCompletes ==
    ASSUME DigitsInv, CompleteInv, call_queue # <<>>, NEW created \in Seq(Submenu), NEW leafs,
           \A k \in DOMAIN created : created[k].menu = Called.menu,
           \A leaf \in leafs : leaf.menu = Called.menu,
           OneMeaning(leafs, created),
           LeadsOn(leafs, created, desktop_count, Called.menu, Called.prefix,
                   Called.remaining_digits),
           Fill(created, leafs)
    PROVE  CompleteInv'
<1>. DEFINE n == Len(submenus)
            called == Called.menu
            front == Len(call_queue) - 1
<1>1. /\ submenus' = submenus \o created /\ items' = items \cup leafs
      /\ call_queue' = Front(call_queue) \o QueueOf(created) /\ desktop_count' = desktop_count
  BY DEF Fill
<1>2. /\ TreeInv /\ n \in Nat /\ DOMAIN submenus = 1..n
      /\ \A item \in items : item.menu \in 0..n
      /\ \A s \in DOMAIN submenus : submenus[s].menu \in 0..n
  <2>1. TreeInv /\ submenus \in Seq(Submenu)
    BY DEF DigitsInv, TreeInv
  <2>2. \A item \in items : item.menu \in 0..n
    BY <2>1 DEF TreeInv, IsItem
  <2>3. ASSUME NEW s \in DOMAIN submenus PROVE submenus[s].menu \in 0..n
    <3>1. submenus[s].menu \in 0..s - 1 /\ s \in 1..n
      BY <2>1 DEF TreeInv
    <3>. QED  BY <2>1, <3>1
  <2>. QED  BY <2>1, <2>2, <2>3
<1>3. /\ \A m \in DOMAIN submenus : m \in DOMAIN submenus' /\ submenus'[m] = submenus[m]
      /\ \A k \in DOMAIN created : submenus'[n + k] = created[k]
      /\ \A m \in DOMAIN submenus' : m \in DOMAIN submenus \/ \E k \in DOMAIN created : m = n + k
      /\ Len(submenus') = n + Len(created)
      /\ \A m \in 0..n : /\ PrefixOf(submenus', m) = PrefixOf(submenus, m)
                         /\ Remaining(submenus', desktop_count, m)
                                = Remaining(submenus, desktop_count, m)
  BY <1>1, <1>2, OldMenus
<1>4. /\ front \in Nat /\ DOMAIN call_queue = 1..(front + 1) /\ Called = call_queue[front + 1]
      /\ DOMAIN call_queue' = 1..(front + Len(created)) /\ Len(created) \in Nat
      /\ \A i \in 1..front : call_queue'[i] = call_queue[i]
      /\ \A k \in 1..Len(created) : call_queue'[front + k].menu = n + k
  BY <1>1, NextCalls
<1>5. /\ called \in 0..n /\ called = call_queue[front + 1].menu /\ front + 1 \in DOMAIN call_queue
      /\ Called.prefix = PrefixOf(submenus, called)
      /\ Called.remaining_digits = Remaining(submenus, desktop_count, called)
  BY <1>4, CalledFacts
<1>6. DOMAIN created = 1..Len(created) /\ DOMAIN submenus' = 1..(n + Len(created))
  <2>1. submenus' \in Seq(Submenu)
    BY <1>1, <1>2, OldMenus
  <2>. QED  BY <1>3, <2>1
<1>. HIDE DEF n, called, front
(* Whatever was in a menu was not in the one that is filled. *)
<1>7. /\ \A item \in items : item.menu # called
      /\ \A s \in DOMAIN submenus : submenus[s].menu # called
  BY <1>5 DEF CompleteInv, WaitingInv, Waits
<1>8. \A s \in DOMAIN submenus' :
          \/ s \in DOMAIN submenus /\ submenus'[s] = submenus[s] /\ submenus'[s].menu # called
          \/ \E k \in DOMAIN created : s = n + k /\ submenus'[s] = created[k]
                                       /\ submenus'[s].menu = called
  BY <1>3, <1>7 DEF called
<1>9. \A a \in items' : \/ a \in items /\ a.menu # called
                        \/ a \in leafs /\ a.menu = called
  BY <1>1, <1>7 DEF called
<1>10. OneMeaning(items', submenus')
  <2>1. ASSUME NEW a \in items', NEW b \in items', a.menu = b.menu, a.key = b.key, a.key \in Digits
        PROVE  a = b
    BY <1>9, <2>1 DEF CompleteInv, OneMeaning
  <2>2. ASSUME NEW s \in DOMAIN submenus', NEW t \in DOMAIN submenus',
               submenus'[s].menu = submenus'[t].menu, submenus'[s].key = submenus'[t].key
        PROVE  s = t
    BY <1>8, <2>2 DEF CompleteInv, OneMeaning
  <2>3. ASSUME NEW a \in items', NEW s \in DOMAIN submenus', submenus'[s].menu = a.menu
        PROVE  submenus'[s].key # a.key
    BY <1>8, <1>9, <2>3 DEF CompleteInv, OneMeaning
  <2>. QED  BY <2>1, <2>2, <2>3 DEF OneMeaning
<1>11. \A i \in DOMAIN call_queue' :
           \/ i \in 1..front /\ call_queue'[i] = call_queue[i] /\ i \in DOMAIN call_queue
              /\ call_queue'[i].menu # called /\ call_queue'[i].menu \in 0..n
           \/ \E k \in 1..Len(created) : i = front + k /\ call_queue'[i].menu = n + k
  <2> SUFFICES ASSUME NEW i \in DOMAIN call_queue'
               PROVE  \/ i \in 1..front /\ call_queue'[i] = call_queue[i] /\ i \in DOMAIN call_queue
                         /\ call_queue'[i].menu # called /\ call_queue'[i].menu \in 0..n
                      \/ \E k \in 1..Len(created) : i = front + k /\ call_queue'[i].menu = n + k
    OBVIOUS
  <2>1. CASE i \in 1..front
    <3>1. i \in DOMAIN call_queue /\ i # front + 1 /\ call_queue'[i] = call_queue[i]
      BY <1>4, <2>1
    <3>2. call_queue[i].menu # called
      BY <1>5, <3>1 DEF CompleteInv, WaitingInv
    <3>3. call_queue[i].menu \in 0..n
      BY <3>1 DEF DigitsInv, TreeInv, n
    <3>. QED  BY <2>1, <3>1, <3>2, <3>3
  <2>2. CASE i \notin 1..front
    <3>1. i - front \in 1..Len(created) /\ i = front + (i - front)
      BY <1>4, <2>2
    <3>. QED  BY <1>4, <3>1
  <2>. QED  BY <2>1, <2>2
<1>12. WaitingInv'
  <2>1. ASSUME NEW i \in DOMAIN call_queue', NEW j \in DOMAIN call_queue',
               call_queue'[i].menu = call_queue'[j].menu
        PROVE  i = j
    <3>1. CASE i \in 1..front /\ j \in 1..front
      <4>1. /\ call_queue'[i] = call_queue[i] /\ i \in DOMAIN call_queue
            /\ call_queue'[j] = call_queue[j] /\ j \in DOMAIN call_queue
        BY <1>4, <3>1
      <4>. QED  BY <2>1, <4>1 DEF CompleteInv, WaitingInv
    <3>2. CASE i \in 1..front /\ j \notin 1..front
      <4>1. call_queue'[i].menu \in 0..n
        BY <1>11, <1>4, <3>2
      <4>2. PICK k \in 1..Len(created) : call_queue'[j].menu = n + k
        BY <1>11, <3>2
      <4>. QED  BY <1>2, <1>4, <2>1, <4>1, <4>2
    <3>3. CASE i \notin 1..front /\ j \in 1..front
      <4>1. call_queue'[j].menu \in 0..n
        BY <1>11, <1>4, <3>3
      <4>2. PICK k \in 1..Len(created) : call_queue'[i].menu = n + k
        BY <1>11, <3>3
      <4>. QED  BY <1>2, <1>4, <2>1, <4>1, <4>2
    <3>4. CASE i \notin 1..front /\ j \notin 1..front
      BY <1>2, <1>4, <1>11, <2>1, <3>4
    <3>. QED  BY <3>1, <3>2, <3>3, <3>4
  <2>2. ASSUME NEW m, Waits(call_queue', m)
        PROVE  m # called /\ (Waits(call_queue, m) \/ m \notin 0..n)
    <3>1. PICK i \in DOMAIN call_queue' : call_queue'[i].menu = m
      BY <2>2 DEF Waits
    <3>. QED  BY <1>2, <1>4, <1>5, <1>11, <3>1 DEF Waits
  <2>3. \A item \in items' : ~Waits(call_queue', item.menu)
    BY <1>2, <1>5, <1>9, <2>2 DEF CompleteInv, WaitingInv
  <2>4. \A s \in DOMAIN submenus' : ~Waits(call_queue', submenus'[s].menu)
    BY <1>2, <1>5, <1>8, <2>2 DEF CompleteInv, WaitingInv
  <2>. QED  BY <2>1, <2>3, <2>4 DEF WaitingInv
<1>13. ASSUME NEW m \in 0..Len(submenus')
       PROVE  \/ Waits(call_queue', m)
              \/ LeadsOn(items', submenus', desktop_count, m, PrefixOf(submenus', m),
                         Remaining(submenus', desktop_count, m))
  <2>1. CASE m \in 0..n /\ m # called /\ Waits(call_queue, m)
    <3>1. PICK i \in DOMAIN call_queue : call_queue[i].menu = m
      BY <2>1 DEF Waits
    <3>2. i # front + 1
      BY <1>5, <2>1, <3>1
    <3>3. i \in 1..front /\ i \in DOMAIN call_queue' /\ call_queue'[i] = call_queue[i]
      BY <1>4, <3>2
    <3>. QED  BY <3>1, <3>3 DEF Waits
  <2>2. CASE m \in 0..n /\ m # called /\ ~Waits(call_queue, m)
    <3>1. LeadsOn(items, submenus, desktop_count, m, PrefixOf(submenus, m),
                  Remaining(submenus, desktop_count, m))
      BY <2>2 DEF CompleteInv, n
    <3>2. items \subseteq items' /\ \A s \in DOMAIN submenus :
              \E t \in DOMAIN submenus' : submenus'[t] = submenus[s]
      BY <1>1, <1>3
    <3>3. LeadsOn(items', submenus', desktop_count, m, PrefixOf(submenus, m),
                  Remaining(submenus, desktop_count, m))
      BY <3>1, <3>2, StillLeadsOn
    <3>. QED  BY <1>3, <2>2, <3>3
  <2>3. CASE m = called
    <3>1. leafs \subseteq items' /\ \A k \in DOMAIN created :
              \E t \in DOMAIN submenus' : submenus'[t] = created[k]
      <4>1. ASSUME NEW k \in DOMAIN created PROVE n + k \in DOMAIN submenus'
        BY <1>2, <1>4, <1>6
      <4>. QED  BY <1>1, <1>3, <4>1
    <3>2. LeadsOn(leafs, created, desktop_count, m, PrefixOf(submenus, m),
                  Remaining(submenus, desktop_count, m))
      BY <1>5, <2>3 DEF called
    <3>3. LeadsOn(items', submenus', desktop_count, m, PrefixOf(submenus, m),
                  Remaining(submenus, desktop_count, m))
      BY <3>1, <3>2, StillLeadsOn
    <3>. QED  BY <1>3, <1>5, <2>3, <3>3
  <2>4. CASE m \notin 0..n
    <3>1. m - n \in 1..Len(created) /\ n + (m - n) = m
      BY <1>2, <1>3, <1>4, <2>4
    <3>2. /\ front + (m - n) \in DOMAIN call_queue'
          /\ call_queue'[front + (m - n)].menu = n + (m - n)
      BY <1>4, <3>1
    <3>. QED  BY <3>1, <3>2 DEF Waits
  <2>. QED  BY <2>1, <2>2, <2>3, <2>4
<1>. QED  BY <1>1, <1>10, <1>12, <1>13 DEF CompleteInv
-----------------------------------------------------------------------------
(* No number that is smaller has more digits.                              *)
LEMMA WidthBelow ==
    ASSUME NEW n \in Nat, n > 0, n < TenTo(9), NEW number \in Nat, number < n
    PROVE  number \div TenTo(Width(n)) = 0
<1>1. \E w \in 1..9 : TenTo(w - 1) <= n /\ n < TenTo(w)
  <2>1. CASE n < 1000  BY <2>1, Tens, SMTT(30)
  <2>2. CASE n >= 1000 /\ n < 1000000  BY <2>2, Tens, SMTT(30)
  <2>3. CASE n >= 1000000  BY <2>3, Tens, SMTT(30)
  <2>. QED  BY <2>1, <2>2, <2>3
<1>2. n < TenTo(Width(n)) /\ Width(n) \in {1, 2, 3, 4, 5, 6, 7, 8, 9}
  <2>1. Width(n) \in 1..9 /\ n < TenTo(Width(n))
    BY <1>1 DEF Width
  <2>. QED  BY <2>1
<1>. HIDE DEF Width
<1>. QED  BY <1>2, Tens, SMTT(30)

(* The next digit of a number that begins with a prefix is not after the   *)
(* last for which create_submenus makes a submenu.                         *)
LEMMA NextDigit ==
    ASSUME NEW prefix \in Nat, NEW k \in 1..8, desktop_count \in Nat,
           NEW number \in 1..desktop_count - 1, number \div TenTo(k + 1) = prefix
    PROVE  LET digit == (number \div TenTo(k)) % 10 IN
           /\ digit \in Nat /\ digit <= LastDigit(prefix, TenTo(k))
           /\ 10 * prefix + digit = number \div TenTo(k)
           /\ LastDigit(prefix, TenTo(k)) \in Nat
<1>1. k \in {1, 2, 3, 4, 5, 6, 7, 8} /\ number \in Nat /\ number < desktop_count
  OBVIOUS
<1>. DEFINE digit == (number \div TenTo(k)) % 10
<1>2. digit \in Nat /\ 10 * prefix + digit = number \div TenTo(k)
  BY <1>1, Tens, SMTT(30)
<1>3. LastDigit(prefix, TenTo(k)) \in Nat
  BY <1>1, Tens, SMTT(30) DEF LastDigit, EndOf, Smaller
<1>4. digit <= LastDigit(prefix, TenTo(k))
  <2>. DEFINE last == EndOf(prefix, TenTo(k)) - 1
  <2>1. last \in Nat /\ number <= last /\ last < (prefix + 1) * TenTo(k) * 10
    BY <1>1, Tens, SMTT(30) DEF EndOf, Smaller
  <2>2. LastDigit(prefix, TenTo(k)) = (last \div TenTo(k)) % 10
    BY DEF LastDigit
  <2>. HIDE DEF last
  <2>3. (number \div TenTo(k)) % 10 <= (last \div TenTo(k)) % 10
    <3>1. CASE k = 1  BY <1>1, <2>1, <3>1, Tens, SMTT(30)
    <3>2. CASE k = 2  BY <1>1, <2>1, <3>2, Tens, SMTT(30)
    <3>3. CASE k = 3  BY <1>1, <2>1, <3>3, Tens, SMTT(30)
    <3>4. CASE k = 4  BY <1>1, <2>1, <3>4, Tens, SMTT(30)
    <3>5. CASE k = 5  BY <1>1, <2>1, <3>5, Tens, SMTT(30)
    <3>6. CASE k = 6  BY <1>1, <2>1, <3>6, Tens, SMTT(30)
    <3>7. CASE k = 7  BY <1>1, <2>1, <3>7, Tens, SMTT(30)
    <3>8. CASE k = 8  BY <1>1, <2>1, <3>8, Tens, SMTT(30)
    <3>. QED  BY <1>1, <3>1, <3>2, <3>3, <3>4, <3>5, <3>6, <3>7, <3>8
  <2>. QED  BY <2>2, <2>3
<1>. QED  BY <1>2, <1>3, <1>4

LEMMA CreatedLeadOn ==
    ASSUME NEW m \in Nat, NEW prefix \in Nat, NEW r \in 2..9, desktop_count \in Nat,
           NEW number \in 1..desktop_count - 1, number \div TenTo(r) = prefix
    PROVE  HasSubmenu(CreateSubmenus(m, prefix, r, 0), m, number, r - 1)
<1>. DEFINE created == CreateSubmenus(m, prefix, r, 0)
            digit == (number \div TenTo(r - 1)) % 10
            last == LastDigit(prefix, TenTo(r - 1))
<1>1. OneDigitOn(created, m, prefix, r) /\ CountsOn(created, prefix, r, 0)
  BY CreatedSubmenus
<1>2. /\ digit \in Nat /\ digit <= last /\ last \in Nat
      /\ 10 * prefix + digit = number \div TenTo(r - 1)
  <2>1. r - 1 \in 1..8 /\ (r - 1) + 1 = r
    OBVIOUS
  <2>. QED  BY <2>1, NextDigit
<1>. HIDE DEF created, digit
<1>3. Len(created) = last + 1 /\ DOMAIN created = 1..(last + 1)
  <2>1. created \in Seq(Submenu) /\ Len(created) = Larger(last + 1 - 0, 0)
    BY <1>1 DEF OneDigitOn, CountsOn
  <2>. HIDE DEF last
  <2>. QED  BY <1>2, <2>1 DEF Larger
<1>. HIDE DEF last
<1>4. digit + 1 \in DOMAIN created
  BY <1>2, <1>3
<1>5. /\ created[digit + 1].menu = m /\ created[digit + 1].remaining_digits = r - 1
      /\ created[digit + 1].key = 0 + (digit + 1) - 1
      /\ created[digit + 1].prefix = 10 * prefix + created[digit + 1].key
  BY <1>1, <1>4 DEF OneDigitOn, CountsOn
<1>6. created[digit + 1].key = digit /\ created[digit + 1].prefix = number \div TenTo(r - 1)
  BY <1>2, <1>5
<1>. QED  BY <1>4, <1>5, <1>6 DEF HasSubmenu, created, digit

(* Items for a range of numbers with the same digits before the last.      *)
ItemsFrom(all, m, tens, start, end) ==
    /\ \A a \in all : /\ a.key \in Digits /\ 10 * tens + a.key \in start..end - 1
                      /\ a = [menu |-> m, key |-> a.key, index |-> 10 * tens + a.key - 1]
    /\ \A number \in start..end - 1 : HasItem(all, m, number)

LEMMA ItemsOfTen ==
    ASSUME NEW m, NEW tens \in Nat, NEW start \in Nat, NEW end \in Nat,
           start >= 10 * tens, end <= 10 * tens + 10
    PROVE  ItemsFrom(TryCreateLeafItems(m, start, end), m, tens, start, end)
<1>. DEFINE all == TryCreateLeafItems(m, start, end)
            Item(number) == [menu |-> m, key |-> number % 10, index |-> number - 1]
<1>1. \A number \in start..end - 1 : number % 10 = number - 10 * tens /\ number \in Nat
  OBVIOUS
<1>2. ~(\E i, j \in start..end - 1 : i # j /\ i % 10 = j % 10)
  BY <1>1
<1>3. all = {Item(number) : number \in start..end - 1}
  BY <1>2 DEF TryCreateLeafItems
<1>. HIDE DEF all
<1>4. ASSUME NEW a \in all
      PROVE  /\ a.key \in Digits /\ 10 * tens + a.key \in start..end - 1
             /\ a = [menu |-> m, key |-> a.key, index |-> 10 * tens + a.key - 1]
  <2>1. PICK number \in start..end - 1 : a = Item(number)
    BY <1>3
  <2>2. a.key = number % 10 /\ a.index = number - 1
    BY <2>1
  <2>3. a.key = number - 10 * tens /\ a.key \in Digits /\ 10 * tens + a.key = number
    BY <1>1, <2>2 DEF Digits
  <2>. QED  BY <2>1, <2>2, <2>3
<1>5. ASSUME NEW number \in start..end - 1 PROVE HasItem(all, m, number)
  <2>1. Item(number) \in all
    BY <1>3
  <2>2. /\ Item(number).menu = m /\ Item(number).key = number % 10
        /\ Item(number).index = number - 1
    OBVIOUS
  <2>. QED  BY <2>1, <2>2 DEF HasItem
<1>. QED  BY <1>4, <1>5 DEF ItemsFrom, all

(* Submenus with consecutive digits, items with the digits after them and  *)
(* shortcuts have each a key of their own.                                 *)
LEMMA KeysOnce ==
    ASSUME NEW m, NEW created \in Seq(Submenu), \A i \in DOMAIN created : created[i].key = i - 1,
           NEW leafs, NEW tens \in Nat, NEW start \in Nat, NEW end \in Nat,
           ItemsFrom(leafs, m, tens, start, end), start >= 10 * tens + Len(created)
    PROVE  OneMeaning(leafs \cup CreateShortcutItems(m), created)
<1>. DEFINE shortcuts == CreateShortcutItems(m)
<1>1. ASSUME NEW a \in shortcuts PROVE a.key \notin Digits
  <2>1. PICK shortcut \in Shortcuts :
            a = [menu |-> m, key |-> shortcut.key, index |-> shortcut.index]
    BY DEF CreateShortcutItems
  <2>. QED  BY <2>1, QuickSwitchAssumption DEF Digits
<1>2. ASSUME NEW a \in leafs
      PROVE  /\ a.key \in Nat /\ a.key >= Len(created)
             /\ a = [menu |-> m, key |-> a.key, index |-> 10 * tens + a.key - 1]
  <2>. DEFINE key == a.key
              len == Len(created)
  <2>1. key \in Digits /\ 10 * tens + key \in start..end - 1
    BY DEF ItemsFrom
  <2>2. len \in Nat /\ start >= 10 * tens + len
    OBVIOUS
  <2>3. key \in Nat /\ key >= len
    <3>1. key \in Nat
      BY <2>1 DEF Digits
    <3>. HIDE DEF key, len
    <3>2. 10 * tens + key >= start
      BY <2>1, <3>1
    <3>. QED  BY <2>2, <3>1, <3>2
  <2>. QED  BY <2>3 DEF ItemsFrom
<1>3. ASSUME NEW s \in DOMAIN created
      PROVE  created[s].key \in Digits /\ created[s].key < Len(created) /\ s = created[s].key + 1
  <2>1. created[s] \in Submenu /\ created[s].key = s - 1 /\ s \in 1..Len(created)
    OBVIOUS
  <2>. QED  BY <2>1 DEF Submenu
<1>. HIDE DEF shortcuts
<1>4. ASSUME NEW a \in leafs \cup shortcuts, NEW b \in leafs \cup shortcuts,
             a.key = b.key, a.key \in Digits
      PROVE  a = b
  BY <1>1, <1>2, <1>4
<1>5. ASSUME NEW s \in DOMAIN created, NEW t \in DOMAIN created, created[s].key = created[t].key
      PROVE  s = t
  BY <1>3, <1>5
<1>6. ASSUME NEW a \in leafs \cup shortcuts, NEW s \in DOMAIN created
      PROVE  created[s].key # a.key
  <2>1. CASE a \in shortcuts
    BY <1>1, <1>3, <2>1
  <2>2. CASE a \in leafs
    <3>1. Len(created) \in Nat /\ created[s].key \in Nat
      BY <1>3 DEF Digits
    <3>. QED  BY <1>2, <1>3, <2>2, <3>1
  <2>. QED  BY <2>1, <2>2
<1>7. OneMeaning(leafs \cup shortcuts, created)
  BY <1>4, <1>5, <1>6 DEF OneMeaning
<1>. QED  BY <1>7 DEF shortcuts

LEMMA OnlyShortcuts ==
    ASSUME NEW m, NEW created \in Seq(Submenu), \A i \in DOMAIN created : created[i].key = i - 1
    PROVE  OneMeaning(CreateShortcutItems(m), created) /\ OneMeaning({}, created)
<1>1. Len(created) \in Nat
  OBVIOUS
<1>2. ItemsFrom({}, m, 0, Len(created), 0)
  BY <1>1 DEF ItemsFrom
<1>3. OneMeaning({} \cup CreateShortcutItems(m), created)
  BY <1>1, <1>2, KeysOnce
<1>4. {} \cup CreateShortcutItems(m) = CreateShortcutItems(m)
  OBVIOUS
<1>5. OneMeaning(CreateShortcutItems(m), created)
  BY <1>3, <1>4
<1>. QED  BY <1>5 DEF OneMeaning

(* The submenus for the next digits lead on to every desktop.              *)
LEMMA FirstLeadOn ==
    ASSUME DigitsInv, call_queue # <<>>, Called.remaining_digits > 1
    PROVE  /\ \A k \in DOMAIN Submenus : Submenus[k].key = k - 1
           /\ LeadsOn({}, Submenus, desktop_count, Called.menu, Called.prefix,
                      Called.remaining_digits)
<1>. DEFINE r == Called.remaining_digits
            m == Called.menu
            prefix == Called.prefix
            created == CreateSubmenus(m, prefix, r, 0)
<1>1. r \in 2..9 /\ prefix \in Nat /\ m \in Nat /\ desktop_count \in Nat
  BY CalledFacts
<1>2. Submenus = created
  BY DEF Submenus
<1>. HIDE DEF r, m, prefix
<1>3. OneDigitOn(created, m, prefix, r) /\ CountsOn(created, prefix, r, 0)
  BY <1>1, CreatedSubmenus
<1>4. ASSUME NEW number \in 1..desktop_count - 1, number \div TenTo(r) = prefix
      PROVE  HasSubmenu(created, m, number, r - 1)
  BY <1>1, <1>4, CreatedLeadOn
<1>. HIDE DEF created
<1>5. LeadsOn({}, created, desktop_count, m, prefix, r)
  BY <1>1, <1>4 DEF LeadsOn
<1>6. ASSUME NEW k \in DOMAIN created PROVE created[k].key = k - 1
  <2>1. created[k].key = 0 + k - 1 /\ k \in Nat
    BY <1>3 DEF CountsOn, OneDigitOn
  <2>. QED  BY <2>1
<1>. QED  BY <1>2, <1>5, <1>6 DEF r, m, prefix

LEMMA ShortcutMenus ==
    ASSUME NEW m, NEW a \in CreateShortcutItems(m) PROVE a.menu = m
BY DEF CreateShortcutItems

LEMMA LeafMenuCompletes ==
    ASSUME DigitsInv, CompleteInv, CreateLeafMenu PROVE CompleteInv'
<1>. DEFINE m == Called.menu
            prefix == Called.prefix
            start == Larger(prefix * 10, 1)
            end == Smaller((prefix + 1) * 10, desktop_count)
            leafs == TryCreateLeafItems(m, start, end)
            shortcuts == CreateShortcutItems(m)
<1>1. call_queue # <<>> /\ Called.remaining_digits = 1 /\ Fill(<<>>, leafs \cup shortcuts)
  BY DEF CreateLeafMenu
<1>2. prefix \in Nat /\ desktop_count \in Nat
  BY <1>1, CalledFacts
<1>3. /\ start \in Nat /\ start >= 10 * prefix
      /\ end \in Nat /\ end <= 10 * prefix + 10
  BY <1>2, LeafRange
<1>4. ASSUME NEW number \in 1..desktop_count - 1, number \div TenTo(1) = prefix
      PROVE  number \in start..end - 1
  <2>1. number \div 10 = prefix
    BY <1>4, Tens, SMTT(30)
  <2>. QED  BY <1>2, <2>1 DEF Larger, Smaller
<1>. HIDE DEF start, end
<1>5. ItemsFrom(leafs, m, prefix, start, end)
  BY <1>2, <1>3, ItemsOfTen
<1>. HIDE DEF leafs
<1>6. <<>> \in Seq(Submenu) /\ Len(<<>>) = 0 /\ DOMAIN <<>> = {}
  OBVIOUS
<1>7. OneMeaning(leafs \cup shortcuts, <<>>)
  <2>1. start >= 10 * prefix + 0
    BY <1>2, <1>3
  <2>. QED  BY <1>2, <1>3, <1>5, <1>6, <2>1, KeysOnce
<1>8. LeadsOn(leafs \cup shortcuts, <<>>, desktop_count, m, prefix, 1)
  BY <1>4, <1>5 DEF LeadsOn, ItemsFrom, HasItem
<1>9. \A a \in leafs \cup shortcuts : a.menu = m
  BY <1>5, ShortcutMenus DEF ItemsFrom
<1>. HIDE DEF shortcuts
<1>. QED  BY <1>1, <1>6, <1>7, <1>8, <1>9, FillCompletes

LEMMA FullMenuCompletes ==
    ASSUME DigitsInv, CompleteInv, CreateFullMenu PROVE CompleteInv'
<1>1. call_queue # <<>> /\ Called.remaining_digits > 1 /\ Fill(Submenus, {})
  BY DEF CreateFullMenu
<1>2. /\ Submenus \in Seq(Submenu)
      /\ \A k \in DOMAIN Submenus : Submenus[k].menu = Called.menu
  BY <1>1, FirstSubmenus
<1>3. /\ \A k \in DOMAIN Submenus : Submenus[k].key = k - 1
      /\ LeadsOn({}, Submenus, desktop_count, Called.menu, Called.prefix,
                 Called.remaining_digits)
  BY <1>1, FirstLeadOn
<1>4. OneMeaning({}, Submenus)
  BY <1>2, <1>3, OnlyShortcuts
<1>. QED  BY <1>1, <1>2, <1>3, <1>4, FillCompletes

LEMMA TrailingItemsComplete ==
    ASSUME DigitsInv, CompleteInv, CreateTrailingItems PROVE CompleteInv'
<1>. DEFINE m == Called.menu
            prefix == Called.prefix
            tens == 10 * prefix
            start == Larger(prefix * 100 + Len(Submenus), 1)
            end == Smaller((prefix * 10 + 1) * 10, desktop_count)
            leafs == TryCreateLeafItems(m, start, end)
            shortcuts == CreateShortcutItems(m)
            all == leafs \cup shortcuts
<1>1. call_queue # <<>> /\ Called.remaining_digits = 2 /\ Fill(Submenus, all)
  BY DEF CreateTrailingItems, HasTrailing
<1>2. Called.remaining_digits > 1
  BY <1>1
<1>3. /\ Submenus \in Seq(Submenu) /\ Len(Submenus) \in Nat
      /\ \A k \in DOMAIN Submenus : Submenus[k].menu = m
  BY <1>1, <1>2, FirstSubmenus
<1>4. /\ \A k \in DOMAIN Submenus : Submenus[k].key = k - 1
      /\ LeadsOn({}, Submenus, desktop_count, m, prefix, Called.remaining_digits)
  BY <1>1, <1>2, FirstLeadOn
<1>5. prefix \in Nat /\ desktop_count \in Nat
  BY <1>1, CalledFacts
<1>6. /\ start \in Nat /\ start >= prefix * 100 + Len(Submenus)
      /\ end \in Nat /\ end <= 100 * prefix + 10
  BY <1>3, <1>5 DEF Larger, Smaller
<1>. HIDE DEF start, end, prefix
<1>7. /\ tens \in Nat /\ 10 * tens = 100 * prefix
      /\ start >= 10 * tens + Len(Submenus) /\ start >= 10 * tens /\ end <= 10 * tens + 10
  BY <1>3, <1>5, <1>6
<1>. HIDE DEF tens
<1>8. ItemsFrom(leafs, m, tens, start, end)
  BY <1>6, <1>7, ItemsOfTen
<1>. HIDE DEF leafs
<1>9. OneMeaning(all, Submenus)
  BY <1>3, <1>4, <1>6, <1>7, <1>8, KeysOnce
<1>10. \A a \in all : a.menu = m
  BY <1>8, ShortcutMenus DEF ItemsFrom
<1>. HIDE DEF shortcuts, all
<1>11. LeadsOn(all, Submenus, desktop_count, m, prefix, Called.remaining_digits)
  <2>1. {} \subseteq all /\ \A s \in DOMAIN Submenus : \E t \in DOMAIN Submenus :
            Submenus[t] = Submenus[s]
    OBVIOUS
  <2>. QED  BY <1>4, <2>1, StillLeadsOn
<1>. QED  BY <1>1, <1>3, <1>9, <1>10, <1>11, FillCompletes DEF prefix

LEMMA TrailingSubmenusComplete ==
    ASSUME DigitsInv, CompleteInv, CreateTrailingSubmenus PROVE CompleteInv'
<1>. DEFINE m == Called.menu
            prefix == Called.prefix
            r == Called.remaining_digits
            first == Submenus
            more == CreateSubmenus(m, prefix * 10, r - 1, Len(first))
            both == first \o more
            shortcuts == CreateShortcutItems(m)
<1>1. call_queue # <<>> /\ r > 2 /\ Fill(both, shortcuts)
  BY DEF CreateTrailingSubmenus, HasTrailing
<1>2. r > 1 /\ r \in 1..9 /\ prefix \in Nat /\ m \in Nat /\ desktop_count \in Nat
  BY <1>1, CalledFacts
<1>3. /\ first \in Seq(Submenu) /\ Len(first) \in Nat /\ Len(first) <= 10
      /\ \A k \in DOMAIN first : first[k].menu = m
  BY <1>1, <1>2, FirstSubmenus
<1>4. /\ \A k \in DOMAIN first : first[k].key = k - 1
      /\ LeadsOn({}, first, desktop_count, m, prefix, r)
  BY <1>1, <1>2, FirstLeadOn
<1>5. OneDigitOn(more, m, prefix * 10, r - 1) /\ CountsOn(more, prefix * 10, r - 1, Len(first))
  <2>1. prefix * 10 \in Nat /\ r - 1 \in 2..9
    BY <1>1, <1>2
  <2>. HIDE DEF m, prefix, r, first
  <2>. QED  BY <1>2, <1>3, <2>1, CreatedSubmenus
<1>. HIDE DEF more, first
<1>6. /\ more \in Seq(Submenu)
      /\ \A i \in DOMAIN more : more[i].menu = m /\ more[i].key = Len(first) + i - 1
  BY <1>5 DEF OneDigitOn, CountsOn
<1>. HIDE DEF m, prefix, r
<1>7. /\ both \in Seq(Submenu) /\ Len(both) = Len(first) + Len(more)
      /\ \A i \in 1..Len(both) :
             both[i] = IF i <= Len(first) THEN first[i] ELSE more[i - Len(first)]
  BY <1>3, <1>6, ConcatProperties
<1>8. Len(more) \in Nat /\ DOMAIN more = 1..Len(more) /\ DOMAIN first = 1..Len(first)
  BY <1>3, <1>6
<1>. HIDE DEF both
<1>9. ASSUME NEW i \in DOMAIN both PROVE both[i].menu = m /\ both[i].key = i - 1
  <2>0. i \in 1..Len(both) /\ i \in Nat
    BY <1>7
  <2>1. CASE i <= Len(first)
    <3>1. i \in DOMAIN first /\ both[i] = first[i]
      BY <1>7, <1>8, <2>0, <2>1
    <3>. QED  BY <1>3, <1>4, <3>1
  <2>2. CASE ~(i <= Len(first))
    <3>1. i - Len(first) \in DOMAIN more /\ both[i] = more[i - Len(first)]
      BY <1>3, <1>7, <1>8, <2>0, <2>2
    <3>2. Len(first) + (i - Len(first)) - 1 = i - 1
      BY <1>3, <2>0
    <3>. QED  BY <1>6, <3>1, <3>2
  <2>. QED  BY <2>1, <2>2
<1>10. OneMeaning(shortcuts, both)
  BY <1>7, <1>9, OnlyShortcuts
<1>11. LeadsOn(shortcuts, both, desktop_count, m, prefix, r)
  <2>1. ASSUME NEW s \in DOMAIN first PROVE s \in DOMAIN both /\ both[s] = first[s]
    BY <1>3, <1>7, <1>8
  <2>2. {} \subseteq shortcuts /\ \A s \in DOMAIN first : \E t \in DOMAIN both : both[t] = first[s]
    BY <2>1
  <2>. QED  BY <1>4, <2>2, StillLeadsOn
<1>12. \A a \in shortcuts : a.menu = m
  BY ShortcutMenus
<1>. HIDE DEF shortcuts
<1>. QED  BY <1>1, <1>7, <1>9, <1>10, <1>11, <1>12, FillCompletes DEF m, prefix, r

LEMMA Completes ==
    ASSUME DigitsInv, CompleteInv, BuildMenu PROVE CompleteInv'
BY LeafMenuCompletes, FullMenuCompletes, TrailingItemsComplete, TrailingSubmenusComplete
   DEF BuildMenu

LEMMA CompleteInit == ASSUME InitMenu PROVE CompleteInv
<1>. DEFINE root == [menu |-> Root, prefix |-> 0, remaining_digits |-> Width(desktop_count)]
<1>1. /\ items = {} /\ submenus = <<>> /\ call_queue = <<root>>
      /\ Len(submenus) = 0 /\ DOMAIN submenus = {}
  BY DEF InitMenu
<1>2. root.menu = 0
  BY DEF Root
<1>. HIDE DEF root
<1>3. DOMAIN call_queue = {1} /\ call_queue[1].menu = 0
  BY <1>1, <1>2
<1>4. Waits(call_queue, 0)
  BY <1>3 DEF Waits
<1>5. WaitingInv
  BY <1>1, <1>3 DEF WaitingInv
<1>6. OneMeaning(items, submenus)
  BY <1>1 DEF OneMeaning
<1>7. \A m \in 0..Len(submenus) : Waits(call_queue, m)
  BY <1>1, <1>4
<1>. QED  BY <1>5, <1>6, <1>7 DEF CompleteInv

LEMMA CompleteNext ==
    ASSUME DigitsInv, CompleteInv, [NextMenuSwitch]_menu_switch_vars PROVE CompleteInv'
<1>1. CASE Build
  BY <1>1, Completes DEF Build
<1>2. CASE ~Build
  <2>1. UNCHANGED <<desktop_count, items, submenus, call_queue>>
    BY <1>2 DEF NextMenuSwitch, Navigate, Descend, Backspace, SelectItem, ChooseItem, ItemSelected,
                SpacePressed, ChooseSoFar, MenuShown, ShowRoot, MenuGone, Elsewhere,
                menu_switch_vars, menu_vars, built
  <2>2. UNCHANGED WaitingInv
    BY <2>1 DEF WaitingInv
  <2>. QED  BY <2>1, <2>2 DEF CompleteInv
<1>. QED  BY <1>1, <1>2
-----------------------------------------------------------------------------
LEMMA DigitsToCome ==
    ASSUME NEW all \in 1..9, NEW n \in Nat, n + 1 <= all
    PROVE  /\ n < all /\ n \in 0..all - 1 /\ all - n \in 1..9
           /\ all - n - 1 = (all - n) - 1 /\ all - (n + 1) = (all - n) - 1
           /\ n + 1 < all <=> all - n # 1
OBVIOUS

(* The key a digit of a number is.                                         *)
LEMMA DigitAt ==
    ASSUME NEW number \in Nat, NEW width \in 1..9, NEW k \in 0..width - 1
    PROVE  /\ k + 1 \in 1..width
           /\ Padded(number, width)[k + 1] = (number \div TenTo(width - k - 1)) % 10
<1>1. k + 1 \in 1..width /\ width - (k + 1) = width - k - 1
  OBVIOUS
<1>. QED  BY <1>1 DEF Padded

(* Where the first digits of a number lead begins with them, and all the   *)
(* others are still to come: the zeros that are left out are those of      *)
(* other numbers.                                                          *)
LEMMA LeadsStraight ==
    ASSUME DigitsInv, CompleteInv, IsBuilt,
           NEW path \in [0..Len(submenus) -> Seq(Digits)], path[Root] = <<>>,
           \A m \in DOMAIN submenus : path[m] = Append(path[submenus[m].menu], submenus[m].key),
           NEW number \in 1..desktop_count - 1, NEW at \in 0..Len(submenus),
           Len(path[at]) < Width(desktop_count),
           \A k \in DOMAIN path[at] : path[at][k] = Padded(number, Width(desktop_count))[k]
    PROVE  /\ Remaining(submenus, desktop_count, at) = Width(desktop_count) - Len(path[at])
           /\ PrefixOf(submenus, at) = number \div TenTo(Width(desktop_count) - Len(path[at]))
<1>. DEFINE W == Width(desktop_count)
            keys == Padded(number, W)
            Follows(m) == /\ Len(path[m]) < W
                          /\ \A k \in DOMAIN path[m] : path[m][k] = keys[k]
            Straight(m) == /\ Remaining(submenus, desktop_count, m) = W - Len(path[m])
                           /\ PrefixOf(submenus, m) = number \div TenTo(W - Len(path[m]))
            Astray == {m \in 0..Len(submenus) : Follows(m) /\ ~Straight(m)}
<1>1. /\ submenus \in Seq(Submenu) /\ Len(submenus) \in Nat /\ W \in 1..9
      /\ desktop_count \in Nat /\ desktop_count < TenTo(9) /\ number \in Nat /\ number > 0
      /\ number < desktop_count
  BY DEF DigitsInv, TreeInv, CountInv
<1>2. ASSUME NEW m \in 0..Len(submenus)
      PROVE  LeadsOn(items, submenus, desktop_count, m, PrefixOf(submenus, m),
                     Remaining(submenus, desktop_count, m))
  <2>1. DOMAIN call_queue = {}
    BY DEF IsBuilt
  <2>2. ~Waits(call_queue, m)
    BY <2>1 DEF Waits
  <2>. QED  BY <2>2 DEF CompleteInv
<1>3. Straight(Root)
  <2>1. Len(path[Root]) = 0 /\ W - 0 = W
    BY <1>1
  <2>2. number \div TenTo(W) = 0
    BY <1>1, WidthBelow
  <2>. QED  BY <2>1, <2>2 DEF PrefixOf, Remaining
<1>4. ASSUME NEW m \in DOMAIN submenus, Follows(m),
             submenus[m].menu \in 0..Len(submenus),
             Follows(submenus[m].menu) => Straight(submenus[m].menu)
      PROVE  Straight(m)
  <2>. DEFINE p == submenus[m].menu
              n == Len(path[p])
  <2>1. /\ submenus[m] \in Submenu /\ m \in 0..Len(submenus) /\ m # Root
        /\ path[p] \in Seq(Digits) /\ path[m] = Append(path[p], submenus[m].key)
        /\ submenus[m].key \in Digits
    <3>1. m \in 1..Len(submenus) /\ submenus[m] \in Submenu
      BY <1>1
    <3>. QED  BY <1>4, <3>1 DEF Submenu, Root
  <2>. HIDE DEF p
  <2>2. /\ n \in Nat /\ Len(path[m]) = n + 1 /\ DOMAIN path[p] = 1..n
        /\ DOMAIN path[m] = 1..(n + 1) /\ path[m][n + 1] = submenus[m].key
        /\ \A k \in 1..n : path[m][k] = path[p][k]
    <3>. DEFINE longer == Append(path[p], submenus[m].key)
    <3>1. /\ longer \in Seq(Digits) /\ Len(longer) = Len(path[p]) + 1
          /\ \A k \in 1..Len(path[p]) : longer[k] = path[p][k]
          /\ longer[Len(path[p]) + 1] = submenus[m].key
      BY <2>1, AppendProperties
    <3>2. path[m] = longer
      BY <2>1
    <3>. HIDE DEF longer
    <3>. QED  BY <2>1, <3>1, <3>2
  <2>. HIDE DEF n, keys
  <2>3. n + 1 < W /\ \A k \in 1..(n + 1) : path[m][k] = keys[k]
    BY <1>4, <2>2
  <2>4. Len(path[p]) = n
    BY DEF n
  <2>5. Follows(p)
    BY <1>1, <2>2, <2>3, <2>4
  <2>6. /\ Remaining(submenus, desktop_count, p) = W - n
        /\ PrefixOf(submenus, p) = number \div TenTo(W - n)
    BY <1>4, <2>4, <2>5 DEF p
  <2>7. W - n # 1 /\ (W - n) - 1 = W - (n + 1) /\ n \in 0..W - 1 /\ W - n - 1 = W - (n + 1)
    <3>0. W \in 1..9
      BY <1>1
    <3>. HIDE DEF W
    <3>1. n + 1 <= W
      BY <2>2, <2>3, <3>0
    <3>. QED  BY <1>1, <2>2, <2>3, <3>1, DigitsToCome
  <2>8. HasSubmenu(submenus, p, number, W - (n + 1))
    <3>1. p \in 0..Len(submenus)
      BY <1>4 DEF p
    <3>. QED  BY <1>2, <2>6, <2>7, <3>1 DEF LeadsOn
  <2>9. PICK s \in DOMAIN submenus :
            /\ submenus[s].menu = p
            /\ submenus[s].key = (number \div TenTo(W - (n + 1))) % 10
            /\ submenus[s].prefix = number \div TenTo(W - (n + 1))
            /\ submenus[s].remaining_digits = W - (n + 1)
    BY <2>8 DEF HasSubmenu
  <2>10. submenus[m].key = (number \div TenTo(W - (n + 1))) % 10
    <3>1. keys[n + 1] = (number \div TenTo(W - n - 1)) % 10
      BY <1>1, <2>7, DigitAt DEF keys
    <3>2. n + 1 \in 1..(n + 1)
      BY <2>2
    <3>. QED  BY <2>2, <2>3, <2>7, <3>1, <3>2
  <2>11. s = m
    BY <2>9, <2>10 DEF CompleteInv, OneMeaning, p
  <2>. QED  BY <2>1, <2>2, <2>9, <2>11 DEF PrefixOf, Remaining
<1>5. Astray = {}
  <2> SUFFICES ASSUME Astray # {} PROVE FALSE
    OBVIOUS
  <2>1. Astray \subseteq Nat
    BY <1>1
  <2>2. PICK m \in Astray : \A n \in Astray : m <= n
    BY <2>1, LeastNat
  <2>3. m \in DOMAIN submenus
    <3>1. m # Root
      BY <1>3, <2>2
    <3>. QED  BY <1>1, <2>2, <3>1 DEF Root
  <2>4. submenus[m].menu \in 0..m - 1
    BY <2>3 DEF DigitsInv, TreeInv
  <2>5. submenus[m].menu \in 0..Len(submenus) /\ submenus[m].menu \notin Astray
    <3>1. m \in 0..Len(submenus)
      BY <2>2
    <3>. DEFINE p == submenus[m].menu
                last == Len(submenus)
    <3>2. last \in Nat /\ m \in 0..last /\ p \in 0..m - 1
      BY <1>1, <2>4, <3>1
    <3>. HIDE DEF Astray, p, last
    <3>3. p \in 0..last /\ ~(m <= p)
      BY <3>2
    <3>4. p \notin Astray
      BY <2>2, <3>3
    <3>. QED  BY <3>3, <3>4 DEF p, last
  <2>. HIDE DEF Follows, Straight
  <2>. QED  BY <1>4, <2>2, <2>3, <2>5
<1>6. Follows(at)
  OBVIOUS
<1>. HIDE DEF Follows, Straight
<1>7. Straight(at)
  BY <1>5, <1>6
<1>. QED  BY <1>7 DEF Straight

LEMMA OnlyOne ==
    ASSUME NEW one, NEW A, NEW B, A = {one}, B = {}
    PROVE  Cardinality(A) + Cardinality(B) = 1 /\ Cardinality(B) + Cardinality(A) = 1
<1>1. Cardinality(A) = 1
  BY FS_Singleton
<1>2. Cardinality(B) = 0
  BY FS_EmptySet
<1>. QED  BY <1>1, <1>2

LEMMA Reached == ASSUME DigitsInv, CompleteInv PROVE EveryDesktopIsReached
<1>. DEFINE W == Width(desktop_count)
            n == Len(typed)
<1> SUFFICES ASSUME IsBuilt, n + 1 <= W, NEW number \in 1..desktop_count - 1,
                    \A k \in DOMAIN typed : typed[k] = Padded(number, W)[k]
             PROVE  LET key == Padded(number, W)[n + 1] IN
                    /\ IsOnly(here, key)
                    /\ IF n + 1 < W THEN SubmenusOf(here, key) # {}
                       ELSE \E item \in ItemsOf(here, key) : item.index = number - 1
  BY DEF EveryDesktopIsReached
<1>. DEFINE key == Padded(number, W)[n + 1]
<1>1. PICK path \in [0..Len(submenus) -> Seq(Digits)] :
          /\ path[Root] = <<>>
          /\ \A m \in DOMAIN submenus : path[m] = Append(path[submenus[m].menu], submenus[m].key)
          /\ typed = path[here]
  BY DEF DigitsInv, PathInv
<1>2. /\ here \in 0..Len(submenus) /\ W \in 1..9 /\ typed \in Seq(Digits) /\ n \in Nat
      /\ desktop_count \in Nat
  <2>1. here \in 0..Len(submenus) /\ W \in 1..9 /\ desktop_count \in Nat
    BY DEF DigitsInv, TreeInv, CountInv
  <2>. QED  BY <1>1, <2>1
<1>3. /\ n < W /\ n \in 0..W - 1 /\ W - n \in 1..9 /\ W - n - 1 = (W - n) - 1
      /\ n + 1 < W <=> W - n # 1
  <2>. HIDE DEF n, W
  <2>. QED  BY <1>2, DigitsToCome
<1>. HIDE DEF n
<1>4. /\ Remaining(submenus, desktop_count, here) = W - n
      /\ PrefixOf(submenus, here) = number \div TenTo(W - n)
  <2>1. Len(path[here]) < W /\ Len(path[here]) = n
    BY <1>1, <1>3 DEF n
  <2>2. \A k \in DOMAIN path[here] : path[here][k] = Padded(number, W)[k]
    BY <1>1
  <2>3. /\ Remaining(submenus, desktop_count, here) = W - Len(path[here])
        /\ PrefixOf(submenus, here) = number \div TenTo(W - Len(path[here]))
    BY <1>1, <1>2, <2>1, <2>2, LeadsStraight
  <2>. QED  BY <2>1, <2>3
<1>5. LeadsOn(items, submenus, desktop_count, here, PrefixOf(submenus, here),
              Remaining(submenus, desktop_count, here))
  <2>1. DOMAIN call_queue = {}
    BY DEF IsBuilt
  <2>2. ~Waits(call_queue, here)
    BY <2>1 DEF Waits
  <2>. QED  BY <1>2, <2>2 DEF CompleteInv
<1>6. key = (number \div TenTo((W - n) - 1)) % 10
  <2>1. number \in Nat
    BY <1>2
  <2>. HIDE DEF W
  <2>2. Padded(number, W)[n + 1] = (number \div TenTo(W - n - 1)) % 10
    BY <1>2, <1>3, <2>1, DigitAt
  <2>. QED  BY <1>3, <2>2
<1>7. key \in Digits
  <2>1. (W - n) - 1 \in {0, 1, 2, 3, 4, 5, 6, 7, 8}
    BY <1>3
  <2>2. (number \div TenTo((W - n) - 1)) % 10 \in Digits
    <3>. DEFINE k == (W - n) - 1
    <3>1. k \in {0, 1, 2, 3, 4, 5, 6, 7, 8} /\ number \in Nat
      BY <1>2, <2>1
    <3>. HIDE DEF k
    <3>2. (number \div TenTo(k)) % 10 \in Digits
      BY <3>1, DigitOf
    <3>. QED  BY <3>2 DEF k
  <2>. QED  BY <1>6, <2>2
<1>. HIDE DEF key
<1>8. CASE W - n = 1
  <2>1. HasItem(items, here, number)
    BY <1>4, <1>5, <1>8 DEF LeadsOn
  <2>2. PICK item \in items :
            item.menu = here /\ item.key = number % 10 /\ item.index = number - 1
    BY <2>1 DEF HasItem
  <2>3. key = number % 10
    <3>1. (W - n) - 1 = 0
      BY <1>8
    <3>2. number \div TenTo(0) = number
      BY <1>2, Tens, SMTT(30)
    <3>. QED  BY <1>6, <3>1, <3>2
  <2>4. ItemsOf(here, key) = {item}
    BY <1>7, <2>2, <2>3 DEF ItemsOf, CompleteInv, OneMeaning
  <2>5. SubmenusOf(here, key) = {}
    BY <2>2, <2>3 DEF SubmenusOf, CompleteInv, OneMeaning
  <2>6. IsOnly(here, key)
    BY <2>4, <2>5, OnlyOne DEF IsOnly
  <2>7. ~(n + 1 < W)
    BY <1>3, <1>8
  <2>. QED  BY <2>2, <2>4, <2>6, <2>7 DEF key
<1>9. CASE W - n # 1
  <2>1. HasSubmenu(submenus, here, number, (W - n) - 1)
    BY <1>4, <1>5, <1>9 DEF LeadsOn
  <2>2. PICK s \in DOMAIN submenus :
            /\ submenus[s].menu = here
            /\ submenus[s].key = (number \div TenTo((W - n) - 1)) % 10
    BY <2>1 DEF HasSubmenu
  <2>3. SubmenusOf(here, key) = {s}
    BY <1>6, <2>2 DEF SubmenusOf, CompleteInv, OneMeaning
  <2>4. ItemsOf(here, key) = {}
    BY <1>6, <2>2 DEF ItemsOf, CompleteInv, OneMeaning
  <2>5. IsOnly(here, key)
    BY <2>3, <2>4, OnlyOne DEF IsOnly
  <2>6. n + 1 < W
    BY <1>3, <1>9
  <2>7. SubmenusOf(here, key) # {}
    BY <2>3
  <2>. QED  BY <2>5, <2>6, <2>7 DEF key
<1>. QED  BY <1>8, <1>9

THEOREM CompleteInvariant == MenuSwitchSpec => [](DigitsInv /\ CompleteInv)
<1>1. InitMenuSwitch => CompleteInv
  BY CompleteInit DEF InitMenuSwitch
<1>2. DigitsInv /\ CompleteInv /\ [NextMenuSwitch]_menu_switch_vars => CompleteInv'
  BY CompleteNext
<1>. QED  BY <1>1, <1>2, DigitsInvariant, PTL DEF MenuSwitchSpec

(* The digits of a desktop's number, with leading zeros, lead to it, and   *)
(* none of them stands for two things: for every number of desktops that   *)
(* nine digits can write (quick_switch.rs, create_quick_switch_menu).      *)
THEOREM DigitsLeadToEveryDesktop == MenuSwitchSpec => []EveryDesktopIsReached
<1>1. DigitsInv /\ CompleteInv => EveryDesktopIsReached
  BY Reached
<1>. QED  BY <1>1, CompleteInvariant, PTL
-----------------------------------------------------------------------------
(***************************************************************************)
(* Both together.                                                          *)
(***************************************************************************)
WindowTypes ==
    /\ menu \in {"closed", "open", "closing"}
    /\ reshow_tray_menu \in {"none", "recent", "old"}
    /\ switches \in 0..MaxUses[desktop_count - 1]
    /\ window \in 0..MaxUses[desktop_count - 1]
    /\ refocus_timer \in BOOLEAN /\ reshow_tray_menu_delay \in BOOLEAN
    /\ switching \in [pc : {"idle", "moving", "retrying", "panicked"}, target : Nat]
    /\ focus \in {"last", "menu", "window"}
    /\ chosen.index \in Nat
    /\ MaxUses[desktop_count - 1] \in Nat

LEMMA OneLess ==
    ASSUME NEW max \in Nat, NEW n \in 0..max, n > 0 PROVE n - 1 \in 0..max
OBVIOUS

LEMMA SwitchTypes ==
    ASSUME WindowTypes, NEW desktop \in Nat, SwitchDesktop(desktop), desktop_count' = desktop_count,
           menu' \in {"closed", "closing"}, chosen'.index \in Nat
    PROVE  WindowTypes'
<1>1. /\ switches' \in 0..MaxUses[desktop_count - 1]
      /\ switches \in 0..MaxUses[desktop_count - 1] /\ switches' = switches - 1
  <2>. DEFINE max == MaxUses[desktop_count - 1]
  <2>1. switches > 0 /\ switches' = switches - 1
    BY DEF SwitchDesktop, SwitchByLibrary, SwitchByWindow, CanSwitch
  <2>2. switches \in 0..max /\ max \in Nat
    BY DEF WindowTypes
  <2>. HIDE DEF max
  <2>3. switches - 1 \in 0..max
    BY <2>1, <2>2, OneLess
  <2>. QED  BY <2>1, <2>2, <2>3 DEF max
<1>2. CASE SwitchByLibrary(desktop)
  BY <1>1, <1>2 DEF SwitchByLibrary, window_vars, WindowTypes
<1>3. CASE SwitchByWindow(desktop)
  <2>1. /\ window' = switches /\ focus' \in {"last", focus}
        /\ switching' = [pc |-> "moving", target |-> desktop]
        /\ UNCHANGED <<reshow_tray_menu, refocus_timer, reshow_tray_menu_delay>>
    BY <1>3 DEF SwitchByWindow, CreateInvisibleWindow, LoseFocus
  <2>. QED  BY <1>1, <2>1 DEF WindowTypes
<1>. QED  BY <1>2, <1>3 DEF SwitchDesktop

LEMMA TypesNext ==
    ASSUME WindowTypes, DigitsInv, [NextMenuSwitch]_menu_switch_vars PROVE WindowTypes'
<1>1. CASE Build \/ Navigate \/ UNCHANGED menu_switch_vars
  <2>1. UNCHANGED <<desktop_count, chosen>> /\ UNCHANGED switch_vars
    BY <1>1 DEF Build, BuildMenu, CreateLeafMenu, CreateFullMenu, CreateTrailingItems,
                CreateTrailingSubmenus, Fill, Navigate, Descend, Backspace, built, menu_vars,
                menu_switch_vars
  <2>. QED  BY <2>1 DEF switch_vars, WindowTypes
<1>2. CASE SelectItem
  <2>1. PICK key : ChooseItem(key)
    BY <1>2 DEF SelectItem
  <2>2. PICK item \in ItemsOf(here, key) :
            chosen' = [index |-> item.index, keys |-> Append(typed, key)]
    BY <2>1 DEF ChooseItem
  <2>3. item.index \in Nat /\ desktop_count' = desktop_count
    BY <2>1, <2>2 DEF ItemsOf, DigitsInv, TreeInv, IsItem, ChooseItem, built
  <2>4. chosen'.index \in Nat
    BY <2>2, <2>3
  <2>. QED  BY <1>2, <2>3, <2>4 DEF SelectItem, timers, window_vars, WindowTypes
<1>3. CASE ItemSelected
  BY <1>3, SwitchTypes DEF ItemSelected, WindowTypes, NoChoice, built
<1>4. CASE SpacePressed
  <2>1. /\ submenus[here] \in Submenu
        /\ chosen' = [index |-> submenus[here].index, keys |-> Append(typed, Space)]
        /\ desktop_count' = desktop_count
    BY <1>4 DEF SpacePressed, ChooseSoFar, DigitsInv, TreeInv, built, Root
  <2>2. submenus[here].index \in Nat /\ chosen'.index \in Nat
    BY <2>1 DEF Submenu
  <2>. QED  BY <1>4, <2>1, <2>2, SwitchTypes DEF SpacePressed
<1>5. CASE MenuShown
  <2>1. /\ menu' = "open" /\ focus' = "menu" /\ refocus_timer' = FALSE
        /\ reshow_tray_menu' \in {reshow_tray_menu, "none"}
        /\ UNCHANGED <<window, switches, reshow_tray_menu_delay, switching, desktop_count, chosen>>
    BY <1>5 DEF MenuShown, OpenContextMenu, Reshow, ShowMenu, ShowRoot, built, window_vars
  <2>. QED  BY <2>1 DEF WindowTypes
<1>6. CASE MenuGone
  <2>1. /\ menu' = "closed" /\ refocus_timer' \in {refocus_timer, TRUE}
        /\ reshow_tray_menu_delay' \in {reshow_tray_menu_delay, TRUE}
        /\ chosen' \in {chosen, NoChoice}
        /\ UNCHANGED <<window, switches, reshow_tray_menu, switching, desktop_count, focus>>
    BY <1>6 DEF MenuGone, MenuClosed, built, window_vars
  <2>2. chosen'.index \in Nat
    BY <2>1 DEF WindowTypes, NoChoice
  <2>. QED  BY <2>1, <2>2 DEF WindowTypes
<1>7. CASE Elsewhere
  <2>1. UNCHANGED <<desktop_count, chosen>>
    BY <1>7 DEF Elsewhere, menu_vars, built
  <2>2. CASE Timeouts
    BY <2>1, <2>2 DEF Timeouts, FireClose, FireRefocus, FireReshow, window_vars, WindowTypes
  <2>3. CASE OnCloseTick \/ MoveFails
    BY <2>1, <2>3 DEF OnCloseTick, MoveFails, CloseWindow, LoseFocus, Idle, WindowTypes
  <2>4. CASE OnRefocusTick \/ IgnoreReshow
    BY <2>1, <2>4 DEF OnRefocusTick, IgnoreReshow, timers, window_vars, WindowTypes
  <2>5. CASE Retry \/ ShowClosedWindow
    BY <2>1, <2>5 DEF Retry, ShowClosedWindow, timers, window_vars, WindowTypes
  <2>6. CASE MoveSucceeds
    BY <2>1, <2>6 DEF MoveSucceeds, Idle, window_vars, WindowTypes
  <2>7. CASE ReopenContextMenu \/ Escape \/ Age
    BY <2>1, <2>7 DEF ReopenContextMenu, Escape, Age, timers, window_vars, WindowTypes
  <2>. QED  BY <1>7, <2>2, <2>3, <2>4, <2>5, <2>6, <2>7 DEF Elsewhere, FinishSwitch
<1>. QED  BY <1>1, <1>2, <1>3, <1>4, <1>5, <1>6, <1>7 DEF NextMenuSwitch

LEMMA TypesInit == ASSUME InitMenuSwitch PROVE WindowTypes
<1>1. CountInv
  BY DigitsInit DEF InitMenuSwitch, DigitsInv, TreeInv
<1>2. MaxUses[desktop_count - 1] \in Nat
  BY <1>1, MenuSwitchAssumption DEF CountInv
<1>3. switches \in 0..MaxUses[desktop_count - 1] /\ window \in 0..MaxUses[desktop_count - 1]
  BY <1>2 DEF InitMenuSwitch, InitSwitch
<1>4. chosen.index \in Nat
  BY DEF InitMenuSwitch, InitMenu, NoChoice
<1>5. switching \in [pc : {"idle", "moving", "retrying", "panicked"}, target : Nat]
  BY DEF InitMenuSwitch, InitSwitch, Idle
<1>. QED  BY <1>2, <1>3, <1>4, <1>5 DEF InitMenuSwitch, InitSwitch, WindowTypes

(* The menu's tree and the window with its timers and notices are what     *)
(* their types say (quick_switch.rs, invisible_window.rs): each submenu is *)
(* in one that was made before it, a window is one of the switches made.   *)
THEOREM MenuSwitchTypes == MenuSwitchSpec => []MenuSwitchTypeOK
<1>1. InitMenuSwitch => WindowTypes
  BY TypesInit
<1>2. WindowTypes /\ DigitsInv /\ [NextMenuSwitch]_menu_switch_vars => WindowTypes'
  BY TypesNext
<1>3. WindowTypes /\ DigitsInv /\ SwitchInv => MenuSwitchTypeOK
  <2> SUFFICES ASSUME WindowTypes, DigitsInv, SwitchInv PROVE MenuSwitchTypeOK
    OBVIOUS
  <2>1. /\ \A item \in items : item.index \in Nat /\ item.menu \in 0..Len(submenus)
        /\ here \in 0..Len(submenus)
    BY DEF DigitsInv, TreeInv, IsItem
  <2>2. ASSUME NEW m \in DOMAIN submenus
        PROVE  submenus[m].index \in Nat /\ submenus[m].menu \in 0..m - 1
    <3>1. submenus[m] \in Submenu /\ submenus[m].menu \in 0..m - 1
      BY DEF DigitsInv, TreeInv
    <3>. QED  BY <3>1 DEF Submenu
  <2>3. \A i \in DOMAIN notices : notices[i].timer \in {"close", "refocus", "reshow"}
    <3>1. \A i \in DOMAIN notices : notices[i] \in Notices
      BY DEF SwitchInv
    <3>. QED  BY <3>1 DEF Notices
  <2>4. {window, close_timer} \subseteq 0..MaxUses[desktop_count - 1]
    BY DEF WindowTypes, SwitchInv
  <2>5. switching.pc \in {"idle", "moving", "retrying", "panicked"}
    BY DEF WindowTypes
  <2>. QED  BY <2>1, <2>2, <2>3, <2>4, <2>5 DEF MenuSwitchTypeOK, WindowTypes
<1>. QED  BY <1>1, <1>2, <1>3, DigitsInvariant, SwitchInvariant, PTL DEF MenuSwitchSpec
=============================================================================
