----------------------------- MODULE TimerThread -----------------------------
(***************************************************************************)
(* TimerThread and FastTimerControl (nwg_ext.rs) with block_on and         *)
(* simple_join (block_on.rs): one thread serves every delay of the         *)
(* program.  The UI thread arms timers and handles the notices they post;  *)
(* an executor thread runs tasks that await delays; both send requests     *)
(* through one channel to the timer thread, which keeps them in a map      *)
(* ordered by time.  Other controls of the program share that thread: of   *)
(* them there are only their requests, a stream that need not end.         *)
(*                                                                         *)
(* Three threads share atomics and no lock but the one around a future's   *)
(* waker, so each load, store, send and receive another thread can see is  *)
(* an action of its own.  A signal is one Arc<AtomicBool>: arming a timer  *)
(* allocates one.  The timer thread is the global one: its channel is      *)
(* never disconnected.                                                     *)
(***************************************************************************)
EXTENDS Integers, FiniteSets, Sequences

CONSTANTS
    Timers,         \* the FastTimerControls
    Tasks,          \* the futures simple_join polls, by their places in its list
    Delays,         \* the delays a timer or a task asks for
    OtherDelays,    \* the delays the rest of the program asks for
    OthersFrom,     \* bound: it is quiet until then
    MaxOthers,      \* bound: how many of its requests are in the channel at once
    MaxTime,        \* bound: the clock stops here, so nothing is asked for then
    MaxSignals,     \* bound: how often timers are armed
    MaxSleeps       \* bound: how many delays one task awaits

ASSUME TimerAssumption ==
    /\ Delays \subseteq Nat
    /\ OtherDelays \subseteq Nat
    /\ Tasks \subseteq Nat
    /\ MaxTime \in Nat
    /\ MaxSignals \in Nat
    /\ MaxSleeps \in Nat

VARIABLES
    now,            \* the clock
    channel,        \* requests sent and not yet received
    times,          \* background_work's BTreeMap, as a set of requests
    thread,         \* where the timer thread is
    running,        \* the request whose callback runs
    armed,          \* the signals that hold TRUE
    latest,         \* FastTimerControl.is_last_active of each timer
    last_signal,    \* the newest signal allocated
    ticks,          \* notices each timer posted at this instant, as it is armed now
    fut,            \* what each task's WaitFut mutex holds
    sleeps,         \* delays each task has asked for
    to_poll,        \* tasks the executor has still to poll in this turn
    executor,       \* where the executor thread is
    unparked,       \* ThreadNotify.unparked
    token,          \* the executor thread's park token
    lost,           \* callbacks of timers and tasks BTreeMap::insert dropped
    late,           \* notices on their way when each timer was last cancelled or armed
    stale           \* notices posted since then for what was cancelled

clock == <<now>>
requests == <<channel, times>>
timer == <<armed, latest, last_signal, ticks>>
tasks == <<fut, sleeps, to_poll, executor>>
parking == <<unparked, token>>
history == <<late, stale>>

vars == <<now, channel, times, thread, running, armed, latest, last_signal,
          ticks, fut, sleeps, to_poll, executor, unparked, token, lost, late, stale>>
-----------------------------------------------------------------------------
Signals == 1..MaxSignals

(* A callback: of a timer's timeout, of its interval, of a task's delay, or *)
(* of the rest of the program.                                             *)
Once(t, s) == [kind |-> "once", timer |-> t, signal |-> s]
Interval(t, s, every) == [kind |-> "interval", timer |-> t, signal |-> s, every |-> every]
Wake(k) == [kind |-> "wake", task |-> k]
Other == [kind |-> "other"]

Request(at, callback) == [at |-> at, callback |-> callback]
Nothing == Request(0, [kind |-> "none"])

Queued == times \cup {channel[i] : i \in DOMAIN channel}
First(entries) == CHOOSE e \in entries : \A other \in entries : e.at <= other.at

ThreadStates == {"loop", "recv", "recv_timeout", "run", "fire", "tick", "wake",
                 "unpark"}
FutStates == {"none", "new", "registered", "elapsed", "done"}
Awaiting(k) == fut[k] \in {"new", "registered"}

Init ==
    /\ now = 0
    /\ channel = <<>>
    /\ times = {}
    /\ thread = "loop"
    /\ running = Nothing
    /\ armed = {}
    /\ latest = [t \in Timers |-> 0]
    /\ last_signal = 0
    /\ ticks = [t \in Timers |-> 0]
    /\ fut = [k \in Tasks |-> "none"]
    /\ sleeps = [k \in Tasks |-> 0]
    /\ to_poll = Tasks
    /\ executor = "poll"
    /\ unparked = FALSE
    /\ token = FALSE
    /\ lost = {}
    /\ late = [t \in Timers |-> 0]
    /\ stale = [t \in Timers |-> 0]
-----------------------------------------------------------------------------
(***************************************************************************)
(* The UI thread.                                                          *)
(***************************************************************************)
UiOnly == UNCHANGED <<clock, times, thread, running, tasks, parking, lost>>

(* History: a callback that is past its load cannot be called back.        *)
OnItsWay(t) == thread \in {"fire", "tick"} /\ running.callback.timer = t
BeginSilence(t) ==
    /\ late' = [late EXCEPT ![t] = IF OnItsWay(t) THEN 1 ELSE 0]
    /\ stale' = [stale EXCEPT ![t] = 0]

(* Mutant: the previous signal is not disarmed. *)
NewEnableSignalOnly(t) ==
    /\ armed' = armed \cup {last_signal + 1}
    /\ latest' = [latest EXCEPT ![t] = last_signal + 1]
    /\ last_signal' = last_signal + 1

(* Disarm the previous signal and arm a new one. *)
NewEnableSignal(t) ==
    /\ armed' = (armed \ {latest[t]}) \cup {last_signal + 1}
    /\ latest' = [latest EXCEPT ![t] = last_signal + 1]
    /\ last_signal' = last_signal + 1

(* notify_after, notify_at.  A delay in the past is one of 0. *)
NotifyAfter(t, delay) ==
    /\ last_signal < MaxSignals
    /\ now + delay < MaxTime
    /\ NewEnableSignal(t)
    /\ BeginSilence(t)
    /\ channel' = Append(channel, Request(now + delay, Once(t, last_signal + 1)))
    /\ ticks' = [ticks EXCEPT ![t] = 0]
    /\ UiOnly

StartInterval(t, every) ==
    /\ last_signal < MaxSignals
    /\ every > 0
    /\ now + every < MaxTime
    /\ NewEnableSignal(t)
    /\ BeginSilence(t)
    /\ channel' = Append(channel, Request(now + every, Interval(t, last_signal + 1, every)))
    /\ ticks' = [ticks EXCEPT ![t] = 0]
    /\ UiOnly

CancelLast(t) ==
    /\ latest[t] \in armed
    /\ armed' = armed \ {latest[t]}
    /\ BeginSilence(t)
    /\ UiOnly
    /\ UNCHANGED <<channel, latest, last_signal, ticks>>
-----------------------------------------------------------------------------
(***************************************************************************)
(* The rest of the program.                                                *)
(***************************************************************************)
OthersSent == {i \in DOMAIN channel : channel[i].callback = Other}

OtherRequest(delay) ==
    /\ now >= OthersFrom
    /\ Cardinality(OthersSent) < MaxOthers
    /\ now + delay <= MaxTime
    /\ channel' = Append(channel, Request(now + delay, Other))
    /\ UiOnly
    /\ UNCHANGED <<timer, history>>
-----------------------------------------------------------------------------
(***************************************************************************)
(* The executor thread: run_executor polling simple_join's futures.        *)
(***************************************************************************)
ExecutorOnly == UNCHANGED <<clock, times, thread, running, timer, lost, history>>

Turn(k) == executor = "poll" /\ k \in to_poll /\ \A j \in to_poll : k <= j

(* A task that does not wait asks for a delay (notify_future) and polls it *)
(* at once, or ends.                                                       *)
Sleep(k, delay) ==
    /\ Turn(k)
    /\ fut[k] \in {"none", "elapsed"}
    /\ sleeps[k] < MaxSleeps
    /\ now + delay < MaxTime
    /\ fut' = [fut EXCEPT ![k] = "new"]
    /\ sleeps' = [sleeps EXCEPT ![k] = @ + 1]
    /\ channel' = Append(channel, Request(now + delay, Wake(k)))
    /\ ExecutorOnly
    /\ UNCHANGED <<to_poll, executor, parking>>

Finish(k) ==
    /\ Turn(k)
    /\ fut[k] \in {"none", "elapsed"}
    /\ fut' = [fut EXCEPT ![k] = "done"]
    /\ to_poll' = to_poll \ {k}
    /\ ExecutorOnly
    /\ UNCHANGED <<channel, sleeps, executor, parking>>

(* WaitFut::poll under its mutex: store the waker. *)
Register(k) ==
    /\ Turn(k)
    /\ Awaiting(k)
    /\ fut' = [fut EXCEPT ![k] = "registered"]
    /\ to_poll' = to_poll \ {k}
    /\ ExecutorOnly
    /\ UNCHANGED <<channel, sleeps, executor, parking>>

(* All are polled and none is left. *)
Return ==
    /\ executor = "poll" /\ to_poll = {}
    /\ \A k \in Tasks : fut[k] = "done"
    /\ executor' = "returned"
    /\ ExecutorOnly
    /\ UNCHANGED <<channel, fut, sleeps, to_poll, parking>>

(* All are polled: unparked.swap(false), then poll again or park. *)
CheckWakeup ==
    /\ \/ executor = "poll" /\ to_poll = {} /\ \E k \in Tasks : fut[k] # "done"
       \/ executor = "check"
    /\ IF unparked
       THEN executor' = "poll" /\ to_poll' = {k \in Tasks : fut[k] # "done"}
       ELSE executor' = "park" /\ UNCHANGED to_poll
    /\ unparked' = FALSE
    /\ ExecutorOnly
    /\ UNCHANGED <<channel, fut, sleeps, token>>

Unpark ==
    /\ executor = "park" /\ token
    /\ token' = FALSE
    /\ executor' = "check"
    /\ ExecutorOnly
    /\ UNCHANGED <<channel, fut, sleeps, to_poll, unparked>>
-----------------------------------------------------------------------------
(***************************************************************************)
(* The timer thread: background_work and the callbacks it runs.            *)
(***************************************************************************)
ThreadOnly == UNCHANGED <<clock, latest, last_signal, sleeps, to_poll, executor>>

(* Mutant: messages first, also when an entry's time has passed. *)
LoopTopMessageFirst ==
    /\ thread = "loop"
    /\ thread' = IF times = {} THEN "recv" ELSE "recv_timeout"
    /\ ThreadOnly
    /\ UNCHANGED <<requests, running, armed, ticks, fut, parking, lost, history>>

(* The top of the loop: a first entry whose time has passed is run at     *)
(* once, otherwise the thread waits for a message, until its time.         *)
LoopTop ==
    /\ thread = "loop"
    /\ IF times = {} \/ First(times).at >= now
       THEN /\ thread' = IF times = {} THEN "recv" ELSE "recv_timeout"
            /\ UNCHANGED <<times, running>>
       ELSE /\ thread' = "run"
            /\ running' = First(times)
            /\ times' = times \ {First(times)}
    /\ ThreadOnly
    /\ UNCHANGED <<channel, armed, ticks, fut, parking, lost, history>>

(* BTreeMap::insert: a callback with the same time is replaced. *)
Receive ==
    /\ thread \in {"recv", "recv_timeout"}
    /\ channel # <<>>
    /\ LET request == Head(channel)
           same == {e \in times : e.at = request.at}
       IN  /\ times' = (times \ same) \cup {request}
           /\ lost' = lost \cup ({e.callback : e \in same} \ {Other})
    /\ channel' = Tail(channel)
    /\ thread' = "loop"
    /\ ThreadOnly
    /\ UNCHANGED <<running, armed, ticks, fut, parking, history>>

(* A message may be missed: it arrives after the channel was looked at. *)
Timeout ==
    /\ thread = "recv_timeout"
    /\ now >= First(times).at
    /\ thread' = "run"
    /\ running' = First(times)
    /\ times' = times \ {First(times)}
    /\ ThreadOnly
    /\ UNCHANGED <<channel, armed, ticks, fut, parking, lost, history>>

callback == running.callback
BackToLoop == thread' = "loop" /\ running' = Nothing

(* The callback of a timer loads its signal and goes on if it is armed. *)
Load ==
    /\ thread = "run"
    /\ callback.kind \in {"once", "interval"}
    /\ IF callback.signal \in armed
       THEN thread' = (IF callback.kind = "once" THEN "fire" ELSE "tick") /\ UNCHANGED running
       ELSE BackToLoop
    /\ ThreadOnly
    /\ UNCHANGED <<requests, armed, ticks, fut, parking, lost, history>>

(* The notice is one that OnNotice handlers get, whatever is armed by then. *)
PostNotice ==
    LET t == callback.timer
        s == callback.signal
        AddedIf(count, condition) == IF condition THEN [count EXCEPT ![t] = @ + 1] ELSE count
    IN  /\ ticks' = AddedIf(ticks, s = latest[t])
        /\ stale' = AddedIf(stale, s # latest[t] \/ s \notin armed)
        /\ UNCHANGED late

Fire ==
    /\ thread = "fire"
    /\ armed' = armed \ {callback.signal}
    /\ PostNotice
    /\ BackToLoop
    /\ ThreadOnly
    /\ UNCHANGED <<requests, fut, parking, lost>>

(* Mutant: an interval makes up for every tick it missed. *)
NextTargetAlways == running.at + callback.every

(* An interval that is late by more than one tick starts afresh. *)
NextTarget ==
    IF running.at + callback.every < now THEN now + callback.every
    ELSE running.at + callback.every

Tick ==
    /\ thread = "tick"
    /\ PostNotice
    /\ channel' = Append(channel, Request(NextTarget, callback))
    /\ BackToLoop
    /\ ThreadOnly
    /\ UNCHANGED <<times, armed, fut, parking, lost>>

(* A callback of the rest of the program runs: no timer or task of these.  *)
RunOther ==
    /\ thread = "run"
    /\ callback = Other
    /\ BackToLoop
    /\ ThreadOnly
    /\ UNCHANGED <<requests, armed, ticks, fut, parking, lost, history>>

(* Mutant: a delay that nobody polled yet is not marked as over. *)
ElapseRegistered ==
    /\ thread = "run"
    /\ callback.kind = "wake"
    /\ IF fut[callback.task] = "registered"
       THEN /\ fut' = [fut EXCEPT ![callback.task] = "elapsed"]
            /\ thread' = "wake" /\ UNCHANGED running
       ELSE BackToLoop /\ UNCHANGED fut
    /\ ThreadOnly
    /\ UNCHANGED <<requests, armed, ticks, parking, lost, history>>

(* notify_waker: mark the delay as over and take the waker, if any. *)
Elapse ==
    /\ thread = "run"
    /\ callback.kind = "wake"
    /\ fut' = [fut EXCEPT ![callback.task] = "elapsed"]
    /\ IF fut[callback.task] = "registered" THEN thread' = "wake" /\ UNCHANGED running
                                            ELSE BackToLoop
    /\ ThreadOnly
    /\ UNCHANGED <<requests, armed, ticks, parking, lost, history>>

(* ThreadNotify::wake_by_ref. *)
WakeByRef ==
    /\ thread = "wake"
    /\ unparked' = TRUE
    /\ IF unparked THEN BackToLoop ELSE thread' = "unpark" /\ UNCHANGED running
    /\ ThreadOnly
    /\ UNCHANGED <<requests, armed, ticks, fut, token, lost, history>>

UnparkExecutor ==
    /\ thread = "unpark"
    /\ token' = TRUE
    /\ BackToLoop
    /\ ThreadOnly
    /\ UNCHANGED <<requests, armed, ticks, fut, unparked, lost, history>>
-----------------------------------------------------------------------------
PassTime ==
    /\ now < MaxTime
    /\ now' = now + 1
    /\ ticks' = [t \in Timers |-> 0]
    /\ UNCHANGED <<requests, thread, running, armed, latest, last_signal,
                   tasks, parking, lost, history>>

ThreadStep ==
    \/ LoopTop \/ Receive \/ Timeout
    \/ Load \/ Fire \/ Tick \/ RunOther
    \/ Elapse \/ WakeByRef \/ UnparkExecutor

ExecutorStep ==
    \/ \E k \in Tasks : Register(k) \/ Finish(k) \/ \E d \in Delays : Sleep(k, d)
    \/ Return \/ CheckWakeup \/ Unpark

Next ==
    \/ \E t \in Timers, d \in Delays : NotifyAfter(t, d) \/ StartInterval(t, d)
    \/ \E t \in Timers : CancelLast(t)
    \/ \E d \in OtherDelays : OtherRequest(d)
    \/ ExecutorStep
    \/ ThreadStep
    \/ PassTime

Spec == Init /\ [][Next]_vars

(* Time passes and the scheduler runs the timer thread and the executor;    *)
(* nothing makes the rest of the program pause.                            *)
Fairness ==
    /\ WF_vars(PassTime)
    /\ WF_vars(ThreadStep)
    /\ WF_vars(ExecutorStep)

FairSpec == Spec /\ Fairness
-----------------------------------------------------------------------------
(***************************************************************************)
(* Properties.                                                             *)
(***************************************************************************)
Callbacks == {e.callback : e \in Queued}
Dropped(signal) == \E c \in lost : c.kind \in {"once", "interval"} /\ c.signal = signal

(* Every variable has its type. *)
ClockTypeOK == now \in 0..MaxTime /\ thread \in ThreadStates
MapTypeOK ==
    /\ \A e, f \in times : e.at = f.at => e = f
    /\ thread = "recv_timeout" => times # {}
SignalTypeOK ==
    /\ last_signal \in 0..MaxSignals
    /\ armed \subseteq 1..last_signal
    /\ latest \in [Timers -> 0..last_signal]
    /\ ticks \in [Timers -> Nat]
    /\ late \in [Timers -> {0, 1}]
    /\ stale \in [Timers -> Nat]
TaskTypeOK ==
    /\ fut \in [Tasks -> FutStates]
    /\ sleeps \in [Tasks -> 0..MaxSleeps]
    /\ to_poll \subseteq Tasks
    /\ executor \in {"poll", "check", "park", "returned"}
    /\ {unparked, token} \subseteq BOOLEAN
TypeOK == ClockTypeOK /\ MapTypeOK /\ SignalTypeOK /\ TaskTypeOK

(* cancel_last and is_waiting look at the latest signal only: no older one *)
(* is armed.                                                               *)
OnlyLatestArmed == \A s \in armed : \E t \in Timers : latest[t] = s

(* A timer that is cancelled or armed again says nothing more for what it  *)
(* was armed for, wherever that request is: in the channel, in the map, in *)
(* a callback before its load.  Only a callback that was past its load     *)
(* (nwg_ext.rs:1496-1499, 1515-1517) when that happened posts its one      *)
(* notice late; an interval's, which queues itself once more with that, is *)
(* silent from then on.                                                    *)
OnlyLateIsStale == \A t \in Timers : stale[t] <= late[t]

(* nwg_ext.rs:1473, "This will cancel any queued timeout or interval": not *)
(* the notice of a callback that is past its load.                         *)
CancelledIsSilent == \A t \in Timers : stale[t] = 0

(* However long the machine was asleep, an interval makes up for at most   *)
(* one missed tick: it never posts a burst of notices at one instant.      *)
NoBurst == \A t \in Timers : ticks[t] <= 2

(* Each request of an armed timer is answered, unless the timer is        *)
(* cancelled or armed again or the request pushed out of the map: a timeout *)
(* fires and is disarmed, an interval goes on to a later request.  However *)
(* many requests the rest of the program sends, they never postpone it for *)
(* ever.  (The clock must pass a request's time: after that the thread     *)
(* no longer looks into the channel first.)                                *)
Requested(s, at) == \E e \in Queued : e.at = at /\ e.callback.kind \in {"once", "interval"}
                                               /\ e.callback.signal = s
TimerFires ==
    \A t \in Timers, s \in Signals, at \in 0..MaxTime - 1 :
        (latest[t] = s /\ s \in armed /\ Requested(s, at))
            ~> (s \notin armed \/ Dropped(s) \/ \E next \in at + 1..2 * MaxTime : Requested(s, next))

(* No wakeup is lost between the timer thread and the executor: a task     *)
(* whose delay was not pushed out of the map does not wait for ever.       *)
DelayEnds == \A k \in Tasks : Awaiting(k) ~> (~Awaiting(k) \/ Wake(k) \in lost)

(* nwg_ext.rs:1250, "Create a future that will become ready at the         *)
(* specified time": it need not, when another request has the same time.   *)
FutureBecomesReady == \A k \in Tasks : Awaiting(k) ~> ~Awaiting(k)
=============================================================================
