------------------------ MODULE ApplyFiltersProofs ------------------------
(***************************************************************************)
(* ApplyFilters for any windows, desktops, lists of rules and bounds: no   *)
(* request is forgotten, no window stays hidden after an exit, and windows *)
(* end up where the last batch wants them, if they can be moved there in   *)
(* time.                                                                   *)
(*                                                                         *)
(* None of the three is inductive.  Requests are safe because the newest   *)
(* list of a batch is older than all that still wait; windows because one  *)
(* that the program hides has a future that will show it; and their places *)
(* because, at each point of the thread and of a window's future, either   *)
(* the window is in its place or its job is to be moved there.             *)
(***************************************************************************)
EXTENDS ApplyFilters, SequenceTheorems, TLAPS

(* The newest list in the batch is not newer than one in the queue.        *)
Newest(b, n) == b.filters # NoFilters => b.filters.rev <= n
OrderInv ==
    /\ Newest(batch, requests)
    /\ \A i \in DOMAIN queue : queue[i].filters # NoFilters =>
          /\ Newest(batch, queue[i].filters.rev)
          /\ queue[i].filters.rev <= requests
          /\ \A j \in DOMAIN queue :
                i < j /\ queue[j].filters # NoFilters =>
                    queue[i].filters.rev <= queue[j].filters.rev

(* Who has not been served waits, or is part of the batch being collected. *)
QueuedInv ==
    \A r \in unserved :
        \/ \E i \in DOMAIN queue : queue[i] = r
        \/ thread = "drain" /\ Serves(batch, r)
        \/ thread = "ended"

HiddenInv ==
    /\ ui = "closed" => thread \in {"none", "ended"}
    /\ \A w \in Windows : HiddenByUs(w) => future[w] = "hiding"

(* A window without a job is where it should be, one with a job will be    *)
(* moved there.                                                            *)
Chosen(w) == wanted[w] # NoTarget /\ AtDesktop(w)
ToBeMoved(w) == jobs[w] \in Targets /\ jobs[w].desktop = wanted[w]
Settled(w) == place[w] = wanted[w] /\ (jobs[w] # NoJob => shown[w] # "showing")

(* Its rule does not name an index, or is to leave it where it is.         *)
Stays(w) ==
    \/ Rule(w).action = "Nothing"
    \/ Rule(w).action \in {"Move", "UnpinAndMove"} /\ Rule(w).target = BeyondU32

ListedInv ==
    \A w \in todo : Chosen(w) =>
        /\ place[w] = info[w]
        /\ \/ Rule(w).action \in {"Move", "UnpinAndMove"} /\ wanted[w] = Rule(w).target
           \/ Stays(w) /\ batch.globally /\ wanted[w] = info[w]

PlaceInv ==
    /\ thread = "apply" =>
          /\ \A w \in todo : jobs[w] = NoJob
          /\ ListedInv
          /\ \A w \in Windows \ todo : Chosen(w) =>
                ToBeMoved(w) \/ (jobs[w] = NoJob /\ place[w] = wanted[w])
    /\ thread = "stopping" =>
          \A w \in Windows : Chosen(w) =>
              IF future[w] = "none" THEN Settled(w) ELSE ToBeMoved(w)
    /\ thread \notin {"apply", "stopping"} =>
          \A w \in Windows : jobs[w] = NoJob /\ (Chosen(w) => place[w] = wanted[w])

IInv == TypeOK /\ OrderInv /\ QueuedInv /\ HiddenInv /\ PlaceInv
-----------------------------------------------------------------------------
(* Types.                                                                  *)
LEMMA BatchTypes ==
    ASSUME NEW b \in Batches, NEW request \in Requests
    PROVE  QueueAction(b, request) \in Batches
  BY DEF QueueAction, Batches, Requests

LEMMA InfoTypes == ASSUME TypeOK, NEW w \in Windows PROVE Info(w) \in Infos
  BY DEF TypeOK, Info, Infos

LEMMA RuleTypes == ASSUME TypeOK, NEW w \in Windows PROVE Rule(w) \in Rules
  BY DEF TypeOK, Rule, Rules, Actions, Batches, Filters

LEMMA WantedTypes == ASSUME TypeOK, NEW w \in Windows PROVE Wanted(w) \in Desktops \cup {NoTarget}
  BY RuleTypes DEF TypeOK, Wanted, Rules

LEMMA JobTypes ==
    ASSUME TypeOK, NEW w \in Windows
    PROVE  /\ \A d \in Desktops \cup {Missing} : ByIndex(d) \in Targets
           /\ GlobalJob(w) \in Jobs /\ StayJob \in Jobs
           /\ jobs[w] \notin {NoJob, NoTarget} => jobs[w] \in Targets
  BY FiltersAssumption
  DEF TypeOK, ByIndex, ByGuid, Targets, Jobs, GlobalJob, StayJob, AtDesktop, Infos

(* A job is neither of the two that have no desktop.                       *)
LEMMA TargetIsAJob ==
    ASSUME NEW t \in Targets PROVE t # NoJob /\ t # NoTarget
  BY FiltersAssumption DEF Targets

LEMMA InitTypes == ASSUME Init PROVE TypeOK
  BY FiltersAssumption
  DEF Init, TypeOK, ThreadStates, FutureStates, ShownStates, EmptyBatch, Batches, NoInfo, Infos,
      NoJobs, Jobs, NowhereWanted

LEMMA UiTypes == ASSUME TypeOK, UiSteps PROVE TypeOK'
<1>. USE FiltersAssumption
<1>1. ASSUME NEW r \in Requests, Send(r) PROVE TypeOK'
  BY <1>1 DEF TypeOK, Send, ThreadStates, worker, futures, world
<1>2. ASSUME NEW rules \in RuleLists, NEW stop \in BOOLEAN, RequestFilters(rules, stop) PROVE TypeOK'
  <2>1. [filters |-> [rev |-> requests + 1, rules |-> rules], stop |-> stop] \in Requests
    BY DEF TypeOK, Requests, Filters
  <2>. QED  BY <1>1, <1>2, <2>1 DEF RequestFilters
<1>3. CASE RequestStop
  <2>1. StopFlashingWindows \in Requests
    BY DEF StopFlashingWindows, Requests
  <2>. QED  BY <1>1, <1>3, <2>1 DEF RequestStop
<1>4. CASE DropSender
  BY <1>4 DEF TypeOK, DropSender, worker, futures, world, counts, history
<1>5. CASE Join
  BY <1>5 DEF TypeOK, Join, worker, futures, world, counts, history
<1>. QED  BY <1>2, <1>3, <1>4, <1>5 DEF UiSteps

LEMMA ThreadTypes ==
    ASSUME TypeOK, Recv \/ TryRecv \/ Leave \/ ListWindows \/ StopFlashing \/ EndStopping
    PROVE  TypeOK'
<1>. USE FiltersAssumption
<1>0. EmptyBatch \in Batches
  BY DEF EmptyBatch, Batches
<1>q. queue # <<>> => Head(queue) \in Requests /\ Tail(queue) \in Seq(Requests)
  BY DEF TypeOK
<1>1. CASE Recv
  BY <1>0, <1>1, <1>q, BatchTypes
  DEF TypeOK, Recv, ThreadStates, NoInfo, Infos, NowhereWanted, futures, world, counts
<1>2. CASE TryRecv
  BY <1>2, <1>q, BatchTypes DEF TypeOK, TryRecv, futures, world, counts, history
<1>3. CASE Leave
  BY <1>0, <1>3 DEF TypeOK, Leave, ThreadStates, futures, world, counts, history
<1>4. CASE ListWindows
  <2>1. info' \in [Windows -> Infos]
    BY <1>4, InfoTypes DEF ListWindows, Infos
  <2>2. wanted' \in [Windows -> Desktops \cup {NoTarget}]
    BY <1>4, WantedTypes DEF ListWindows
  <2>. QED  BY <1>4, <2>1, <2>2 DEF TypeOK, ListWindows, ThreadStates, futures, world, counts
<1>5. CASE StopFlashing
  BY <1>5 DEF TypeOK, StopFlashing, ThreadStates, FutureStates, world, counts, history
<1>6. CASE EndStopping
  BY <1>0, <1>6
  DEF TypeOK, EndStopping, AllDone, ThreadStates, NoJobs, Jobs, world, counts, history
<1>. QED  BY <1>1, <1>2, <1>3, <1>4, <1>5, <1>6

(* What a step of the loop over the windows may do.                        *)
LEMMA ApplyTypes ==
    ASSUME TypeOK, NEW w \in Windows, ApplyRule(w) PROVE TypeOK'
<1>. USE FiltersAssumption
<1>1. thread = "apply" /\ Consider(w)
  BY DEF ApplyRule, LeaveWindow, MoveWindow, UnpinAndMoveWindow, UnpinWindow, PinWindow, Consider
<1>2. ASSUME NEW job \in Jobs, Job(w, job) PROVE jobs' \in [Windows -> Jobs]
  BY <1>2 DEF TypeOK, Job
<1>3. NotMoved => place' \in [Windows -> Desktops] /\ wanted' \in [Windows -> Desktops \cup {NoTarget}]
  BY DEF TypeOK, NotMoved
<1>4. Excuse(w) => wanted' \in [Windows -> Desktops \cup {NoTarget}]
  BY DEF TypeOK, Excuse
<1>5. ASSUME NEW d \in Desktops \cup {Missing, BeyondU32}, MoveToTarget(w, d)
      PROVE  /\ jobs' \in [Windows -> Jobs] /\ place' \in [Windows -> Desktops]
             /\ wanted' \in [Windows -> Desktops \cup {NoTarget}]
  <2>1. NoJob \in Jobs /\ GlobalJob(w) \in Jobs /\ (d # BeyondU32 => ByIndex(d) \in Jobs)
    BY JobTypes DEF Jobs
  <2>2. jobs' \in [Windows -> Jobs]
    BY <1>2, <1>5, <2>1 DEF MoveToTarget
  <2>3. NotMoved \/ MoveOrRefuse(w, d)
    BY <1>5 DEF MoveToTarget
  <2>4. CASE NotMoved
    BY <1>3, <2>2, <2>4
  <2>5. CASE MoveOrRefuse(w, d)
    <3>1. CASE d \in Desktops /\ place' = [place EXCEPT ![w] = d] /\ UNCHANGED wanted
      BY <2>2, <3>1 DEF TypeOK
    <3>2. CASE Excuse(w) /\ UNCHANGED place
      BY <1>4, <2>2, <3>2 DEF TypeOK
    <3>. QED  BY <2>5, <3>1, <3>2 DEF MoveOrRefuse, CanMove
  <2>. QED  BY <2>3, <2>4, <2>5
<1>6. pin' \in [Windows -> {"no", "window", "app"}]
  BY DEF TypeOK, ApplyRule, LeaveWindow, MoveWindow, UnpinAndMoveWindow, UnpinWindow, PinWindow,
         Unpinned, StaysPinned, NotPinned
<1>7. /\ jobs' \in [Windows -> Jobs] /\ place' \in [Windows -> Desktops]
      /\ wanted' \in [Windows -> Desktops \cup {NoTarget}]
  <2>0. Rule(w).target \in Desktops \cup {Missing, BeyondU32}
    BY RuleTypes DEF Rules
  <2>1. CASE LeaveWindow(w)
    BY <1>2, <1>3, <2>1, JobTypes DEF LeaveWindow
  <2>2. CASE MoveWindow(w)
    BY <1>5, <2>0, <2>2 DEF MoveWindow
  <2>3. CASE UnpinAndMoveWindow(w)
    BY <1>2, <1>4, <1>5, <2>0, <2>3, JobTypes DEF UnpinAndMoveWindow, TypeOK
  <2>4. CASE UnpinWindow(w)
    BY <1>2, <1>3, <2>4, JobTypes DEF UnpinWindow
  <2>5. CASE PinWindow(w)
    BY <1>2, <1>3, <2>5, JobTypes DEF PinWindow
  <2>. QED  BY <2>1, <2>2, <2>3, <2>4, <2>5 DEF ApplyRule
<1>8. \A v \in Windows : future'[v] = "none"
  BY <1>1 DEF TypeOK, Consider, futures
<1>. QED  BY <1>1, <1>6, <1>7, <1>8 DEF TypeOK, Consider, futures, counts

LEMMA FutureTypes ==
    ASSUME TypeOK, NEW w \in Windows, FutureStep(w) PROVE TypeOK'
<1>. USE FiltersAssumption
<1>1. PICK at \in FutureStates \ {"none"}, next \in FutureStates : Resume(w, at, next)
  BY DEF FutureStep, Start, Hide, StillHiding, ShowAgain, PlacedRight, TryToPlace, AfterAttempt,
         FutureStates
<1>2. thread = "stopping" /\ jobs[w] # NoJob
  BY <1>1 DEF Resume, TypeOK
<1>4. place' \in [Windows -> Desktops]
  BY DEF FutureStep, Start, Hide, StillHiding, ShowAgain, PlacedRight, TryToPlace, CanMove, TypeOK
<1>5. wanted' \in [Windows -> Desktops \cup {NoTarget}]
  BY DEF FutureStep, Start, Hide, StillHiding, ShowAgain, PlacedRight, TryToPlace, Excuse, TypeOK
<1>6. shown' \in [Windows -> ShownStates]
  BY ZenonT(30) DEF FutureStep, Start, Hide, StillHiding, ShowAgain, PlacedRight, TryToPlace,
                    ShowWindow, TypeOK, ShownStates
<1>7. tries' \in [Windows -> Nat]
  BY DEF FutureStep, Start, Hide, StillHiding, ShowAgain, PlacedRight, TryToPlace, TypeOK
<1>8. next = "placing" => jobs[w] # NoTarget
  BY <1>1 DEF FutureStep, Start, Hide, StillHiding, ShowAgain, PlacedRight, TryToPlace, Resume, TypeOK
<1>. QED  BY <1>1, <1>2, <1>4, <1>5, <1>6, <1>7, <1>8 DEF TypeOK, Resume, worker, counts

LEMMA LoseTypes ==
    ASSUME TypeOK, NEW w \in Windows, LoseDelay(w) PROVE TypeOK'
  BY FiltersAssumption DEF LoseDelay, TypeOK, worker, world, history

LEMMA EnvironmentTypes ==
    ASSUME TypeOK, Environment PROVE TypeOK'
<1>. USE FiltersAssumption
<1>1. PICK w \in Windows :
          Hides(w) \/ Withdraw(w) \/ ShowItself(w) \/ \E d \in Desktops : Appears(w, d) \/ UserMoves(w, d)
  BY DEF Environment
<1>2. shown' \in [Windows -> ShownStates]
  BY <1>1 DEF Hides, Withdraw, ShowItself, Appears, UserMoves, TypeOK, ShownStates
<1>3. place' \in [Windows -> Desktops]
  BY <1>1 DEF Hides, Withdraw, ShowItself, Appears, UserMoves, TypeOK
<1>4. wanted' \in [Windows -> Desktops \cup {NoTarget}]
  BY <1>1 DEF Hides, Withdraw, ShowItself, Appears, UserMoves, Excuse, TypeOK
<1>5. events' \in 0..MaxEvents
  BY <1>1 DEF Hides, Withdraw, ShowItself, Appears, UserMoves, TypeOK
<1>6. Untouched
  BY <1>1 DEF Hides, Withdraw, ShowItself, Appears, UserMoves
<1>. QED  BY <1>2, <1>3, <1>4, <1>5, <1>6 DEF Untouched, TypeOK, worker, futures

LEMMA TypesStep == ASSUME TypeOK, [Next]_vars PROVE TypeOK'
<1>1. CASE UNCHANGED vars
  BY <1>1 DEF vars, TypeOK
<1>. QED
  BY <1>1, UiTypes, ThreadTypes, ApplyTypes, FutureTypes, LoseTypes, EnvironmentTypes
  DEF Next, ThreadSteps
-----------------------------------------------------------------------------
(* Requests: the queue is in the order in which lists were sent.           *)
LEMMA QueueOrder ==
    ASSUME TypeOK, OrderInv, queue' = Tail(queue), queue # <<>>, UNCHANGED requests,
           batch' = EmptyBatch \/ batch' = QueueAction(EmptyBatch, Head(queue))
               \/ batch' = QueueAction(batch, Head(queue))
    PROVE  OrderInv'
<1>1. /\ Head(queue) = queue[1] /\ 1 \in DOMAIN queue
      /\ \A i \in DOMAIN queue' : i + 1 \in DOMAIN queue /\ queue'[i] = queue[i + 1] /\ 1 < i + 1
  BY HeadTailProperties DEF TypeOK
<1>2. \A i \in DOMAIN queue : queue[i] \in Requests
  BY DEF TypeOK
<1>3. batch'.filters \in {NoFilters, batch.filters, queue[1].filters}
  <2>1. ASSUME NEW b \in Batches PROVE QueueAction(b, queue[1]).filters \in {b.filters, queue[1].filters}
    BY DEF QueueAction, Batches
  <2>2. EmptyBatch \in Batches /\ EmptyBatch.filters = NoFilters /\ batch \in Batches
    BY DEF EmptyBatch, Batches, TypeOK
  <2>. QED  BY <1>1, <2>1, <2>2
<1>4. \A i \in DOMAIN queue' : queue'[i].filters # NoFilters =>
          /\ Newest(batch', queue'[i].filters.rev)
          /\ queue'[i].filters.rev <= requests'
  BY <1>1, <1>2, <1>3 DEF OrderInv, Newest
<1>5. \A i, j \in DOMAIN queue' :
          queue'[i].filters # NoFilters /\ i < j /\ queue'[j].filters # NoFilters =>
              queue'[i].filters.rev <= queue'[j].filters.rev
  <2>. SUFFICES ASSUME NEW i \in DOMAIN queue', NEW j \in DOMAIN queue', i < j,
                       queue'[i].filters # NoFilters, queue'[j].filters # NoFilters
                PROVE  queue'[i].filters.rev <= queue'[j].filters.rev
    OBVIOUS
  <2>1. i \in Nat /\ j \in Nat /\ i + 1 < j + 1
    BY DEF TypeOK
  <2>. QED  BY <1>1, <2>1 DEF OrderInv
<1>6. Newest(batch', requests')
  BY <1>1, <1>2, <1>3 DEF OrderInv, Newest
<1>. QED  BY <1>4, <1>5, <1>6 DEF OrderInv, Newest

(* What a batch serves it still serves with one more request, which it     *)
(* serves too: a newer list only replaces an older one.                    *)
LEMMA StillServes ==
    ASSUME NEW b \in Batches, NEW h \in Requests, NEW r \in Requests,
           h.filters # NoFilters => Newest(b, h.filters.rev),
           r = h \/ Serves(b, r)
    PROVE  Serves(QueueAction(b, h), r)
<1>. DEFINE q == QueueAction(b, h)
<1>1. CASE h.filters = NoFilters
  <2>1. q.globally = TRUE /\ q.filters = b.filters /\ q.stop_flashing = b.stop_flashing
    BY <1>1 DEF QueueAction, Batches
  <2>2. r.filters = NoFilters => Serves(q, r)
    BY <2>1 DEF Serves
  <2>3. r.filters # NoFilters => Serves(b, r)
    BY <1>1
  <2>. QED  BY <2>1, <2>2, <2>3 DEF Serves
<1>2. CASE h.filters # NoFilters
  <2>1. /\ q.filters = h.filters /\ q.globally = b.globally
        /\ h.stop \/ b.stop_flashing => q.stop_flashing
    BY <1>2 DEF QueueAction, Batches
  <2>2. h.filters.rev \in Nat
    BY <1>2 DEF Requests, Filters
  <2>3. CASE r = h
    BY <1>2, <2>1, <2>2, <2>3 DEF Serves
  <2>4. CASE Serves(b, r) /\ r.filters = NoFilters
    BY <2>1, <2>4 DEF Serves
  <2>5. CASE Serves(b, r) /\ r.filters # NoFilters
    <3>1. /\ b.filters # NoFilters /\ b.filters.rev >= r.filters.rev
          /\ r.stop => b.stop_flashing
      BY <2>5 DEF Serves
    <3>2. b.filters.rev \in Nat /\ r.filters.rev \in Nat /\ b.filters.rev <= h.filters.rev
      BY <1>2, <2>5, <3>1 DEF Batches, Requests, Filters, Newest
    <3>. QED  BY <1>2, <2>1, <2>2, <2>5, <3>1, <3>2 DEF Serves
  <2>. QED  BY <2>3, <2>4, <2>5
<1>. QED  BY <1>1, <1>2

RequestsKept == OrderInv /\ QueuedInv

LEMMA SendKept ==
    ASSUME TypeOK, RequestsKept, NEW r \in Requests, Send(r),
           r.filters # NoFilters => r.filters.rev = requests + 1
    PROVE  RequestsKept'
<1>1. /\ queue' \in Seq(Requests) /\ Len(queue') = Len(queue) + 1
      /\ \A i \in DOMAIN queue : queue'[i] = queue[i]
      /\ queue'[Len(queue) + 1] = r
      /\ \A i \in DOMAIN queue' : i \in DOMAIN queue \/ i = Len(queue) + 1
  BY AppendProperties DEF Send, TypeOK
<1>2. /\ requests \in Nat /\ requests' = requests + 1 /\ batch' = batch
      /\ \A i \in DOMAIN queue : queue[i].filters # NoFilters => queue[i].filters.rev \in Nat
      /\ batch.filters # NoFilters => batch.filters.rev \in Nat
  <2>1. \A i \in DOMAIN queue : queue[i] \in Requests
    BY DEF TypeOK
  <2>2. batch \in Batches /\ requests \in Nat
    BY FiltersAssumption DEF TypeOK
  <2>. QED  BY <2>1, <2>2 DEF Send, Requests, Batches, Filters
<1>3. \A i \in DOMAIN queue : i < Len(queue) + 1 /\ ~(Len(queue) + 1 < i)
  BY DEF TypeOK
<1>4. OrderInv'
  BY <1>1, <1>2, <1>3 DEF RequestsKept, OrderInv, Newest
<1>5. QueuedInv'
  <2>1. \A q \in unserved' : q \in unserved \/ q = r
    BY DEF Send
  <2>2. \A i \in DOMAIN queue : i \in DOMAIN queue'
    BY <1>1 DEF TypeOK
  <2>3. Len(queue) + 1 \in DOMAIN queue'
    BY <1>1 DEF TypeOK
  <2>4. thread \in {"drain", "ended"} => thread' = thread
    BY DEF Send
  <2>. QED  BY <1>1, <1>2, <2>1, <2>2, <2>3, <2>4 DEF RequestsKept, QueuedInv, Serves
<1>. QED  BY <1>4, <1>5 DEF RequestsKept

LEMMA ReceiveKept ==
    ASSUME TypeOK, RequestsKept, Recv \/ TryRecv PROVE RequestsKept'
<1>1. /\ queue # <<>> /\ queue' = Tail(queue) /\ thread' = "drain" /\ unserved' = unserved
      /\ UNCHANGED requests
      /\ \/ thread = "recv" /\ batch' = QueueAction(EmptyBatch, Head(queue))
         \/ thread = "drain" /\ batch' = QueueAction(batch, Head(queue))
  BY DEF Recv, TryRecv, counts, history
<1>2. OrderInv'
  BY <1>1, QueueOrder DEF RequestsKept
<1>3. /\ Head(queue) = queue[1] /\ Head(queue) \in Requests
      /\ \A i \in DOMAIN queue : i = 1 \/ \E j \in DOMAIN Tail(queue) : Tail(queue)[j] = queue[i]
  <2>1. /\ Head(queue) = queue[1] /\ Len(Tail(queue)) = Len(queue) - 1
        /\ \A j \in DOMAIN Tail(queue) : Tail(queue)[j] = queue[j + 1]
    BY <1>1, HeadTailProperties DEF TypeOK
  <2>2. ASSUME NEW i \in DOMAIN queue, i # 1
        PROVE  \E j \in DOMAIN Tail(queue) : Tail(queue)[j] = queue[i]
    <3>1. PICK j : j = i - 1
      OBVIOUS
    <3>2. j \in DOMAIN Tail(queue) /\ j + 1 = i
      BY <1>1, <2>1, <2>2, <3>1 DEF TypeOK
    <3>. QED  BY <2>1, <3>2
  <2>. QED  BY <1>1, <2>1, <2>2 DEF TypeOK
<1>4. ASSUME NEW r \in unserved
      PROVE  (\E i \in DOMAIN queue' : queue'[i] = r) \/ Serves(batch', r)
  <2>1. EmptyBatch \in Batches /\ batch \in Batches /\ r \in Requests
    BY DEF EmptyBatch, Batches, TypeOK
  <2>2. Head(queue).filters # NoFilters =>
            Newest(batch, Head(queue).filters.rev) /\ Newest(EmptyBatch, Head(queue).filters.rev)
    BY <1>1, <1>3 DEF RequestsKept, OrderInv, Newest, EmptyBatch, TypeOK
  <2>3. CASE r = Head(queue)
    BY <1>1, <1>3, <2>1, <2>2, <2>3, StillServes
  <2>4. CASE \E i \in DOMAIN queue : queue[i] = r /\ r # Head(queue)
    BY <1>1, <1>3, <2>4
  <2>5. CASE thread = "drain" /\ Serves(batch, r)
    BY <1>1, <1>3, <2>1, <2>2, <2>5, StillServes
  <2>. QED  BY <1>1, <2>3, <2>4, <2>5 DEF RequestsKept, QueuedInv
<1>5. QueuedInv'
  BY <1>1, <1>4 DEF QueuedInv
<1>. QED  BY <1>2, <1>5 DEF RequestsKept

LEMMA RequestsStep == ASSUME TypeOK, RequestsKept, [Next]_vars PROVE RequestsKept'
<1>1. CASE UiSteps
  <2>1. ASSUME NEW rules \in RuleLists, NEW stop \in BOOLEAN, RequestFilters(rules, stop)
        PROVE  RequestsKept'
    <3>. DEFINE r == [filters |-> [rev |-> requests + 1, rules |-> rules], stop |-> stop]
    <3>1. r \in Requests
      BY FiltersAssumption DEF TypeOK, Requests, Filters
    <3>. QED  BY <2>1, <3>1, SendKept DEF RequestFilters
  <2>2. CASE RequestStop
    <3>1. StopFlashingWindows \in Requests /\ StopFlashingWindows.filters = NoFilters
      BY DEF StopFlashingWindows, Requests
    <3>. QED  BY <2>2, <3>1, SendKept DEF RequestStop
  <2>3. CASE DropSender \/ Join
    BY <2>3 DEF DropSender, Join, RequestsKept, OrderInv, QueuedInv, Newest, Serves,
                worker, counts, history
  <2>. QED  BY <1>1, <2>1, <2>2, <2>3 DEF UiSteps
<1>2. CASE Recv \/ TryRecv
  BY <1>2, ReceiveKept
<1>3. CASE Leave
  BY <1>3 DEF Leave, RequestsKept, OrderInv, QueuedInv, Newest, EmptyBatch, counts, history
<1>4. CASE ListWindows
  BY <1>4 DEF ListWindows, RequestsKept, OrderInv, QueuedInv, Newest, counts
<1>5. CASE StopFlashing
  BY <1>5 DEF StopFlashing, RequestsKept, OrderInv, QueuedInv, Newest, Serves, counts, history
<1>6. CASE EndStopping
  BY <1>6 DEF EndStopping, RequestsKept, OrderInv, QueuedInv, Newest, EmptyBatch, counts, history
<1>7. CASE UNCHANGED <<thread, queue, batch, requests, unserved>>
  BY <1>7 DEF RequestsKept, OrderInv, QueuedInv, Newest, Serves
<1>8. ASSUME NEW w \in Windows, ApplyRule(w) \/ FutureStep(w) \/ LoseDelay(w)
      PROVE  UNCHANGED <<thread, queue, batch, requests, unserved>>
  BY <1>8
  DEF ApplyRule, LeaveWindow, MoveWindow, UnpinAndMoveWindow, UnpinWindow, PinWindow, Consider,
      FutureStep, Start, Hide, StillHiding, ShowAgain, PlacedRight, TryToPlace, Resume, LoseDelay,
      worker, counts, history
<1>9. CASE Environment
  BY <1>7, <1>9
  DEF Environment, Hides, Withdraw, ShowItself, Appears, UserMoves, Untouched, worker
<1>10. CASE UNCHANGED vars
  BY <1>7, <1>10 DEF vars
<1>. QED
  BY <1>1, <1>2, <1>3, <1>4, <1>5, <1>6, <1>7, <1>8, <1>9, <1>10 DEF Next, ThreadSteps
-----------------------------------------------------------------------------
(* Windows that the program hides, and the exit.                           *)
LEMMA HiddenStep == ASSUME TypeOK, HiddenInv, [Next]_vars PROVE HiddenInv'
<1>1. CASE UiSteps
  BY <1>1
  DEF UiSteps, RequestFilters, RequestStop, Send, DropSender, Join, HiddenInv, HiddenByUs,
      worker, futures, world
<1>2. CASE Recv \/ TryRecv \/ Leave \/ ListWindows
  BY <1>2
  DEF Recv, TryRecv, Leave, ListWindows, HiddenInv, HiddenByUs, futures, world
<1>3. CASE StopFlashing
  BY <1>3 DEF StopFlashing, HiddenInv, HiddenByUs, TypeOK, world
<1>4. CASE EndStopping
  BY <1>4 DEF EndStopping, HiddenInv, HiddenByUs, world
<1>5. ASSUME NEW w \in Windows, ApplyRule(w) PROVE HiddenInv'
  BY <1>5
  DEF ApplyRule, LeaveWindow, MoveWindow, UnpinAndMoveWindow, UnpinWindow, PinWindow, Consider,
      HiddenInv, HiddenByUs, futures
<1>6. ASSUME NEW w \in Windows, FutureStep(w) PROVE HiddenInv'
  <2>1. ui' = ui /\ thread' = thread
    BY <1>6
    DEF FutureStep, Start, Hide, StillHiding, ShowAgain, PlacedRight, TryToPlace, Resume, worker
  <2>2. \A v \in Windows \ {w} : shown'[v] = shown[v] /\ future'[v] = future[v]
    BY <1>6
    DEF FutureStep, Start, Hide, StillHiding, ShowAgain, PlacedRight, TryToPlace, Resume,
        ShowWindow, TypeOK
  <2>3. shown'[w] \in {"hiding", "hidden"} => future'[w] = "hiding"
    BY <1>6
    DEF FutureStep, Start, Hide, StillHiding, ShowAgain, PlacedRight, TryToPlace, Resume,
        ShowWindow, TypeOK, HiddenInv, HiddenByUs
  <2>. QED  BY <2>1, <2>2, <2>3 DEF HiddenInv, HiddenByUs
<1>7. CASE Environment
  BY <1>7
  DEF Environment, Hides, Withdraw, ShowItself, Appears, UserMoves, Untouched, HiddenInv, HiddenByUs,
      worker, futures, TypeOK
<1>8. ASSUME NEW w \in Windows, LoseDelay(w) PROVE HiddenInv'
  BY <1>8 DEF LoseDelay, HiddenInv, HiddenByUs, worker, world
<1>9. CASE UNCHANGED vars
  BY <1>9 DEF vars, HiddenInv, HiddenByUs
<1>. QED  BY <1>1, <1>2, <1>3, <1>4, <1>5, <1>6, <1>7, <1>8, <1>9 DEF Next, ThreadSteps
-----------------------------------------------------------------------------
(* Places, in the loop over the windows.                                   *)
LEMMA ListedPlace ==
    ASSUME TypeOK, PlaceInv, ListWindows PROVE PlaceInv'
<1>1. /\ thread' = "apply" /\ todo' \subseteq Windows /\ UNCHANGED <<batch, jobs, place>>
      /\ \A w \in Windows : jobs[w] = NoJob
  BY DEF ListWindows, PlaceInv, world
<1>2. ASSUME NEW w \in Windows \ todo' PROVE ~AtDesktop(w)'
  BY <1>2, FiltersAssumption DEF ListWindows, AtDesktop
<1>3. ASSUME NEW w \in todo', Chosen(w)'
      PROVE  /\ place'[w] = info'[w]
             /\ \/ Rule(w)'.action \in {"Move", "UnpinAndMove"} /\ wanted'[w] = Rule(w)'.target
                \/ Stays(w)' /\ batch'.globally /\ wanted'[w] = info'[w]
  <2>1. w \in Windows /\ info'[w] = Info(w) /\ wanted'[w] = Wanted(w) /\ Rule(w)' = Rule(w)
    BY <1>1, <1>3 DEF ListWindows, Rule
  <2>2. Info(w) \in Desktops /\ Wanted(w) # NoTarget
    BY <1>3, <2>1 DEF Chosen, AtDesktop
  <2>3. pin[w] = "no" /\ Info(w) = place[w]
    BY <2>1, <2>2, FiltersAssumption DEF Info, TypeOK
  <2>4. \/ Rule(w).action \in {"Move", "UnpinAndMove"} /\ wanted'[w] = Rule(w).target
        \/ Stays(w) /\ batch.globally /\ wanted'[w] = place[w]
    BY <2>1, <2>2, <2>3 DEF Wanted, Stays
  <2>. QED  BY <1>1, <2>1, <2>2, <2>3, <2>4 DEF Stays
<1>. QED  BY <1>1, <1>2, <1>3 DEF PlaceInv, ListedInv, Chosen

LEMMA AppliedPlace ==
    ASSUME TypeOK, PlaceInv, NEW w \in Windows, ApplyRule(w) PROVE PlaceInv'
<1>1. /\ thread = "apply" /\ w \in todo /\ todo' = todo \ {w} /\ todo \subseteq Windows
      /\ UNCHANGED <<thread, batch, info>>
  BY DEF TypeOK, ApplyRule, LeaveWindow, MoveWindow, UnpinAndMoveWindow, UnpinWindow, PinWindow,
         Consider
<1>2. \A v \in Windows \ {w} : jobs'[v] = jobs[v] /\ place'[v] = place[v] /\ wanted'[v] = wanted[v]
  BY DEF TypeOK, ApplyRule, LeaveWindow, MoveWindow, UnpinAndMoveWindow, UnpinWindow, PinWindow,
         MoveToTarget, MoveOrRefuse, CanMove, Job, Excuse, NotMoved
<1>3. ASSUME Chosen(w)' PROVE ToBeMoved(w)' \/ (jobs'[w] = NoJob /\ place'[w] = wanted'[w])
  <2>1. info[w] \in Desktops /\ wanted'[w] # NoTarget
    BY <1>1, <1>3 DEF Chosen, AtDesktop
  <2>2. wanted'[w] = wanted[w]
    BY <2>1
    DEF TypeOK, ApplyRule, LeaveWindow, MoveWindow, UnpinAndMoveWindow, UnpinWindow, PinWindow,
        MoveToTarget, MoveOrRefuse, CanMove, Job, Excuse, NotMoved
  <2>3. /\ place[w] = info[w]
        /\ \/ Rule(w).action \in {"Move", "UnpinAndMove"} /\ wanted[w] = Rule(w).target
           \/ Stays(w) /\ batch.globally /\ wanted[w] = info[w]
    BY <1>1, <2>1, <2>2 DEF PlaceInv, ListedInv, Chosen, AtDesktop
  <2>4. info[w] \notin {"AppPinned", "WindowPinned"}
    BY <2>1, FiltersAssumption
  <2>5. wanted[w] \in Desktops
    BY <2>1, <2>2 DEF TypeOK
  <2>6. \A job : Job(w, job) => jobs'[w] = job
    BY DEF Job, TypeOK
  <2>7. \A d \in Desktops : /\ ByIndex(d) \in Targets /\ ByIndex(d).desktop = d
                            /\ ByGuid(d) \in Targets /\ ByGuid(d).desktop = d
    BY DEF ByIndex, ByGuid, Targets
  <2>8. ASSUME Rule(w).action \in {"Move", "UnpinAndMove"}
        PROVE  MoveToTarget(w, Rule(w).target)
    <3>1. CASE MoveWindow(w)
      BY <3>1 DEF MoveWindow
    <3>2. CASE UnpinAndMoveWindow(w)
      BY <2>4, <3>2 DEF UnpinAndMoveWindow, StaysPinned
    <3>. QED  BY <2>4, <2>8, <3>1, <3>2 DEF ApplyRule, LeaveWindow, UnpinWindow, PinWindow
  <2>9. CASE Rule(w).action \in {"Move", "UnpinAndMove"} /\ wanted[w] = Rule(w).target
    <3>. DEFINE d == Rule(w).target
    <3>1. /\ MoveToTarget(w, d) /\ AtDesktop(w) /\ d \in Desktops /\ wanted'[w] = d
          /\ d # BeyondU32
      BY <2>1, <2>2, <2>5, <2>8, <2>9, FiltersAssumption DEF AtDesktop
    <3>2. CASE Job(w, ByIndex(d))
      BY <2>6, <2>7, <3>1, <3>2 DEF ToBeMoved
    <3>3. CASE Job(w, NoJob) /\ NotMoved /\ info[w] = d
      BY <2>3, <2>6, <3>1, <3>3 DEF NotMoved
    <3>4. CASE Job(w, NoJob) /\ MoveOrRefuse(w, d)
      <4>1. place'[w] = d
        BY <2>1, <3>4 DEF MoveOrRefuse, CanMove, Excuse, TypeOK
      <4>. QED  BY <2>6, <3>1, <3>4, <4>1
    <3>. QED  BY <3>1, <3>2, <3>3, <3>4 DEF MoveToTarget
  <2>10. CASE Stays(w) /\ batch.globally /\ wanted[w] = info[w]
    <3>0. /\ Job(w, GlobalJob(w))
          /\ place'[w] = place[w]
      <4>1. CASE Rule(w).action = "Nothing"
        BY <4>1 DEF ApplyRule, LeaveWindow, MoveWindow, UnpinAndMoveWindow, UnpinWindow, PinWindow,
                    NotMoved
      <4>2. CASE Rule(w).action \in {"Move", "UnpinAndMove"} /\ Rule(w).target = BeyondU32
        BY <2>8, <4>2 DEF MoveToTarget, NotMoved
      <4>. QED  BY <2>10, <4>1, <4>2 DEF Stays
    <3>1. Job(w, GlobalJob(w))
      BY <3>0
    <3>2. GlobalJob(w) = ByGuid(info[w])
      BY <2>1, <2>10 DEF GlobalJob, AtDesktop
    <3>. QED  BY <2>1, <2>2, <2>6, <2>7, <2>10, <3>1, <3>2 DEF ToBeMoved
  <2>. QED  BY <2>3, <2>9, <2>10
<1>4. ASSUME NEW v \in Windows \ {w}
      PROVE  /\ Chosen(v)' <=> Chosen(v)
             /\ ToBeMoved(v)' <=> ToBeMoved(v)
  BY <1>1, <1>2 DEF Chosen, ToBeMoved, AtDesktop
<1>5. ASSUME NEW v \in todo', Chosen(v)'
      PROVE  /\ place'[v] = info'[v]
             /\ \/ Rule(v)'.action \in {"Move", "UnpinAndMove"} /\ wanted'[v] = Rule(v)'.target
                \/ Stays(v)' /\ batch'.globally /\ wanted'[v] = info'[v]
  <2>1. v \in Windows \ {w} /\ v \in todo /\ Rule(v)' = Rule(v) /\ (Stays(v)' <=> Stays(v))
    BY <1>1, <1>2, <1>5 DEF Rule, Stays
  <2>. QED  BY <1>1, <1>2, <1>4, <1>5, <2>1 DEF PlaceInv, ListedInv
<1>6. \A v \in todo' : jobs'[v] = NoJob
  BY <1>1, <1>2 DEF PlaceInv
<1>7. ASSUME NEW v \in Windows \ todo', Chosen(v)'
      PROVE  ToBeMoved(v)' \/ (jobs'[v] = NoJob /\ place'[v] = wanted'[v])
  BY <1>1, <1>2, <1>3, <1>4, <1>7 DEF PlaceInv
<1>. QED  BY <1>1, <1>5, <1>6, <1>7 DEF PlaceInv, ListedInv

(* Places, while the futures run.                                          *)
LEMMA StoppingPlace ==
    ASSUME TypeOK, PlaceInv, StopFlashing PROVE PlaceInv'
<1>1. /\ thread = "apply" /\ thread' = "stopping" /\ todo = {}
      /\ \A w \in Windows : future'[w] = IF jobs[w] = NoJob THEN "none" ELSE "start"
      /\ UNCHANGED <<jobs, shown, place, info, wanted>>
  BY DEF StopFlashing, world, history
<1>2. ASSUME NEW w \in Windows, Chosen(w)'
      PROVE  IF future'[w] = "none" THEN Settled(w)' ELSE ToBeMoved(w)'
  <2>1. ToBeMoved(w) \/ (jobs[w] = NoJob /\ place[w] = wanted[w])
    BY <1>1, <1>2 DEF PlaceInv, Chosen, AtDesktop
  <2>2. ToBeMoved(w) => jobs[w] # NoJob
    BY TargetIsAJob DEF ToBeMoved
  <2>. QED  BY <1>1, <2>1, <2>2 DEF ToBeMoved, Settled
<1>. QED  BY <1>1, <1>2 DEF PlaceInv

LEMMA FuturePlace ==
    ASSUME TypeOK, PlaceInv, NEW w \in Windows, FutureStep(w) PROVE PlaceInv'
<1>0. /\ UNCHANGED <<thread, jobs, info>> /\ future[w] # "none"
      /\ \A v \in Windows \ {w} : /\ future'[v] = future[v] /\ shown'[v] = shown[v]
                                  /\ place'[v] = place[v] /\ wanted'[v] = wanted[v]
  BY DEF FutureStep, Start, Hide, StillHiding, ShowAgain, PlacedRight, TryToPlace, Resume, Excuse,
         ShowWindow, worker, TypeOK
<1>1. thread = "stopping" /\ thread' = "stopping"
  BY <1>0 DEF TypeOK
<1>2. ASSUME NEW v \in Windows \ {w}, Chosen(v)'
      PROVE  IF future'[v] = "none" THEN Settled(v)' ELSE ToBeMoved(v)'
  BY <1>0, <1>1, <1>2 DEF PlaceInv, Chosen, AtDesktop, Settled, ToBeMoved
<1>3. ASSUME Chosen(w)'
      PROVE  IF future'[w] = "none" THEN Settled(w)' ELSE ToBeMoved(w)'
  <2>1. wanted'[w] # NoTarget /\ AtDesktop(w)
    BY <1>0, <1>3 DEF Chosen, AtDesktop
  <2>2. wanted'[w] = wanted[w] /\ ~Excuse(w)
    BY <2>1
    DEF FutureStep, Start, Hide, StillHiding, ShowAgain, PlacedRight, TryToPlace, Excuse, TypeOK
  <2>3. ToBeMoved(w)
    BY <1>0, <1>1, <2>1, <2>2 DEF PlaceInv, Chosen
  <2>4. ToBeMoved(w)' /\ jobs[w] # NoTarget /\ jobs[w] # NoJob
    BY <1>0, <2>2, <2>3, TargetIsAJob DEF ToBeMoved
  <2>5. future'[w] = "none" => place'[w] = wanted[w] /\ shown'[w] = "visible"
    <3>1. CASE Start(w) \/ Hide(w) \/ StillHiding(w) \/ ShowAgain(w)
      BY <2>2, <2>4, <3>1 DEF Start, Hide, StillHiding, ShowAgain, Resume, TypeOK
    <3>2. CASE PlacedRight(w)
      <4>1. jobs[w].desktop = place[w]
        BY <3>2 DEF PlacedRight, ByGuid
      <4>. QED  BY <2>3, <3>2, <4>1 DEF PlacedRight, ToBeMoved
    <3>3. CASE TryToPlace(w)
      BY <2>2, <2>3, <3>3 DEF TryToPlace, AfterAttempt, CanMove, Resume, ToBeMoved, TypeOK
    <3>. QED  BY <3>1, <3>2, <3>3 DEF FutureStep
  <2>. QED  BY <2>2, <2>4, <2>5 DEF Settled
<1>. QED  BY <1>1, <1>2, <1>3 DEF PlaceInv

(* Only a window that is shown again by its future may appear elsewhere    *)
(* without an excuse.                                                      *)
LEMMA EnvironmentPlace ==
    ASSUME TypeOK, PlaceInv, Environment PROVE PlaceInv'
<1>1. PICK w \in Windows :
          Hides(w) \/ Withdraw(w) \/ ShowItself(w) \/ \E d \in Desktops : Appears(w, d) \/ UserMoves(w, d)
  BY DEF Environment
<1>2. UNCHANGED <<thread, batch, todo, info, jobs, future>>
  BY <1>1 DEF Hides, Withdraw, ShowItself, Appears, UserMoves, Untouched, worker, futures
<1>3. \A v \in Windows \ {w} : shown'[v] = shown[v] /\ place'[v] = place[v] /\ wanted'[v] = wanted[v]
  BY <1>1 DEF Hides, Withdraw, ShowItself, Appears, UserMoves, Excuse, TypeOK
<1>4. wanted'[w] \in {wanted[w], NoTarget}
  BY <1>1 DEF Hides, Withdraw, ShowItself, Appears, UserMoves, Excuse, TypeOK
<1>5. shown'[w] = "showing" => shown[w] = "showing" /\ place'[w] = place[w]
  BY <1>1 DEF Hides, Withdraw, ShowItself, Appears, UserMoves, TypeOK
<1>6. wanted'[w] # NoTarget =>
          place'[w] = place[w] \/ (jobs[w] # NoJob /\ shown[w] = "showing")
  BY <1>1 DEF Hides, Withdraw, ShowItself, Appears, UserMoves, Excuse, TypeOK
<1>7. ASSUME NEW v \in Windows, Chosen(v)'
      PROVE  /\ Chosen(v) /\ wanted'[v] = wanted[v] /\ (ToBeMoved(v) => ToBeMoved(v)')
             /\ jobs[v] = NoJob => place'[v] = place[v] /\ Rule(v)' = Rule(v)
             /\ Settled(v) => Settled(v)'
  BY <1>2, <1>3, <1>4, <1>5, <1>6, <1>7 DEF Chosen, AtDesktop, ToBeMoved, Settled, Rule
<1>8. CASE thread = "apply"
  <2>1. ListedInv'
    BY <1>2, <1>7, <1>8 DEF PlaceInv, ListedInv, Stays, TypeOK
  <2>. QED  BY <1>2, <1>7, <1>8, <2>1 DEF PlaceInv
<1>9. CASE thread = "stopping"
  BY <1>2, <1>7, <1>9 DEF PlaceInv
<1>10. CASE thread \notin {"apply", "stopping"}
  BY <1>2, <1>7, <1>10 DEF PlaceInv
<1>. QED  BY <1>8, <1>9, <1>10

LEMMA PlaceStep == ASSUME TypeOK, PlaceInv, [Next]_vars PROVE PlaceInv'
<1>1. CASE UNCHANGED <<batch, todo, info, jobs, future, shown, place, wanted>>
           /\ (thread' = thread \/ {thread, thread'} \cap {"apply", "stopping"} = {})
  BY <1>1 DEF PlaceInv, ListedInv, Stays, Chosen, ToBeMoved, Settled, AtDesktop, Rule
<1>2. CASE UiSteps
  <2>1. UNCHANGED <<batch, todo, info, jobs, future, shown, place, wanted>>
        /\ (thread' = thread \/ {thread, thread'} \cap {"apply", "stopping"} = {})
    BY <1>2
    DEF UiSteps, RequestFilters, RequestStop, Send, DropSender, Join, worker, futures, world, history
  <2>. QED  BY <1>1, <2>1
<1>3. CASE Recv
  BY <1>3 DEF Recv, PlaceInv, Chosen, NowhereWanted, futures, world
<1>4. CASE TryRecv \/ Leave
  <2>1. /\ thread \notin {"apply", "stopping"} /\ thread' \notin {"apply", "stopping"}
        /\ UNCHANGED <<info, jobs, place, wanted>>
    BY <1>4 DEF TryRecv, Leave, world, history
  <2>. QED  BY <2>1 DEF PlaceInv, Chosen, AtDesktop
<1>5. CASE EndStopping
  BY <1>5
  DEF EndStopping, AllDone, PlaceInv, Settled, Chosen, AtDesktop, NoJobs, world, history
<1>6. CASE UNCHANGED vars
  BY <1>1, <1>6 DEF vars
<1>7. ASSUME NEW w \in Windows, LoseDelay(w) PROVE PlaceInv'
  BY <1>1, <1>7 DEF LoseDelay, worker, world, history
<1>. QED
  BY <1>2, <1>3, <1>4, <1>5, <1>6, <1>7, ListedPlace, AppliedPlace, StoppingPlace, FuturePlace,
     EnvironmentPlace
  DEF Next, ThreadSteps
-----------------------------------------------------------------------------
LEMMA InitInv == ASSUME Init PROVE IInv
<1>1. TypeOK
  BY InitTypes
<1>. QED
  BY <1>1
  DEF Init, IInv, OrderInv, QueuedInv, HiddenInv, PlaceInv, Newest, EmptyBatch, HiddenByUs, Chosen,
      NowhereWanted, NoJobs

(* The invariant everything else follows from.                             *)
THEOREM InductiveInvariant == Spec => []IInv
<1>1. Init => IInv
  BY InitInv
<1>2. IInv /\ [Next]_vars => IInv'
  BY TypesStep, RequestsStep, HiddenStep, PlaceStep DEF IInv, RequestsKept
<1>. QED  BY <1>1, <1>2, PTL DEF Spec

(* Types, and futures run only while the thread blocks on all of them      *)
(* (vd.rs:798).                                                            *)
THEOREM Types == Spec => []TypeOK
<1>1. IInv => TypeOK
  BY DEF IInv
<1>. QED  BY <1>1, InductiveInvariant, PTL

(* Merging requests loses none: when the thread waits for more, the newest *)
(* list and every wish to stop windows from flashing have been part of a   *)
(* batch, also that of a list that was replaced (apply_filters.rs:162-182).*)
THEOREM NoRequestLost == Spec => []NothingForgotten
<1>1. IInv => NothingForgotten
  BY DEF IInv, QueuedInv, NothingForgotten
<1>. QED  BY <1>1, InductiveInvariant, PTL

(* No window stays hidden when the program has exited, whatever the        *)
(* windows' programs do (apply_filters.rs:200-203, vd.rs:870).             *)
THEOREM NoWindowLeftHidden == Spec => []ExitShowsWindows
<1>1. IInv => ExitShowsWindows
  <2>. SUFFICES ASSUME IInv, ui = "closed", NEW w \in Windows PROVE ~HiddenByUs(w)
    BY DEF ExitShowsWindows
  <2>1. thread # "stopping"
    BY DEF IInv, HiddenInv
  <2>2. future[w] = "none"
    BY <2>1 DEF IInv, TypeOK
  <2>. QED  BY <2>2 DEF IInv, HiddenInv
<1>. QED  BY <1>1, InductiveInvariant, PTL

(* A window that had a desktop of its own ends up on the one its rule      *)
(* names, or where it was, unless somebody else moved or hid it, or the    *)
(* move at once or the last of its attempts fails, as it is still not      *)
(* there or Windows refuses (apply_filters.rs:63-81, vd.rs:946-997).       *)
THEOREM InPlace == Spec => []WindowsWhereWanted
<1>1. IInv => WindowsWhereWanted
  BY DEF IInv, PlaceInv, WindowsWhereWanted, Chosen
<1>. QED  BY <1>1, InductiveInvariant, PTL
=============================================================================
