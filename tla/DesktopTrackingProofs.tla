----------------------- MODULE DesktopTrackingProofs -----------------------
(***************************************************************************)
(* DesktopTracking for any set of desktops and any number of changes: the  *)
(* number of desktops and the icon are right, or an event is on its way,   *)
(* or was dropped by a rebuild, or Windows did not tell.                   *)
(*                                                                         *)
(* Neither invariant is inductive.  A rebuild shows the cached index, and  *)
(* events drop from the queue's front, so what the last event in the queue *)
(* says matters: it is about the current desktop, unless an index is       *)
(* excused.  The history variable takes an excuse back only when nothing   *)
(* that is queued could make the index wrong again.                        *)
(***************************************************************************)
EXTENDS DesktopTracking, SequenceTheorems, TLAPS

Events ==
    [kind : {"created", "destroyed"}, desktop : Ids, index : Nat]
    \cup [kind : {"changed"}, desktop : Ids, index : Nat \ {0}]

IndexExcused == excused \cap IndexExcuses # {}

StartInv ==
    /\ events \in Seq(Events)
    /\ phase = "starting" => {"count", "index"} \subseteq excused
    /\ phase # "running" => ~listening /\ events = <<>>

CountInv ==
    phase # "starting" /\ ~library /\ desktop_count # Count
        => Pending({"created", "destroyed"}) \/ excused \cap CountExcuses # {}

IndexInv ==
    /\ phase # "starting" /\ desktop_index # Index(current)
           => Pending({"changed"}) \/ IndexExcused
    /\ IconTracksSwitches

(* The last event about a switch. *)
LastChanged(i) ==
    /\ i \in DOMAIN events /\ events[i].kind = "changed"
    /\ \A j \in DOMAIN events : j > i => events[j].kind # "changed"

LastInv ==
    \A i \in DOMAIN events :
        LastChanged(i) =>
            \/ events[i].desktop = current /\ (library => events[i].index = Index(current))
            \/ IndexExcused

IInv == TypeOK /\ StartInv /\ CountInv /\ IndexInv /\ LastInv
-----------------------------------------------------------------------------
(* What makes a count wrong and what makes an index wrong.                 *)
LEMMA ExcuseFacts ==
    /\ CountExcuses \cap IndexExcuses = {}
    /\ CountExcuses \subseteq Excuses /\ IndexExcuses \subseteq Excuses
    /\ {"count", "count dropped"} \subseteq CountExcuses
    /\ {"index", "index dropped", "shift"} \subseteq IndexExcuses
  BY DEF CountExcuses, IndexExcuses, Excuses

LEMMA IndexFacts ==
    ASSUME NEW list \in Seq(Ids), NEW d \in Ids, \E i \in DOMAIN list : list[i] = d
    PROVE  IndexIn(d, list) \in 1..Len(list) /\ list[IndexIn(d, list)] = d
  BY DEF IndexIn

(* What is left when the element at a position is removed.                 *)
LEMMA RemoveAtFacts ==
    ASSUME NEW s \in Seq(Ids), NEW k \in 1..Len(s)
    PROVE  /\ RemoveAt(s, k) \in Seq(Ids) /\ Len(RemoveAt(s, k)) = Len(s) - 1
           /\ \A i \in 1..Len(s) : i # k => \E j \in 1..(Len(s) - 1) : RemoveAt(s, k)[j] = s[i]
<1>. DEFINE a == SubSeq(s, 1, k - 1)
            b == SubSeq(s, k + 1, Len(s))
<1>1. /\ a \in Seq(Ids) /\ Len(a) = k - 1
      /\ \A i \in 1..(k - 1) : a[i] = s[i]
  BY SubSeqProperties
<1>2. /\ b \in Seq(Ids) /\ Len(b) = Len(s) - k
      /\ \A i \in 1..(Len(s) - k) : b[i] = s[k + i]
  BY SubSeqProperties
<1>. HIDE DEF a, b
<1>3. /\ a \o b \in Seq(Ids) /\ Len(a \o b) = Len(s) - 1
      /\ \A i \in 1..(Len(s) - 1) : (a \o b)[i] = IF i <= k - 1 THEN a[i] ELSE b[i - (k - 1)]
  BY <1>1, <1>2, ConcatProperties
<1>4. ASSUME NEW i \in 1..Len(s), i # k PROVE \E j \in 1..(Len(s) - 1) : (a \o b)[j] = s[i]
  <2>1. CASE i < k
    <3>1. i \in 1..(Len(s) - 1) /\ i \in 1..(k - 1)
      BY <2>1
    <3>2. (a \o b)[i] = s[i]
      BY <1>1, <1>3, <3>1
    <3>. QED  BY <3>1, <3>2
  <2>2. CASE i > k
    <3>1. PICK j \in 1..(Len(s) - 1) : j = i - 1
      BY <2>2
    <3>2. ~(j <= k - 1) /\ j - (k - 1) \in 1..(Len(s) - k) /\ k + (j - (k - 1)) = i
      BY <2>2, <3>1
    <3>3. (a \o b)[j] = s[i]
      BY <1>2, <1>3, <3>2
    <3>. QED  BY <3>3
  <2>3. i < k \/ i > k
    BY <1>4
  <2>. QED  BY <2>1, <2>2, <2>3, Zenon
<1>5. RemoveAt(s, k) = a \o b
  BY DEF RemoveAt, a, b
<1>. QED  BY <1>3, <1>4, <1>5

LEMMA InsertAtFacts ==
    ASSUME NEW s \in Seq(Ids), NEW k \in 1..(Len(s) + 1), NEW d \in Ids
    PROVE  /\ InsertAt(s, k, d) \in Seq(Ids) /\ Len(InsertAt(s, k, d)) = Len(s) + 1
           /\ InsertAt(s, k, d)[k] = d
           /\ \A i \in 1..Len(s) : \E j \in 1..(Len(s) + 1) : InsertAt(s, k, d)[j] = s[i]
<1>. DEFINE a == SubSeq(s, 1, k - 1)
            b == SubSeq(s, k, Len(s))
<1>1. /\ a \in Seq(Ids) /\ Len(a) = k - 1
      /\ \A i \in 1..(k - 1) : a[i] = s[i]
  BY SubSeqProperties
<1>2. /\ b \in Seq(Ids) /\ Len(b) = Len(s) - k + 1
      /\ \A i \in 1..(Len(s) - k + 1) : b[i] = s[k + i - 1]
  BY SubSeqProperties
<1>3. <<d>> \in Seq(Ids) /\ Len(<<d>>) = 1 /\ <<d>>[1] = d
  OBVIOUS
<1>. DEFINE c == a \o <<d>>
<1>. HIDE DEF a, b
<1>4. /\ c \in Seq(Ids) /\ Len(c) = k
      /\ c[k] = d
      /\ \A i \in 1..(k - 1) : c[i] = a[i]
  BY <1>1, <1>3, ConcatProperties
<1>. HIDE DEF c
<1>5. /\ c \o b \in Seq(Ids) /\ Len(c \o b) = Len(s) + 1
      /\ \A i \in 1..(Len(s) + 1) :
            (c \o b)[i] = IF i <= k THEN c[i] ELSE b[i - k]
  BY <1>2, <1>4, ConcatProperties
<1>6. ASSUME NEW i \in 1..Len(s) PROVE \E j \in 1..(Len(s) + 1) : (c \o b)[j] = s[i]
  <2>1. CASE i < k
    <3>1. i \in 1..(Len(s) + 1) /\ i \in 1..(k - 1) /\ i <= k
      BY <2>1
    <3>2. (c \o b)[i] = s[i]
      BY <1>1, <1>4, <1>5, <3>1
    <3>. QED  BY <3>1, <3>2
  <2>2. CASE i >= k
    <3>1. PICK j \in 1..(Len(s) + 1) : j = i + 1
      OBVIOUS
    <3>2. ~(j <= k) /\ j - k \in 1..(Len(s) - k + 1) /\ k + (j - k) - 1 = i
      BY <2>2, <3>1
    <3>3. (c \o b)[j] = s[i]
      BY <1>2, <1>5, <3>2
    <3>. QED  BY <3>3
  <2>3. i < k \/ i >= k
    OBVIOUS
  <2>. QED  BY <2>1, <2>2, <2>3, Zenon
<1>7. InsertAt(s, k, d) = c \o b
  BY DEF InsertAt, a, b, c
<1>8. (c \o b)[k] = d
  BY <1>4, <1>5
<1>. QED  BY <1>5, <1>6, <1>7, <1>8
-----------------------------------------------------------------------------
(* A change of the desktops whose events tell of a new count and of a new  *)
(* current desktop: Windows.                                               *)
LEMMA ChangeInv ==
    ASSUME IInv, NEW list \in Seq(Events), NEW switches \in Seq(Events), Change(list, switches),
           desktops' \in Seq(Ids), desktops' # <<>>, Exists(current)',
           Count' # Count => \E i \in DOMAIN list : list[i].kind \in {"created", "destroyed"},
           current' # current => /\ \E i \in DOMAIN list : list[i].kind = "changed"
                                 /\ \E i \in DOMAIN switches : switches[i].kind = "changed",
           \A i \in DOMAIN list : list[i].kind = "changed" =>
               list[i].desktop = current' /\ list[i].index = Index(current)',
           \A i \in DOMAIN switches : switches[i].kind = "changed" =>
               switches[i].desktop = current' /\ switches[i].index = Index(current)'
    PROVE  IInv'
<1>. DEFINE told == Told(list, switches)
<1>1. /\ changes' = changes + 1
      /\ events' = IF listening THEN events \o told ELSE events
      /\ UNCHANGED <<available, phase, library, listening, prev_count, recheck, need_rebuild,
                     desktop_count, desktop_index, icon, late, outages>>
  BY DEF Change, program, cache
<1>2. /\ told \in Seq(Events) /\ events \in Seq(Events)
      /\ current' # current => \E i \in DOMAIN told : told[i].kind = "changed"
      /\ \A i \in DOMAIN told : told[i].kind = "changed" =>
            told[i].desktop = current' /\ told[i].index = Index(current)'
      /\ ~library => told = list
  BY DEF Told, IInv, StartInv
<1>3. /\ excused \subseteq excused' /\ excused' \subseteq Excuses
      /\ ~listening => Subjects(list) \subseteq excused'
      /\ Shifted => excused' \cap IndexExcuses # {}
  BY ExcuseFacts DEF Change, IInv, TypeOK, Excuses, Subjects, Subject
<1>. HIDE DEF told
<1>4. ASSUME listening
      PROVE  /\ events' \in Seq(Events)
             /\ \A i \in DOMAIN events : i \in DOMAIN events' /\ events'[i] = events[i]
             /\ \A i \in DOMAIN told : \E j \in DOMAIN events' :
                   events'[j] = told[i] /\ \A k \in DOMAIN events : k < j
             /\ \A i \in DOMAIN events' :
                   \/ i \in DOMAIN events /\ events'[i] = events[i]
                   \/ /\ \E j \in DOMAIN told : events'[i] = told[j]
                      /\ \A j \in DOMAIN events : j < i
  <2>1. /\ events' = events \o told /\ events' \in Seq(Events)
        /\ Len(events') = Len(events) + Len(told)
        /\ \A i \in 1..(Len(events) + Len(told)) :
               events'[i] = IF i <= Len(events) THEN events[i] ELSE told[i - Len(events)]
    BY <1>1, <1>2, <1>4, ConcatProperties
  <2>2. Len(events) \in Nat /\ Len(told) \in Nat
    BY <1>2
  <2>3. ASSUME NEW i \in DOMAIN told
        PROVE  \E j \in DOMAIN events' : events'[j] = told[i] /\ \A k \in DOMAIN events : k < j
    <3>1. PICK j \in 1..(Len(events) + Len(told)) : j = Len(events) + i
      BY <1>2, <2>2
    <3>2. ~(j <= Len(events)) /\ j - Len(events) = i
      BY <1>2, <2>2, <3>1
    <3>3. j \in DOMAIN events' /\ events'[j] = told[i]
      BY <2>1, <3>2
    <3>4. \A k \in DOMAIN events : k < j
      BY <1>2, <2>2, <3>1
    <3>. QED  BY <3>3, <3>4
  <2>4. ASSUME NEW i \in DOMAIN events', i \notin DOMAIN events
        PROVE  (\E j \in DOMAIN told : events'[i] = told[j]) /\ (\A j \in DOMAIN events : j < i)
    <3>1. i \in 1..(Len(events) + Len(told)) /\ ~(i <= Len(events)) /\ i - Len(events) \in 1..Len(told)
      BY <1>2, <2>1, <2>2, <2>4
    <3>2. events'[i] = told[i - Len(events)]
      BY <2>1, <3>1
    <3>. QED  BY <1>2, <2>2, <3>1, <3>2
  <2>5. \A i \in DOMAIN events : i \in DOMAIN events' /\ events'[i] = events[i]
    BY <1>2, <2>1, <2>2
  <2>. QED  BY <2>1, <2>3, <2>4, <2>5
<1>5. ASSUME ~listening PROVE events' = events
  BY <1>1, <1>5
<1>6. TypeOK'
  <2>1. changes' \in Nat
    BY <1>1 DEF IInv, TypeOK
  <2>. QED  BY <1>1, <1>3, <2>1 DEF IInv, TypeOK
<1>7. StartInv'
  BY <1>1, <1>3, <1>4, <1>5 DEF IInv, StartInv
<1>8. CountInv'
  <2>1. ASSUME phase # "starting", ~library, Count' # Count
        PROVE  Pending({"created", "destroyed"})' \/ excused' \cap CountExcuses # {}
    <3>1. PICK i \in DOMAIN list : list[i].kind \in {"created", "destroyed"}
      BY <2>1
    <3>2. CASE listening
      BY <1>2, <1>4, <2>1, <3>1, <3>2 DEF Pending
    <3>3. CASE ~listening
      <4>1. "count" \in Subjects(list)
        BY <3>1 DEF Subjects, Subject
      <4>. QED  BY ExcuseFacts, <1>3, <3>3, <4>1
    <3>. QED  BY <3>2, <3>3
  <2>2. Pending({"created", "destroyed"}) => Pending({"created", "destroyed"})'
    BY <1>4, <1>5 DEF Pending
  <2>. QED  BY <1>1, <1>3, <2>1, <2>2 DEF IInv, CountInv
<1>9. Pending({"changed"}) => Pending({"changed"})'
  BY <1>4, <1>5 DEF Pending
<1>10. current' # current => Pending({"changed"})' \/ IndexExcused'
  <2>1. CASE listening
    BY <1>2, <1>4, <2>1 DEF Pending
  <2>2. CASE ~listening /\ current' # current
    <3>1. "index" \in Subjects(list)
      BY <2>2 DEF Subjects, Subject
    <3>. QED  BY ExcuseFacts, <1>3, <2>2, <3>1 DEF IndexExcused
  <2>. QED  BY <2>1, <2>2
<1>11. current' = current => Index(current)' = Index(current) \/ IndexExcused'
  BY <1>3 DEF Shifted, Index, IndexExcused
<1>12. IndexExcused => IndexExcused'
  BY <1>3 DEF IndexExcused
<1>13. IndexInv'
  BY <1>1, <1>9, <1>10, <1>11, <1>12 DEF IInv, IndexInv, IconTracksSwitches, IndexExcused
<1>14. LastInv'
  <2>. SUFFICES ASSUME NEW i \in DOMAIN events', LastChanged(i)', ~IndexExcused'
                PROVE  events'[i].desktop = current' /\ (library => events'[i].index = Index(current)')
    BY <1>1 DEF LastInv
  <2>1. CASE listening
    <3>1. CASE \E j \in DOMAIN told : events'[i] = told[j]
      BY <1>2, <2>1, <3>1 DEF LastChanged
    <3>2. CASE i \in DOMAIN events /\ events'[i] = events[i]
      <4>1. LastChanged(i)
        BY <1>4, <2>1, <3>2 DEF LastChanged
      <4>2. current' = current
        <5>1. ASSUME current' # current PROVE FALSE
          <6>1. PICK j \in DOMAIN events' : events'[j].kind = "changed" /\ i < j
            BY <1>2, <1>4, <2>1, <3>2, <5>1
          <6>. QED  BY <1>4, <2>1, <6>1 DEF LastChanged
        <5>. QED  BY <5>1
      <4>. QED  BY <1>11, <1>12, <3>2, <4>1, <4>2 DEF IInv, LastInv
    <3>. QED  BY <1>4, <2>1, <3>1, <3>2
  <2>2. CASE ~listening
    <3>1. LastChanged(i) /\ events' = events /\ i \in DOMAIN events
      BY <1>5, <2>2 DEF LastChanged
    <3>2. current' = current
      <4>1. current' # current => "index" \in Subjects(list)
        BY DEF Subjects, Subject
      <4>. QED  BY ExcuseFacts, <1>3, <2>2, <4>1 DEF IndexExcused
    <3>. QED  BY <1>11, <1>12, <3>1, <3>2 DEF IInv, LastInv
  <2>. QED  BY <2>1, <2>2
<1>. QED  BY <1>6, <1>7, <1>8, <1>13, <1>14 DEF IInv

(* A change of the number of desktops only.                                *)
LEMMA CountChange ==
    ASSUME IInv, NEW e \in Events, e.kind \in {"created", "destroyed"}, Change(<<e>>, <<>>),
           desktops' \in Seq(Ids), desktops' # <<>>, Exists(current)', current' = current
    PROVE  IInv'
<1>1. <<e>> \in Seq(Events) /\ DOMAIN <<e>> = {1} /\ <<e>>[1] = e
  OBVIOUS
<1>2. <<>> \in Seq(Events) /\ DOMAIN <<>> = {}
  OBVIOUS
<1>3. e.kind # "changed"
  OBVIOUS
<1>. QED  BY <1>1, <1>2, <1>3, ChangeInv

(* A change of the number of desktops and of the current one.              *)
LEMMA CountAndSwitch ==
    ASSUME IInv, NEW a \in Events, NEW b \in Events, NEW list \in {<<a, b>>, <<b, a>>},
           Change(list, <<a>>), a.kind = "changed", b.kind = "destroyed",
           a.desktop = current', a.index = Index(current)',
           desktops' \in Seq(Ids), desktops' # <<>>, Exists(current)'
    PROVE  IInv'
<1>1. <<a>> \in Seq(Events) /\ DOMAIN <<a>> = {1} /\ <<a>>[1] = a
  OBVIOUS
<1>2. list \in Seq(Events) /\ DOMAIN list = {1, 2}
  <2>1. CASE list = <<a, b>>
    BY <2>1
  <2>2. CASE list = <<b, a>>
    BY <2>2
  <2>. QED  BY <2>1, <2>2
<1>3. (list[1] = a /\ list[2] = b) \/ (list[1] = b /\ list[2] = a)
  OBVIOUS
<1>4. \A i \in DOMAIN list : list[i].kind = "changed" => list[i] = a
  BY <1>2, <1>3
<1>5. /\ \E i \in DOMAIN list : list[i].kind = "changed"
      /\ \E i \in DOMAIN list : list[i].kind \in {"created", "destroyed"}
  BY <1>2, <1>3
<1>. QED  BY <1>1, <1>2, <1>4, <1>5, ChangeInv

LEMMA UserStepInv == IInv /\ UserStep => IInv'
<1>. SUFFICES ASSUME IInv, UserStep PROVE IInv'
  OBVIOUS
<1>0. /\ desktops \in Seq(Ids) /\ desktops # <<>> /\ Exists(current) /\ Len(desktops) \in Nat
      /\ Len(desktops) >= 1 /\ current \in Ids
  BY DEF IInv, TypeOK, Exists
<1>1. ASSUME NEW d \in Ids, CreateDesktop(d) PROVE IInv'
  <2>1. /\ desktops' = Append(desktops, d) /\ current' = current
        /\ Change(<<Created(d)>>, <<>>)
    BY <1>1 DEF CreateDesktop
  <2>2. desktops' \in Seq(Ids) /\ desktops' # <<>> /\ Exists(current)'
    BY <1>0, <2>1, AppendProperties DEF Exists
  <2>3. Created(d) \in Events /\ Created(d).kind = "created"
    BY DEF Created, Events
  <2>. QED  BY <2>1, <2>2, <2>3, CountChange
<1>2. ASSUME NEW d \in Ids, SwitchTo(d) PROVE IInv'
  <2>. DEFINE e == Changed(d, Index(d))
  <2>1. /\ desktops' = desktops /\ current' = d /\ Exists(d)
        /\ Change(<<e>>, <<e>>)
    BY <1>2 DEF SwitchTo
  <2>2. Index(d) \in Nat \ {0}
    BY <1>0, <2>1, IndexFacts DEF Index, Exists
  <2>3. e \in Events /\ e.kind = "changed" /\ e.desktop = current' /\ e.index = Index(current)'
    BY <2>1, <2>2 DEF Changed, Events, Index
  <2>. HIDE DEF e
  <2>4. <<e>> \in Seq(Events) /\ DOMAIN <<e>> = {1} /\ <<e>>[1] = e
    BY <2>3
  <2>5. Exists(current)' /\ Count' = Count
    BY <2>1 DEF Exists, Count
  <2>. QED  BY <1>0, <2>1, <2>3, <2>4, <2>5, ChangeInv
<1>3. ASSUME NEW d \in Ids, RemoveDesktop(d) PROVE IInv'
  <2>1. Exists(d) /\ Len(desktops) > 1 /\ desktops' = RemoveAt(desktops, Index(d))
    BY <1>3 DEF RemoveDesktop, Count
  <2>2. Index(d) \in 1..Len(desktops) /\ desktops[Index(d)] = d
    BY <1>0, <2>1, IndexFacts DEF Index, Exists
  <2>3. /\ desktops' \in Seq(Ids) /\ Len(desktops') = Len(desktops) - 1
        /\ \A i \in 1..Len(desktops) :
               i # Index(d) => \E j \in 1..(Len(desktops) - 1) : desktops'[j] = desktops[i]
    BY <1>0, <2>1, <2>2, RemoveAtFacts
  <2>4. desktops' # <<>>
    BY <2>1, <2>3
  <2>5. Destroyed(d) \in Events /\ Destroyed(d).kind = "destroyed"
    BY DEF Destroyed, Events
  <2>6. CASE d # current
    <3>1. current' = current /\ Change(<<Destroyed(d)>>, <<>>)
      BY <1>3, <2>6 DEF RemoveDesktop
    <3>2. Exists(current)'
      BY <1>0, <2>2, <2>3, <2>6, <3>1 DEF Exists
    <3>. QED  BY <2>3, <2>4, <2>5, <3>1, <3>2, CountChange
  <2>7. CASE d = current
    <3>0. PICK fallback \in Range(desktops') : \E changed :
            /\ changed = Changed(fallback, IndexIn(fallback, desktops'))
            /\ current' = fallback
            /\ \/ Change(<<changed, Destroyed(d)>>, <<changed>>)
               \/ Change(<<Destroyed(d), changed>>, <<changed>>)
      BY <1>3, <2>7 DEF RemoveDesktop
    <3>1. PICK changed :
            /\ changed = Changed(fallback, IndexIn(fallback, desktops'))
            /\ current' = fallback
            /\ \/ Change(<<changed, Destroyed(d)>>, <<changed>>)
               \/ Change(<<Destroyed(d), changed>>, <<changed>>)
      BY <3>0
    <3>2. Exists(current)' /\ current' \in Ids
      BY <2>3, <3>0, <3>1 DEF Exists, Range
    <3>3. IndexIn(current', desktops') \in Nat \ {0}
      BY <2>3, <3>2, IndexFacts DEF Exists
    <3>4. /\ changed \in Events /\ changed.kind = "changed" /\ changed.desktop = current'
          /\ changed.index = Index(current)'
      BY <3>1, <3>2, <3>3 DEF Changed, Events, Index
    <3>. QED  BY <2>3, <2>4, <2>5, <3>1, <3>2, <3>4, CountAndSwitch
  <2>. QED  BY <2>6, <2>7
<1>4. ASSUME NEW d \in Ids, NEW i \in DOMAIN desktops, MoveDesktop(d, i) PROVE IInv'
  <2>. DEFINE rest == RemoveAt(desktops, Index(d))
  <2>1. /\ Exists(d) /\ desktops' = InsertAt(rest, i, d) /\ current' = current
        /\ Change(<<>>, <<>>)
    BY <1>4 DEF MoveDesktop
  <2>2. Index(d) \in 1..Len(desktops) /\ desktops[Index(d)] = d
    BY <1>0, <2>1, IndexFacts DEF Index, Exists
  <2>3. /\ rest \in Seq(Ids) /\ Len(rest) = Len(desktops) - 1
        /\ \A j \in 1..Len(desktops) : j # Index(d) => \E k \in 1..Len(rest) : rest[k] = desktops[j]
    BY <1>0, <2>2, RemoveAtFacts
  <2>. HIDE DEF rest
  <2>4. Len(rest) + 1 = Len(desktops) /\ i \in 1..(Len(rest) + 1)
    BY <1>0, <2>3
  <2>5. /\ desktops' \in Seq(Ids) /\ Len(desktops') = Len(desktops)
        /\ desktops'[i] = d
        /\ \A k \in 1..Len(rest) : \E j \in 1..(Len(rest) + 1) : desktops'[j] = rest[k]
    <3>1. /\ InsertAt(rest, i, d) \in Seq(Ids) /\ Len(InsertAt(rest, i, d)) = Len(rest) + 1
          /\ InsertAt(rest, i, d)[i] = d
          /\ \A k \in 1..Len(rest) : \E j \in 1..(Len(rest) + 1) : InsertAt(rest, i, d)[j] = rest[k]
      BY <2>3, <2>4, InsertAtFacts
    <3>. QED  BY <2>1, <2>4, <3>1
  <2>6. Exists(current)'
    <3>1. PICK j \in 1..Len(desktops) : desktops[j] = current
      BY <1>0 DEF Exists
    <3>2. CASE j = Index(d)
      BY <1>0, <2>1, <2>2, <2>5, <3>1, <3>2 DEF Exists
    <3>3. CASE j # Index(d)
      <4>1. PICK k \in 1..Len(rest) : rest[k] = current
        BY <2>3, <3>1, <3>3
      <4>2. PICK m \in 1..(Len(rest) + 1) : desktops'[m] = current
        BY <2>5, <4>1
      <4>3. m \in DOMAIN desktops'
        BY <1>0, <2>3, <2>5
      <4>. QED  BY <2>1, <4>2, <4>3 DEF Exists
    <3>. QED  BY <3>2, <3>3
  <2>7. <<>> \in Seq(Events) /\ DOMAIN <<>> = {} /\ desktops' # <<>> /\ Count' = Count
    BY <1>0, <2>5 DEF Count
  <2>. QED  BY <2>1, <2>5, <2>6, <2>7, ChangeInv
<1>5. CASE ExplorerStops \/ ExplorerStarts \/ TwoMinutesPass
  <2>1. /\ UNCHANGED <<desktops, current, events, phase, library, listening, prev_count,
                       recheck, cache, changes, excused>>
    BY <1>5 DEF ExplorerStops, ExplorerStarts, TwoMinutesPass, windows, program
  <2>2. available' \in BOOLEAN /\ need_rebuild' \in BOOLEAN /\ late' \in BOOLEAN /\ outages' \in Nat
    <3>1. available \in BOOLEAN /\ need_rebuild \in BOOLEAN /\ late \in BOOLEAN /\ outages \in Nat
      BY DEF IInv, TypeOK
    <3>2. CASE ExplorerStops
      <4>1. available' = FALSE /\ outages' = outages + 1 /\ UNCHANGED need_rebuild /\ UNCHANGED late
        BY <3>2 DEF ExplorerStops, program
      <4>2. available' \in BOOLEAN
        BY <4>1, Zenon
      <4>. QED  BY <3>1, <4>1, <4>2
    <3>3. CASE ExplorerStarts
      <4>1. /\ available' = TRUE /\ need_rebuild' = (phase = "running")
            /\ UNCHANGED late /\ UNCHANGED outages
        BY <3>3 DEF ExplorerStarts
      <4>2. available' \in BOOLEAN /\ need_rebuild' \in BOOLEAN
        BY <4>1, Zenon
      <4>. QED  BY <3>1, <4>1, <4>2
    <3>4. CASE TwoMinutesPass
      BY <3>1, <3>4 DEF TwoMinutesPass, windows, program
    <3>. QED  BY <1>5, <3>2, <3>3, <3>4
  <2>. QED  BY <2>1, <2>2 DEF cache, IInv, TypeOK, StartInv, CountInv, IndexInv, LastInv, IconTracksSwitches,
                   LastChanged, IndexExcused, Pending, Exists, Index, Count
<1>. QED  BY <1>1, <1>2, <1>3, <1>4, <1>5 DEF UserStep
-----------------------------------------------------------------------------
LEMMA InitInv == Init => IInv
<1>. SUFFICES ASSUME Init PROVE IInv
  OBVIOUS
<1>1. desktops \in Seq(Ids) /\ desktops # <<>> /\ Exists(current)
  <2>1. ASSUME NEW d \in Ids, desktops = <<d>> PROVE desktops \in Seq(Ids) /\ desktops # <<>>
    BY <2>1
  <2>2. ASSUME NEW s \in Ids \X Ids, desktops = s PROVE desktops \in Seq(Ids) /\ desktops # <<>>
    <3>1. PICK a \in Ids, b \in Ids : desktops = <<a, b>>
      BY <2>2
    <3>. QED  BY <3>1
  <2>. QED  BY <2>1, <2>2 DEF Init, Orders, Exists
<1>2. {available, library, listening, recheck, need_rebuild, late} \subseteq BOOLEAN
  BY Zenon DEF Init
<1>3. TypeOK
  <2>1. excused \subseteq Excuses
    BY DEF Init, Excuses, CountExcuses, IndexExcuses
  <2>. QED  BY <1>1, <1>2, <2>1 DEF Init, TypeOK
<1>. QED
  BY <1>3 DEF Init, IInv, StartInv, CountInv, IndexInv, IconTracksSwitches, LastInv, IndexExcused

(* The handlers take the first event from the queue.                       *)
LEMMA TailFacts ==
    ASSUME events \in Seq(Events), events # <<>>, events' = Tail(events)
    PROVE  /\ events' \in Seq(Events) /\ 1 \in DOMAIN events /\ Head(events) = events[1]
           /\ Head(events) \in Events
           /\ \A i \in DOMAIN events' :
                 i \in Nat /\ i + 1 \in DOMAIN events /\ i + 1 # 1 /\ events'[i] = events[i + 1]
           /\ \A i \in DOMAIN events : i # 1 => \E j \in DOMAIN events' : events'[j] = events[i]
           /\ \A kinds : Pending(kinds) /\ Head(events).kind \notin kinds => Pending(kinds)'
<1>1. /\ events' \in Seq(Events) /\ Len(events') = Len(events) - 1
      /\ 1 \in DOMAIN events /\ Head(events) = events[1] /\ Head(events) \in Events
      /\ \A i \in 1..(Len(events) - 1) : events'[i] = events[i + 1]
  BY HeadTailProperties
<1>2. \A i \in DOMAIN events' :
          i \in Nat /\ i + 1 \in DOMAIN events /\ i + 1 # 1 /\ events'[i] = events[i + 1]
  BY <1>1
<1>3. ASSUME NEW i \in DOMAIN events, i # 1 PROVE \E j \in DOMAIN events' : events'[j] = events[i]
  <2>1. PICK j \in 1..(Len(events) - 1) : j = i - 1
    BY <1>3
  <2>2. j \in DOMAIN events' /\ j + 1 = i
    BY <1>1, <2>1
  <2>. QED  BY <1>1, <2>2
<1>4. ASSUME NEW kinds, Pending(kinds), Head(events).kind \notin kinds PROVE Pending(kinds)'
  <2>1. PICK i \in DOMAIN events : events[i].kind \in kinds
    BY <1>4 DEF Pending
  <2>2. i # 1
    BY <1>1, <1>4, <2>1
  <2>. QED  BY <1>3, <2>1, <2>2 DEF Pending
<1>. QED  BY <1>1, <1>2, <1>3, <1>4

(* The last event about a switch stays the last.                           *)
LEMMA LastChangedTail ==
    ASSUME events \in Seq(Events), events # <<>>, events' = Tail(events),
           NEW i \in DOMAIN events', LastChanged(i)'
    PROVE  LastChanged(i + 1) /\ events'[i] = events[i + 1]
<1>1. i \in Nat /\ i + 1 \in DOMAIN events /\ events'[i] = events[i + 1]
  BY TailFacts
<1>2. ASSUME NEW j \in DOMAIN events, j > i + 1 PROVE events[j].kind # "changed"
  <2>1. Len(events') = Len(events) - 1 /\ j \in Nat
    BY HeadTailProperties
  <2>2. PICK k \in DOMAIN events' : k = j - 1
    BY <1>1, <1>2, <2>1
  <2>3. events'[k] = events[j] /\ k > i
    BY <1>1, <1>2, <2>1, <2>2, TailFacts
  <2>. QED  BY <2>3 DEF LastChanged
<1>. QED  BY <1>1, <1>2 DEF LastChanged

(* What a handler of a desktop event leaves alone.                         *)
LEMMA HandlerFacts ==
    ASSUME IInv, HandlerOnly
    PROVE  /\ UNCHANGED <<desktops, current, available, phase, library, listening, recheck,
                          need_rebuild, late, changes, outages>>
           /\ desktops' \in Seq(Ids) /\ desktops' # <<>> /\ Exists(current)'
           /\ Count' = Count /\ Count \in Nat \ {0}
           /\ Index(current)' = Index(current) /\ Index(current) \in Nat \ {0}
<1>1. UNCHANGED <<desktops, current, available, phase, library, listening, recheck,
                  need_rebuild, late, changes, outages>>
  BY DEF HandlerOnly, windows
<1>2. desktops \in Seq(Ids) /\ desktops # <<>> /\ Exists(current) /\ current \in Ids
  BY DEF IInv, TypeOK, Exists
<1>3. Index(current) \in Nat \ {0}
  BY <1>2, IndexFacts DEF Index, Exists
<1>. QED  BY <1>1, <1>2, <1>3 DEF Exists, Count, Index

LEMMA UpdateCountFacts ==
    ASSUME IInv, NEW subjects \in SUBSET IndexExcuses, UpdateDesktopCount(subjects), UNCHANGED desktops
    PROVE  /\ desktop_count' \in Nat \ {0} /\ excused' \subseteq Excuses
           /\ desktop_count' # Count' => excused' \cap CountExcuses # {}
           /\ excused \cap IndexExcuses \subseteq excused' \cup subjects
           /\ excused' \cap IndexExcuses \subseteq excused
<1>1. Count \in Nat \ {0} /\ Count' = Count /\ excused \subseteq Excuses /\ desktop_count \in Nat \ {0}
  BY DEF IInv, TypeOK, Count
<1>. QED  BY ExcuseFacts, <1>1 DEF UpdateDesktopCount, Excuses

LEMMA HandleCountInv == IInv /\ HandleCount => IInv'
<1>. SUFFICES ASSUME IInv, HandleCount PROVE IInv'
  OBVIOUS
<1>1. /\ phase = "running" /\ events # <<>> /\ events' = Tail(events)
      /\ Head(events).kind \in {"created", "destroyed"}
      /\ UNCHANGED prev_count /\ HandlerOnly /\ UpdateDesktopCount({})
      /\ UNCHANGED <<desktop_index, icon>>
  BY DEF HandleCount, NextEvent
<1>2. events \in Seq(Events)
  BY DEF IInv, StartInv
<1>3. /\ desktop_count' \in Nat \ {0} /\ excused' \subseteq Excuses
      /\ desktop_count' # Count' => excused' \cap CountExcuses # {}
      /\ excused' \cap IndexExcuses = excused \cap IndexExcuses
  BY <1>1, HandlerFacts, UpdateCountFacts
<1>4. TypeOK' /\ StartInv' /\ CountInv'
  BY <1>1, <1>2, <1>3, HandlerFacts, TailFacts DEF IInv, TypeOK, StartInv, CountInv
<1>5. Pending({"changed"}) => Pending({"changed"})'
  BY <1>1, <1>2, TailFacts
<1>6. IndexInv'
  BY <1>1, <1>3, <1>5, HandlerFacts DEF IInv, IndexInv, IconTracksSwitches, IndexExcused
<1>7. LastInv'
  BY <1>1, <1>2, <1>3, HandlerFacts, TailFacts, LastChangedTail DEF IInv, LastInv, IndexExcused
<1>. QED  BY <1>4, <1>6, <1>7 DEF IInv

LEMMA HandleUnknownInv == IInv /\ HandleUnknown => IInv'
<1>. SUFFICES ASSUME IInv, HandleUnknown PROVE IInv'
  OBVIOUS
<1>1. /\ phase = "running" /\ events # <<>> /\ events' = Tail(events)
      /\ Head(events).kind = "changed"
      /\ UNCHANGED prev_count /\ HandlerOnly /\ excused' = excused \cup {"index"}
      /\ UNCHANGED <<desktop_count, desktop_index, icon>>
  BY DEF HandleUnknown, NextEvent, cache
<1>2. events \in Seq(Events) /\ IndexExcused'
  BY ExcuseFacts, <1>1 DEF IInv, StartInv, IndexExcused
<1>3. TypeOK' /\ StartInv'
  <2>1. excused' \subseteq Excuses
    BY ExcuseFacts, <1>1 DEF IInv, TypeOK
  <2>. QED  BY <1>1, <1>2, <2>1, HandlerFacts, TailFacts DEF IInv, TypeOK, StartInv
<1>4. Pending({"created", "destroyed"}) => Pending({"created", "destroyed"})'
  BY <1>1, <1>2, TailFacts
<1>5. CountInv'
  BY <1>1, <1>4, HandlerFacts DEF IInv, CountInv
<1>6. IndexInv' /\ LastInv'
  BY <1>2 DEF IndexInv, IconTracksSwitches, LastInv, IndexExcused
<1>. QED  BY <1>3, <1>5, <1>6 DEF IInv

LEMMA HandleChangedInv == IInv /\ HandleChanged => IInv'
<1>. SUFFICES ASSUME IInv, HandleChanged PROVE IInv'
  OBVIOUS
<1>. DEFINE e == Head(events)
            told == SetsRight(Head(events))
<1>1. /\ phase = "running" /\ events # <<>> /\ events' = Tail(events)
      /\ e.kind = "changed" /\ Known(e)
      /\ UNCHANGED prev_count /\ HandlerOnly
      /\ desktop_index' = NewIndex(e) /\ icon' = NewIndex(e)
      /\ IF NewIndex(e) > desktop_count THEN UpdateDesktopCount(told)
         ELSE UNCHANGED desktop_count /\ excused' = excused \ told
  BY DEF HandleChanged, NextEvent
<1>2. /\ events \in Seq(Events) /\ 1 \in DOMAIN events /\ e = events[1] /\ e \in Events
      /\ told \in SUBSET IndexExcuses
  BY <1>1, TailFacts DEF IInv, StartInv, SetsRight
<1>3. NewIndex(e) \in Nat \ {0}
  <2>1. CASE library
    BY <1>1, <1>2, <2>1 DEF NewIndex, Events
  <2>2. CASE ~library
    <3>1. e.desktop \in Ids /\ Exists(e.desktop) /\ desktops \in Seq(Ids)
      BY <1>1, <1>2, <2>2 DEF Known, Events, IInv, TypeOK
    <3>. QED  BY <2>2, <3>1, IndexFacts DEF NewIndex, Index, Exists
  <2>. QED  BY <2>1, <2>2
<1>4. /\ desktop_count' \in Nat \ {0} /\ excused' \subseteq Excuses
      /\ excused \cap IndexExcuses \subseteq excused' \cup told
      /\ ~library /\ desktop_count' # Count' => Pending({"created", "destroyed"})' \/ excused' \cap CountExcuses # {}
  <2>1. CASE NewIndex(e) > desktop_count
    BY <1>1, <1>2, <2>1, HandlerFacts, UpdateCountFacts
  <2>2. CASE ~(NewIndex(e) > desktop_count)
    <3>1. Pending({"created", "destroyed"}) => Pending({"created", "destroyed"})'
      BY <1>1, <1>2, TailFacts
    <3>2. UNCHANGED desktop_count /\ excused' = excused \ told /\ Count' = Count
      BY <1>1, <2>2, HandlerFacts
    <3>. QED  BY ExcuseFacts, <1>1, <1>2, <3>1, <3>2 DEF IInv, TypeOK, CountInv
  <2>. QED  BY <2>1, <2>2
<1>. HIDE DEF told
<1>5. TypeOK' /\ StartInv' /\ CountInv'
  BY <1>1, <1>2, <1>3, <1>4, HandlerFacts, TailFacts DEF IInv, TypeOK, StartInv, CountInv
<1>6. CASE \E i \in 2..Len(events) : events[i].kind = "changed"
  <2>1. told = {}
    BY <1>6 DEF told, SetsRight
  <2>2. IndexExcused => IndexExcused'
    BY <1>4, <2>1 DEF IndexExcused
  <2>3. Pending({"changed"})'
    <3>1. PICK i \in DOMAIN events : i # 1 /\ events[i].kind = "changed"
      BY <1>2, <1>6
    <3>2. PICK j \in DOMAIN events' : events'[j] = events[i]
      BY <1>1, <1>2, <3>1, TailFacts
    <3>. QED  BY <3>1, <3>2 DEF Pending
  <2>4. IndexInv'
    BY <2>3 DEF IndexInv, IconTracksSwitches
  <2>5. LastInv'
    BY <1>1, <1>2, <2>2, HandlerFacts, TailFacts, LastChangedTail DEF IInv, LastInv
  <2>. QED  BY <1>5, <2>4, <2>5 DEF IInv
<1>7. CASE ~\E i \in 2..Len(events) : events[i].kind = "changed"
  <2>1. LastChanged(1)
    BY <1>1, <1>2, <1>7 DEF LastChanged
  <2>2. LastInv'
    <3>1. ASSUME NEW i \in DOMAIN events' PROVE events'[i].kind # "changed"
      <4>1. events # <<>> /\ events \in Seq(Events) /\ events' = Tail(events)
        BY <1>1, <1>2
      <4>2. i \in Nat /\ i + 1 \in DOMAIN events /\ i + 1 # 1 /\ events'[i] = events[i + 1]
        BY <4>1, TailFacts
      <4>3. i + 1 \in 2..Len(events)
        BY <4>1, <4>2
      <4>. QED  BY <1>7, <4>2, <4>3
    <3>. QED  BY <3>1 DEF LastInv, LastChanged
  <2>3. NewIndex(e) = Index(current) \/ IndexExcused
    BY <1>1, <1>2, <2>1 DEF IInv, LastInv, NewIndex
  <2>4. CASE NewIndex(e) = Index(current)
    BY <1>1, <1>5, <2>2, <2>4, HandlerFacts DEF IInv, IndexInv, IconTracksSwitches
  <2>5. CASE NewIndex(e) # Index(current)
    <3>1. told = {}
      BY <2>5 DEF told, SetsRight
    <3>2. IndexExcused'
      BY <1>4, <2>3, <2>5, <3>1 DEF IndexExcused
    <3>3. IndexInv'
      BY <3>2 DEF IndexInv, IconTracksSwitches, IndexExcused
    <3>. QED  BY <1>5, <2>2, <3>3 DEF IInv
  <2>. QED  BY <2>4, <2>5
<1>. QED  BY <1>6, <1>7

LEMMA PollTimerInv == IInv /\ PollTimer => IInv'
<1>. SUFFICES ASSUME IInv, PollTimer PROVE IInv'
  OBVIOUS
<1>1. /\ library /\ prev_count' = Count /\ HandlerOnly /\ UpdateDesktopCount({})
      /\ UNCHANGED <<events, desktop_index, icon>>
  BY DEF PollTimer
<1>2. /\ desktop_count' \in Nat \ {0} /\ excused' \subseteq Excuses
      /\ desktop_count' # Count' => excused' \cap CountExcuses # {}
      /\ excused' \cap IndexExcuses = excused \cap IndexExcuses
  BY <1>1, HandlerFacts, UpdateCountFacts
<1>3. phase = "running"
  BY DEF PollTimer
<1>4. TypeOK' /\ StartInv' /\ CountInv'
  BY <1>1, <1>2, <1>3, HandlerFacts DEF IInv, TypeOK, StartInv, CountInv
<1>5. IndexInv' /\ LastInv'
  BY <1>1, <1>2, <1>3, HandlerFacts DEF IInv, IndexInv, IconTracksSwitches, LastInv, LastChanged, IndexExcused, Pending
<1>. QED  BY <1>4, <1>5 DEF IInv

(* Starting, rebuilding and the recheck.                                   *)
LEMMA TrayInv ==
    IInv /\ (NewTray \/ BuildUi \/ Rebuild \/ StartupRebuild \/ CheckDesktopCount) => IInv'
<1>. SUFFICES ASSUME IInv, NewTray \/ BuildUi \/ Rebuild \/ StartupRebuild \/ CheckDesktopCount
              PROVE  IInv'
  OBVIOUS
<1>1. /\ desktops' = desktops /\ current' = current
      /\ Count' = Count /\ Index(current)' = Index(current) /\ Exists(current)' = Exists(current)
  BY DEF NewTray, BuildUi, Rebuild, BuildTray, StartupRebuild, CheckDesktopCount, windows, Count, Index, Exists
<1>2. /\ desktops \in Seq(Ids) /\ desktops # <<>> /\ Exists(current)
      /\ Count \in Nat \ {0} /\ Index(current) \in Nat \ {0}
  <2>1. desktops \in Seq(Ids) /\ desktops # <<>> /\ Exists(current) /\ current \in Ids
    BY DEF IInv, TypeOK, Exists
  <2>. QED  BY <2>1, IndexFacts DEF Index, Exists, Count
<1>3. CurrentIndex \in Nat \ {0} /\ (available => CurrentIndex = Index(current))
  BY <1>2 DEF CurrentIndex
<1>4. CASE NewTray
  <2>1. /\ phase = "starting" /\ phase' = "loaded" /\ desktop_index' = CurrentIndex
        /\ desktop_count' = (IF available THEN Count ELSE 1)
        /\ excused' = (IF available THEN {} ELSE excused)
        /\ UNCHANGED <<available, events, library, listening, icon, prev_count, recheck,
                       need_rebuild, late, changes, outages>>
    BY <1>4 DEF NewTray, windows
  <2>2. TypeOK' /\ StartInv'
    BY <1>1, <1>2, <1>3, <2>1 DEF IInv, TypeOK, StartInv
  <2>3. CountInv' /\ IndexInv'
    BY ExcuseFacts, <1>1, <1>3, <2>1 DEF IInv, StartInv, CountInv, IndexInv, IconTracksSwitches, IndexExcused
  <2>4. LastInv'
    BY <2>1 DEF IInv, StartInv, LastInv
  <2>. QED  BY <2>2, <2>3, <2>4 DEF IInv
<1>5. CASE BuildUi \/ Rebuild
  <2>1. /\ phase \in {"loaded", "running"} /\ phase' = "running"
        /\ icon' = desktop_index /\ recheck' = (desktop_count = 1)
        /\ listening' \in BOOLEAN /\ prev_count' = 0 /\ events' = <<>>
        /\ excused' = excused \cup Dropped(events) /\ need_rebuild' = FALSE
        /\ UNCHANGED <<available, library, desktop_count, desktop_index, late, changes, outages>>
    BY <1>5 DEF BuildUi, Rebuild, BuildTray, windows
  <2>2. /\ Pending({"changed"}) => "index dropped" \in Dropped(events)
        /\ Pending({"created", "destroyed"}) => "count dropped" \in Dropped(events)
        /\ Dropped(events) \subseteq Excuses
    <3>1. /\ Pending({"changed"}) => "index" \in Subjects(events)
          /\ Pending({"created", "destroyed"}) => "count" \in Subjects(events)
      BY DEF Pending, Subjects, Subject
    <3>. QED  BY ExcuseFacts, <3>1 DEF Dropped, Excuses
  <2>3. recheck' \in BOOLEAN /\ need_rebuild' \in BOOLEAN
    BY <2>1, Zenon
  <2>4. TypeOK' /\ StartInv'
    <3>1. excused' \subseteq Excuses
      BY <2>1, <2>2 DEF IInv, TypeOK
    <3>. QED  BY <1>1, <1>2, <2>1, <2>3, <3>1 DEF IInv, TypeOK, StartInv
  <2>5. CountInv'
    BY ExcuseFacts, <1>1, <2>1, <2>2 DEF IInv, CountInv
  <2>6. IndexInv'
    BY ExcuseFacts, <1>1, <2>1, <2>2 DEF IInv, IndexInv, IconTracksSwitches, IndexExcused
  <2>7. LastInv'
    BY <2>1 DEF LastInv
  <2>. QED  BY <2>4, <2>5, <2>6, <2>7 DEF IInv
<1>6. CASE StartupRebuild
  <2>1. /\ need_rebuild' = TRUE
        /\ UNCHANGED <<available, events, phase, library, listening, prev_count, recheck,
                       desktop_count, desktop_index, icon, late, changes, outages, excused>>
    BY <1>6 DEF StartupRebuild, windows, cache
  <2>. QED
    BY <1>1, <1>2, <2>1 DEF IInv, TypeOK, StartInv, CountInv, IndexInv, IconTracksSwitches, LastInv,
                            LastChanged, IndexExcused, Pending
<1>7. CASE CheckDesktopCount
  <2>1. /\ phase = "running" /\ recheck' \in BOOLEAN
        /\ desktop_index' \in {desktop_index, CurrentIndex}
        /\ excused' \in {excused, excused \cup {"index"}}
        /\ desktop_index' # desktop_index /\ ~available => "index" \in excused'
        /\ UNCHANGED <<available, events, phase, library, listening, prev_count, need_rebuild,
                       desktop_count, icon, late, changes, outages>>
    BY <1>7 DEF CheckDesktopCount, windows, IInv, TypeOK
  <2>2. TypeOK' /\ StartInv' /\ CountInv'
    BY ExcuseFacts, <1>1, <1>2, <1>3, <2>1 DEF IInv, TypeOK, StartInv, CountInv, Pending, Excuses
  <2>3. IndexInv' /\ LastInv'
    BY ExcuseFacts, <1>1, <1>3, <2>1 DEF IInv, IndexInv, IconTracksSwitches, LastInv, LastChanged, IndexExcused, Pending
  <2>. QED  BY <2>2, <2>3 DEF IInv
<1>. QED  BY <1>4, <1>5, <1>6, <1>7

THEOREM InductiveInvariant == Spec => []IInv
<1>1. IInv /\ [Next]_vars => IInv'
  <2>. SUFFICES ASSUME IInv, [Next]_vars PROVE IInv'
    OBVIOUS
  <2>1. CASE UNCHANGED vars
    BY <2>1 DEF vars, IInv, TypeOK, StartInv, CountInv, IndexInv, IconTracksSwitches, LastInv,
                LastChanged, IndexExcused, Pending, Exists, Index, Count
  <2>. QED
    BY <2>1, UserStepInv, TrayInv, HandleCountInv, HandleUnknownInv, HandleChangedInv, PollTimerInv
       DEF Next, Handle
<1>. QED  BY <1>1, InitInv, PTL DEF Spec
-----------------------------------------------------------------------------
(* The tray's caches keep their types, and the cached index is that of     *)
(* some desktop: SystemTray's desktop_count and desktop_index.             *)
THEOREM Types == Spec => []TypeOK
<1>1. IInv => TypeOK
  BY DEF IInv
<1>. QED  BY <1>1, InductiveInvariant, PTL

(* A wrong number of desktops has an event on its way that will set it     *)
(* right, or its event was dropped by a rebuild of the listener, or        *)
(* Windows did not tell or answer: update_desktop_count, and               *)
(* after_partial_build of VirtualDesktopEventManager.                      *)
THEOREM CountTracked == Spec => []CountTracksWindows
<1>1. IInv => CountTracksWindows
  BY DEF IInv, CountInv, CountTracksWindows
<1>. QED  BY <1>1, InductiveInvariant, PTL

(* A wrong icon has an event about a switch on its way, or a rebuild       *)
(* dropped it, or the current desktop was shifted, or Windows did not tell *)
(* or answer: notify_desktop_event and VirtualDesktopEventManager.         *)
THEOREM IconTracked == Spec => []IconTracksSwitches
<1>1. IInv => IconTracksSwitches
  BY DEF IInv, IndexInv
<1>. QED  BY <1>1, InductiveInvariant, PTL
=============================================================================
