---------------------------- MODULE EditorsProofs ----------------------------
(***************************************************************************)
(* FilterEditor for any rules, windows and inputs, and TextFields for any  *)
(* texts: what is proved of the configuration window's rules and of the    *)
(* texts that are typed in it.                                             *)
(*                                                                         *)
(* EditsReachTheirRule is about a window that has handled its messages.    *)
(* Before that there are four ways things may stand: the panel shows a     *)
(* rule as it is; a number was typed and the next message says so; the     *)
(* selected rule was edited and the next message says so; or the rules     *)
(* were taken back while a message waits that writes what is there         *)
(* already, or else is known to write over them (`crossed`).  In the       *)
(* first two the rules are as the user left them and the messages that the *)
(* panel posted when it was filled write nothing that is not there, for    *)
(* rules that were taken back are loaded before these.                     *)
(*                                                                         *)
(* What is said of texts is said of all of them, so the second half is     *)
(* mostly about operators: the field's own invariant is FieldInv.          *)
(***************************************************************************)
EXTENDS FilterEditor, TextFields, FiniteSetTheorems, SequenceTheorems, TLAPS

Rows == [ix : 1..MaxRules, rule : Rules]
Panels == [selected : 0..MaxRules + 1, filter : Rules]
Threads ==
    [pc : ThreadStates, listed : 0..Len(OpenWindows), sent : Seq(ToSet(OpenWindows)),
     should_exit : BOOLEAN]

In(message, queue) == \E i \in DOMAIN queue : queue[i] = message

(* No edit is handled before the rules are loaded. *)
LoadComesFirst(queue) ==
    \E i \in DOMAIN queue :
        queue[i] = "state_changed" /\ \A j \in 1..i - 1 : queue[j] # "filter_changed"

(* An option is handled before the rules are loaded. *)
OptionComesFirst(queue) ==
    \E i \in DOMAIN queue :
        queue[i] = "filter_changed" /\ \A j \in 1..i - 1 : queue[j] # "state_changed"

TypeInv ==
    /\ shared \in Seq(Rules) /\ published \in Seq(Rules)
    /\ wanted \in Seq(Rules) /\ loaded \in Seq(Rules)
    /\ Len(shared) <= MaxRules /\ Len(published) <= MaxRules /\ Len(loaded) <= MaxRules
    /\ Len(wanted) = Len(shared)
    /\ rows \in Seq(Rows) /\ Len(rows) = Len(loaded)
    /\ infos \in Seq(ToSet(infos))
    /\ dir \in Directions
    /\ panel \in Panels
    /\ messages \in Seq(Messages)
    /\ thread \in Threads
    /\ refresh_queued \in BOOLEAN
    /\ crossed \in BOOLEAN /\ mismatched \in BOOLEAN

(* What has not been handled yet is announced. *)
AnnouncedInv ==
    /\ panel.selected > Len(loaded) => In("filter_id_changed", messages)
    /\ shared # loaded => In("state_changed", messages)

(* Rules that were taken back are loaded before any edit is handled. *)
LoadedFirst == shared # loaded => LoadComesFirst(messages)

(* The panel shows a rule as it is loaded. *)
Calm ==
    /\ shared = wanted
    /\ LoadedFirst
    /\ panel = PanelFor(loaded, panel.selected)

(* A number was typed, which is the next message. *)
Typed ==
    /\ shared = wanted
    /\ LoadedFirst
    /\ Received("filter_id_changed") /\ ~In("filter_changed", messages)

(* The selected rule was edited, which is the next message. *)
Edited ==
    /\ Received("filter_changed")
    /\ shared = loaded
    /\ panel.selected \in DOMAIN shared
    /\ wanted = [shared EXCEPT ![panel.selected] = panel.filter]

(* The rules were taken back while an option was still to be handled, for  *)
(* which the panel holds what is there or `crossed` says that it does not. *)
Overtaken ==
    /\ shared = wanted
    /\ \/ panel = PanelFor(loaded, panel.selected)
       \/ Received("filter_changed") /\ panel.selected # 0
    /\ IF crossed
       THEN OptionComesFirst(messages) /\ panel.selected # 0
       ELSE panel.selected \in DOMAIN shared => panel.filter = shared[panel.selected]

EditInv == Overtaken \/ (~crossed /\ (Calm \/ Typed \/ Edited))

IInv == TypeInv /\ AnnouncedInv /\ RowsMatchFilters /\ WindowsShowRules /\ EditInv
-----------------------------------------------------------------------------
(***************************************************************************)
(* Operators.                                                              *)
(***************************************************************************)

(* < is well-founded.                                                      *)
LEMMA LeastNat ==
    ASSUME NEW T \in SUBSET Nat, T # {}
    PROVE  \E x \in T : \A y \in T : x <= y
<1>. DEFINE R == OpToRel(<, Nat)
<1>1. \A x, y \in Nat : y < x => <<y, x>> \in R
  BY DEF OpToRel
<1>2. IsWellFoundedOn(R, Nat)
  BY NatLessThanWellFounded
<1>. HIDE DEF R
<1>3. PICK x \in T : \A y \in T : ~ (<<y, x>> \in R)
  BY <1>2, WFMin
<1>4. \A y \in T : ~ (y < x)
  BY <1>1, <1>3
<1>. QED  BY <1>4

(* Each title has a place in the order of the column. *)
LEMMA RankFacts ==
    ASSUME NEW rule \in Rules
    PROVE  Rank(rule) \in Nat
<1>1. DOMAIN TextOrder = 1..Len(TextOrder)
  BY EditorAssumption
<1>2. \E i \in DOMAIN TextOrder : TextOrder[i] = rule.window_title
  BY EditorAssumption DEF ToSet
<1>3. Rank(rule) \in DOMAIN TextOrder
  BY <1>2 DEF Rank
<1>. QED  BY <1>1, <1>3, EditorAssumption

(* Of two rows one sorts before the other. *)
LEMMA SortsBeforeFacts ==
    ASSUME NEW unsorted \in Seq(Rows), NEW direction \in Directions
    PROVE  \A i, j \in DOMAIN unsorted :
              /\ i # j => SortsBefore(unsorted, direction, i, j) \/ SortsBefore(unsorted, direction, j, i)
              /\ ~(SortsBefore(unsorted, direction, i, j) /\ SortsBefore(unsorted, direction, j, i))
              /\ \A k \in DOMAIN unsorted :
                    SortsBefore(unsorted, direction, i, j) /\ SortsBefore(unsorted, direction, j, k)
                        => SortsBefore(unsorted, direction, i, k)
<1>1. \A i \in DOMAIN unsorted :
          /\ i \in Nat
          /\ unsorted[i].ix \in Nat
          /\ Rank(unsorted[i].rule) \in Nat
  <2> TAKE i \in DOMAIN unsorted
  <2>1. unsorted[i] \in Rows
    OBVIOUS
  <2>2. unsorted[i].ix \in Nat /\ unsorted[i].rule \in Rules
    BY <2>1, EditorAssumption DEF Rows
  <2>. QED  BY <2>2, RankFacts
<1>. DEFINE rank == [i \in DOMAIN unsorted |-> Rank(unsorted[i].rule)]
            ix == [i \in DOMAIN unsorted |-> unsorted[i].ix]
<1>2. \A i, j \in DOMAIN unsorted :
          SortsBefore(unsorted, direction, i, j) <=>
              \/ direction = "desc" /\ rank[i] < rank[j]
              \/ direction = "asc" /\ rank[j] < rank[i]
              \/ (direction = "none" \/ rank[i] = rank[j]) /\ (ix[i] < ix[j] \/ (ix[i] = ix[j] /\ i < j))
  BY DEF SortsBefore
<1>3. \A i \in DOMAIN unsorted : i \in Nat /\ ix[i] \in Nat /\ rank[i] \in Nat
  BY <1>1
<1>4. direction \in {"none", "desc", "asc"}
  BY DEF Directions
<1>. HIDE DEF rank, ix
<1>5. \A i, j \in DOMAIN unsorted :
          /\ i # j => SortsBefore(unsorted, direction, i, j) \/ SortsBefore(unsorted, direction, j, i)
          /\ ~(SortsBefore(unsorted, direction, i, j) /\ SortsBefore(unsorted, direction, j, i))
  <2> TAKE i, j \in DOMAIN unsorted
  <2>. QED  BY <1>2, <1>3, <1>4
<1>6. \A i, j, k \in DOMAIN unsorted :
          SortsBefore(unsorted, direction, i, j) /\ SortsBefore(unsorted, direction, j, k)
              => SortsBefore(unsorted, direction, i, k)
  <2> TAKE i, j, k \in DOMAIN unsorted
  <2>. QED  BY <1>2, <1>3, <1>4, SMTT(30)
<1>. QED  BY <1>5, <1>6

(* Sorting puts the rows in another order, and no row is lost or doubled. *)
LEMMA SortedFacts ==
    ASSUME NEW unsorted \in Seq(Rows), NEW direction \in Directions
    PROVE  LET sorted == Sorted(unsorted, direction) IN
           /\ sorted \in Seq(Rows) /\ Len(sorted) = Len(unsorted)
           /\ \A k \in DOMAIN sorted : \E i \in DOMAIN unsorted : sorted[k] = unsorted[i]
           /\ \A i \in DOMAIN unsorted : \E k \in DOMAIN sorted : sorted[k] = unsorted[i]
           /\ \E from \in Bijection(DOMAIN sorted, DOMAIN unsorted) :
                 \A k \in DOMAIN sorted : sorted[k] = unsorted[from[k]]
<1>. DEFINE n == Len(unsorted)
            before(i) == {j \in DOMAIN unsorted : j = i \/ SortsBefore(unsorted, direction, j, i)}
            place == [i \in DOMAIN unsorted |-> Cardinality(before(i))]
            at == [k \in DOMAIN unsorted |-> CHOOSE i \in DOMAIN unsorted : place[i] = k]
            result == [k \in DOMAIN unsorted |-> unsorted[CHOOSE i \in DOMAIN unsorted : place[i] = k]]
<1>1. n \in Nat /\ DOMAIN unsorted = 1..n
  OBVIOUS
<1>2. IsFiniteSet(1..n) /\ Cardinality(1..n) = n
  BY <1>1, FS_Interval, SMTT(30)
<1>3. \A i \in 1..n : IsFiniteSet(before(i)) /\ place[i] \in 1..n
  <2> TAKE i \in 1..n
  <2>1. before(i) \in SUBSET (1..n) /\ i \in before(i)
    BY <1>1
  <2>2. IsFiniteSet(before(i)) /\ Cardinality(before(i)) <= n /\ Cardinality(before(i)) \in Nat
    BY <1>2, <2>1, FS_Subset, FS_CardinalityType
  <2>3. Cardinality(before(i)) # 0
    BY <2>1, <2>2, FS_EmptySet
  <2>. QED  BY <1>1, <2>2, <2>3
<1>4. ASSUME NEW i \in 1..n, NEW j \in 1..n, place[i] = place[j] PROVE i = j
  <2>1. ASSUME NEW a \in 1..n, NEW b \in 1..n, SortsBefore(unsorted, direction, a, b),
               place[a] = place[b]
        PROVE  FALSE
    <3>1. before(a) \subseteq before(b) /\ b \in before(b)
      BY <1>1, <2>1, SortsBeforeFacts, SMTT(30)
    <3>2. b \notin before(a)
      BY <1>1, <2>1, SortsBeforeFacts, SMTT(30)
    <3>3. before(a) = before(b)
      BY <1>1, <1>3, <2>1, <3>1, FS_Subset
    <3>. QED  BY <3>1, <3>2, <3>3
  <2>. QED  BY <1>1, <1>4, <2>1, SortsBeforeFacts
<1>. HIDE DEF before
<1>5. place \in Injection(1..n, 1..n)
  <2>1. place \in [1..n -> 1..n]
    BY <1>1, <1>3
  <2>. HIDE DEF place
  <2>. QED  BY <1>4, <2>1 DEF Injection, IsInjective
<1>6. place \in Surjection(1..n, 1..n)
  BY <1>2, <1>5, FS_Injection
<1>7. \A k \in 1..n : \E i \in 1..n : place[i] = k
  BY <1>6 DEF Surjection
<1>8. \A k \in 1..n : at[k] \in 1..n /\ place[at[k]] = k
  BY <1>1, <1>7
<1>. HIDE DEF at, place
<1>9. \A i \in 1..n : place[i] \in 1..n /\ at[place[i]] = i
  BY <1>3, <1>4, <1>8
<1>10. Sorted(unsorted, direction) = result
  BY DEF Sorted, before, place
<1>11. \A k \in 1..n : result[k] = unsorted[at[k]]
  BY <1>1 DEF at
<1>12. result \in [1..n -> Rows]
  <2>1. \A k \in 1..n : unsorted[at[k]] \in Rows
    BY <1>1, <1>8
  <2>2. DOMAIN result = 1..n
    BY <1>1
  <2>3. result = [k \in 1..n |-> unsorted[at[k]]]
    BY <1>1, <1>11, <2>2
  <2>. HIDE DEF result
  <2>. QED  BY <2>1, <2>3
<1>. HIDE DEF result, n
<1>13. result \in Seq(Rows) /\ Len(result) = n /\ DOMAIN result = 1..n
  BY <1>1, <1>12
<1>14. \A k \in 1..n : \E i \in 1..n : result[k] = unsorted[i]
  BY <1>8, <1>11
<1>15. \A i \in 1..n : \E k \in 1..n : result[k] = unsorted[i]
  BY <1>9, <1>11
<1>16. n = Len(unsorted)
  BY DEF n
<1>17. at \in Bijection(1..n, 1..n)
  <2>1. at = [k \in 1..n |-> at[k]]
    BY <1>1 DEF at
  <2>2. at \in [1..n -> 1..n]
    BY <1>8, <2>1
  <2>3. \A i, j \in 1..n : at[i] = at[j] => i = j
    BY <1>8
  <2>4. \A i \in 1..n : \E k \in 1..n : at[k] = i
    BY <1>9
  <2>. QED  BY <2>2, <2>3, <2>4 DEF Bijection, Injection, IsInjective, Surjection
<1>18. \E from \in Bijection(1..n, 1..n) : \A k \in 1..n : result[k] = unsorted[from[k]]
  BY <1>11, <1>17
<1>. QED  BY <1>1, <1>10, <1>13, <1>14, <1>15, <1>16, <1>18

(* The panel is for one of the rules, or for none if there are none. *)
LEMMA PanelFacts ==
    ASSUME NEW rules \in Seq(Rules), Len(rules) <= MaxRules, NEW index \in Nat
    PROVE  LET p == PanelFor(rules, index) IN
           /\ p \in Panels
           /\ p.selected <= Len(rules)
           /\ index <= Len(rules) => p.selected = index
           /\ p.selected # 0 => p.selected \in DOMAIN rules /\ p.filter = rules[p.selected]
           /\ p.selected = 0 => p.filter = DefaultFilter
           /\ PanelFor(rules, p.selected) = p
<1>. DEFINE selected == IF index > Len(rules) THEN Len(rules) ELSE index
            filter == IF selected = 0 THEN DefaultFilter ELSE rules[selected]
<1>1. selected \in Nat /\ selected <= Len(rules) /\ Len(rules) \in Nat /\ MaxRules \in Nat
  BY EditorAssumption
<1>2. selected # 0 => selected \in DOMAIN rules
  BY <1>1
<1>3. filter \in Rules
  BY <1>2, EditorAssumption
<1>4. PanelFor(rules, index) = [selected |-> selected, filter |-> filter]
  BY DEF PanelFor
<1>5. index <= Len(rules) => selected = index
  BY <1>1
<1>6. ~(selected > Len(rules))
  BY <1>1
<1>7. PanelFor(rules, selected) = [selected |-> selected, filter |-> filter]
  BY <1>6 DEF PanelFor
<1>8. selected \in 0..MaxRules + 1
  BY <1>1
<1>9. /\ selected = 0 => filter = DefaultFilter
      /\ selected # 0 => filter = rules[selected]
  OBVIOUS
<1>. HIDE DEF selected, filter
<1>. QED  BY <1>1, <1>2, <1>3, <1>4, <1>5, <1>7, <1>8, <1>9 DEF Panels
-----------------------------------------------------------------------------
(***************************************************************************)
(* The queue of messages.                                                  *)
(***************************************************************************)
LEMMA ConcatFacts ==
    ASSUME NEW s \in Seq(Messages), NEW t \in Seq(Messages)
    PROVE  /\ s \o t \in Seq(Messages)
           /\ \A m \in Messages : In(m, s) => In(m, s \o t)
           /\ LoadComesFirst(s) => LoadComesFirst(s \o t)
           /\ OptionComesFirst(s) => OptionComesFirst(s \o t)
<1>1. \A i \in DOMAIN s : i \in DOMAIN (s \o t) /\ (s \o t)[i] = s[i]
  OBVIOUS
<1>2. LoadComesFirst(s) => LoadComesFirst(s \o t)
  <2> HAVE LoadComesFirst(s)
  <2>1. PICK i \in DOMAIN s : s[i] = "state_changed" /\ \A j \in 1..i - 1 : s[j] # "filter_changed"
    BY DEF LoadComesFirst
  <2>2. \A j \in 1..i - 1 : j \in DOMAIN s
    OBVIOUS
  <2>. QED  BY <1>1, <2>1, <2>2 DEF LoadComesFirst
<1>3. OptionComesFirst(s) => OptionComesFirst(s \o t)
  <2> HAVE OptionComesFirst(s)
  <2>1. PICK i \in DOMAIN s : s[i] = "filter_changed" /\ \A j \in 1..i - 1 : s[j] # "state_changed"
    BY DEF OptionComesFirst
  <2>2. \A j \in 1..i - 1 : j \in DOMAIN s
    OBVIOUS
  <2>. QED  BY <1>1, <2>1, <2>2 DEF OptionComesFirst
<1>. QED  BY <1>1, <1>2, <1>3 DEF In

LEMMA AppendFacts ==
    ASSUME NEW s \in Seq(Messages), NEW m \in Messages
    PROVE  /\ Append(s, m) \in Seq(Messages)
           /\ Append(s, m) # <<>>
           /\ In(m, Append(s, m))
           /\ \A other \in Messages : In(other, s) => In(other, Append(s, m))
           /\ LoadComesFirst(s) => LoadComesFirst(Append(s, m))
           /\ OptionComesFirst(s) => OptionComesFirst(Append(s, m))
           /\ ~OptionComesFirst(s) /\ m = "state_changed" => LoadComesFirst(Append(s, m))
           /\ \A other \in Messages : other # m /\ ~In(other, s) => ~In(other, Append(s, m))
           /\ s # <<>> => Head(Append(s, m)) = Head(s)
<1>. DEFINE r == Append(s, m)
<1>1. r \in Seq(Messages) /\ Len(r) = Len(s) + 1 /\ r[Len(s) + 1] = m
  OBVIOUS
<1>2. \A i \in DOMAIN s : i \in DOMAIN r /\ r[i] = s[i]
  OBVIOUS
<1>3. s # <<>> => Head(r) = Head(s)
  OBVIOUS
<1>. HIDE DEF r
<1>4. Len(s) + 1 \in DOMAIN r /\ Len(s) \in Nat /\ DOMAIN s = 1..Len(s) /\ r # <<>>
  BY <1>1
<1>5. LoadComesFirst(s) => LoadComesFirst(r)
  <2> HAVE LoadComesFirst(s)
  <2>1. PICK i \in DOMAIN s : s[i] = "state_changed" /\ \A j \in 1..i - 1 : s[j] # "filter_changed"
    BY DEF LoadComesFirst
  <2>2. \A j \in 1..i - 1 : j \in DOMAIN s
    OBVIOUS
  <2>. QED  BY <1>2, <2>1, <2>2 DEF LoadComesFirst
<1>6. OptionComesFirst(s) => OptionComesFirst(r)
  <2> HAVE OptionComesFirst(s)
  <2>1. PICK i \in DOMAIN s : s[i] = "filter_changed" /\ \A j \in 1..i - 1 : s[j] # "state_changed"
    BY DEF OptionComesFirst
  <2>2. \A j \in 1..i - 1 : j \in DOMAIN s
    OBVIOUS
  <2>. QED  BY <1>2, <2>1, <2>2 DEF OptionComesFirst
<1>7. ~OptionComesFirst(s) /\ m = "state_changed" => LoadComesFirst(r)
  <2> HAVE ~OptionComesFirst(s) /\ m = "state_changed"
  <2>. DEFINE T == {i \in DOMAIN r : r[i] = "state_changed"}
  <2>1. T \in SUBSET Nat /\ Len(s) + 1 \in T
    BY <1>1, <1>4
  <2>2. PICK first \in T : \A i \in T : first <= i
    BY <2>1, LeastNat
  <2>3. first \in DOMAIN r /\ first \in Nat /\ first <= Len(s) + 1
    BY <2>1, <2>2
  <2>4. ASSUME NEW j \in 1..first - 1 PROVE r[j] # "filter_changed"
    <3>1. j \in DOMAIN s /\ j \in Nat /\ j < first
      BY <1>4, <2>3
    <3>2. \A k \in 1..j - 1 : k \in DOMAIN s /\ k \in DOMAIN r /\ k < first
      BY <1>1, <1>4, <2>3, <3>1
    <3>3. \A k \in 1..j - 1 : s[k] # "state_changed"
      BY <1>2, <2>2, <2>3, <3>2
    <3>. QED  BY <1>2, <3>1, <3>3 DEF OptionComesFirst
  <2>. QED  BY <2>2, <2>4 DEF LoadComesFirst
<1>8. In(m, r) /\ \A other \in Messages : In(other, s) => In(other, r)
  BY <1>1, <1>2, <1>4 DEF In
<1>9. \A other \in Messages : other # m /\ ~In(other, s) => ~In(other, r)
  BY <1>1, <1>2, <1>4 DEF In
<1>. QED  BY <1>1, <1>3, <1>4, <1>5, <1>6, <1>7, <1>8, <1>9 DEF r

LEMMA TailFacts ==
    ASSUME NEW s \in Seq(Messages), s # <<>>
    PROVE  /\ Tail(s) \in Seq(Messages)
           /\ \A m \in Messages : m # Head(s) /\ In(m, s) => In(m, Tail(s))
           /\ LoadComesFirst(s) => Head(s) # "filter_changed"
           /\ LoadComesFirst(s) /\ Head(s) # "state_changed" => LoadComesFirst(Tail(s))
           /\ OptionComesFirst(s) => Head(s) # "state_changed"
           /\ OptionComesFirst(s) /\ Head(s) # "filter_changed" => OptionComesFirst(Tail(s))
           /\ Head(s) = "filter_changed" => OptionComesFirst(s)
           /\ \A m \in Messages : ~In(m, s) => ~In(m, Tail(s))
<1>. DEFINE r == Tail(s)
<1>1. r \in Seq(Messages) /\ Head(s) = s[1] /\ Len(r) = Len(s) - 1 /\ Len(s) \in Nat \ {0}
  OBVIOUS
<1>2. \A i \in DOMAIN s : i # 1 => i - 1 \in DOMAIN r /\ r[i - 1] = s[i]
  OBVIOUS
<1>3. \A i \in DOMAIN r : r[i] = s[i + 1] /\ i + 1 \in DOMAIN s
  OBVIOUS
<1>. HIDE DEF r
<1>4. \A m \in Messages : m # Head(s) /\ In(m, s) => In(m, r)
  BY <1>1, <1>2 DEF In
<1>5. ASSUME LoadComesFirst(s)
      PROVE  Head(s) # "filter_changed" /\ (Head(s) # "state_changed" => LoadComesFirst(r))
  <2>1. PICK i \in DOMAIN s : s[i] = "state_changed" /\ \A j \in 1..i - 1 : s[j] # "filter_changed"
    BY <1>5 DEF LoadComesFirst
  <2>2. CASE i = 1
    BY <1>1, <2>1, <2>2
  <2>3. CASE i # 1
    <3>1. 1 \in 1..i - 1 /\ i - 1 \in DOMAIN r /\ r[i - 1] = "state_changed"
      BY <1>2, <2>1, <2>3
    <3>2. \A j \in 1..(i - 1) - 1 : j \in DOMAIN r /\ j + 1 \in 1..i - 1
      BY <1>1, <2>3
    <3>3. \A j \in 1..(i - 1) - 1 : r[j] # "filter_changed"
      BY <1>3, <2>1, <3>2
    <3>. QED  BY <1>1, <2>1, <3>1, <3>3 DEF LoadComesFirst
  <2>. QED  BY <2>2, <2>3
<1>6. ASSUME OptionComesFirst(s)
      PROVE  Head(s) # "state_changed" /\ (Head(s) # "filter_changed" => OptionComesFirst(r))
  <2>1. PICK i \in DOMAIN s : s[i] = "filter_changed" /\ \A j \in 1..i - 1 : s[j] # "state_changed"
    BY <1>6 DEF OptionComesFirst
  <2>2. CASE i = 1
    BY <1>1, <2>1, <2>2
  <2>3. CASE i # 1
    <3>1. 1 \in 1..i - 1 /\ i - 1 \in DOMAIN r /\ r[i - 1] = "filter_changed"
      BY <1>2, <2>1, <2>3
    <3>2. \A j \in 1..(i - 1) - 1 : j \in DOMAIN r /\ j + 1 \in 1..i - 1
      BY <1>1, <2>3
    <3>3. \A j \in 1..(i - 1) - 1 : r[j] # "state_changed"
      BY <1>3, <2>1, <3>2
    <3>. QED  BY <1>1, <2>1, <3>1, <3>3 DEF OptionComesFirst
  <2>. QED  BY <2>2, <2>3
<1>7. Head(s) = "filter_changed" => OptionComesFirst(s)
  BY <1>1 DEF OptionComesFirst
<1>8. \A m \in Messages : ~In(m, s) => ~In(m, r)
  BY <1>3 DEF In
<1>. QED  BY <1>1, <1>4, <1>5, <1>6, <1>7, <1>8 DEF r

LEMMA PostedFacts ==
    ASSUME NEW old, NEW new
    PROVE  Posted(old, new) \in Seq(Messages)
<1>1. <<>> \in Seq(Messages) /\ <<"filter_id_changed">> \in Seq(Messages)
      /\ <<"filter_changed">> \in Seq(Messages)
  BY DEF Messages
<1>. DEFINE first == IF old.selected = new.selected THEN <<>> ELSE <<"filter_id_changed">>
            second == IF [old.filter EXCEPT !.action = new.filter.action] = new.filter THEN <<>>
                      ELSE <<"filter_changed">>
<1>2. first \in Seq(Messages) /\ second \in Seq(Messages)
  BY <1>1
<1>. HIDE DEF first, second
<1>3. first \o second \in Seq(Messages)
  BY <1>2
<1>. QED  BY <1>3 DEF Posted, first, second
-----------------------------------------------------------------------------
(***************************************************************************)
(* populate_filter_list.                                                   *)
(***************************************************************************)

(* The rules as rows, before they are sorted. *)
LEMMA UpdatedFacts ==
    ASSUME TypeInv, NEW rules \in Seq(Rules), Len(rules) <= MaxRules
    PROVE  LET updated == [i \in DOMAIN rules |-> RowFor(rules, i)] IN
           /\ updated \in Seq(Rows) /\ Len(updated) = Len(rules)
           /\ \A i \in DOMAIN rules :
                 /\ updated[i].rule = rules[i]
                 /\ i \in DOMAIN rows => updated[i].ix = rows[i].ix
                 /\ i \notin DOMAIN rows => updated[i].ix = i
<1>. DEFINE updated == [i \in DOMAIN rules |-> RowFor(rules, i)]
<1>1. ASSUME NEW i \in DOMAIN rules
      PROVE  /\ RowFor(rules, i) \in Rows /\ RowFor(rules, i).rule = rules[i]
             /\ i \in DOMAIN rows => RowFor(rules, i).ix = rows[i].ix
             /\ i \notin DOMAIN rows => RowFor(rules, i).ix = i
  <2>1. i \in 1..MaxRules /\ rules[i] \in Rules
    BY EditorAssumption
  <2>2. CASE i \in DOMAIN rows
    <3>1. rows[i] \in Rows
      BY <2>2 DEF TypeInv
    <3>. QED  BY <2>1, <2>2, <3>1 DEF RowFor, Rows
  <2>3. CASE i \notin DOMAIN rows
    BY <2>1, <2>3 DEF RowFor, Rows
  <2>. QED  BY <2>2, <2>3
<1>2. updated \in [1..Len(rules) -> Rows]
  BY <1>1
<1>3. \A i \in DOMAIN rules : updated[i] = RowFor(rules, i)
  OBVIOUS
<1>. HIDE DEF updated
<1>4. updated \in Seq(Rows) /\ Len(updated) = Len(rules)
  BY <1>2
<1>. QED  BY <1>1, <1>3, <1>4 DEF updated

(* The rows of windows stay a list, and each is worked out anew. *)
LEMMA UpdateInfosFacts ==
    ASSUME TypeInv, NEW rules
    PROVE  LET new == UpdateWindowInfos(rules) IN
           /\ new \in Seq(ToSet(new)) /\ Len(new) = Len(infos)
           /\ \A i \in DOMAIN new : new[i].shown = Shown(rules, i - 1, new[i].info)
<1>. DEFINE new == UpdateWindowInfos(rules)
<1>1. DOMAIN infos = 1..Len(infos) /\ Len(infos) \in Nat
  BY DEF TypeInv
<1>2. /\ DOMAIN new = 1..Len(infos) /\ new = [i \in 1..Len(infos) |-> new[i]]
      /\ \A i \in DOMAIN new : new[i].shown = Shown(rules, i - 1, new[i].info)
  BY <1>1 DEF UpdateWindowInfos
<1>. HIDE DEF new
<1>3. new \in [1..Len(infos) -> ToSet(new)]
  BY <1>2 DEF ToSet
<1>4. new \in Seq(ToSet(new)) /\ Len(new) = Len(infos)
  BY <1>1, <1>3
<1>. QED  BY <1>2, <1>4 DEF new

LEMMA PopulateStep ==
    ASSUME TypeInv, RowsMatchFilters, WindowsShowRules,
           NEW rules \in Seq(Rules), Len(rules) <= MaxRules, NEW index \in Nat,
           NEW pending \in Seq(Messages),
           PopulateFilterList(rules, index, pending)
    PROVE  /\ loaded' = rules
           /\ rows' \in Seq(Rows) /\ Len(rows') = Len(rules)
           /\ infos' \in Seq(ToSet(infos'))
           /\ panel' = PanelFor(rules, index)
           /\ messages' \in Seq(Messages)
           /\ \A m \in Messages : In(m, pending) => In(m, messages')
           /\ mismatched' \in BOOLEAN
           /\ RowsMatchFilters'
           /\ WindowsShowRules'
<1>. DEFINE updated == [i \in DOMAIN rules |-> RowFor(rules, i)]
            did_delete == Len(rows) > Len(rules)
            did_change == \E i \in DOMAIN rules : i \notin DOMAIN rows \/ rows[i].rule # rules[i]
            populated == PanelFor(rules, SelectedAfter(rules))
<1>1. /\ loaded' = rules
      /\ rows' = IF did_change THEN Sorted(updated, dir) ELSE updated
      /\ infos' = IF did_change \/ did_delete THEN UpdateWindowInfos(rules) ELSE infos
      /\ panel' = PanelFor(rules, index)
      /\ messages' = pending \o Posted(panel, populated) \o Posted(populated, panel')
      /\ mismatched' = \/ \E i \in DOMAIN rules \cap DOMAIN rows : rows[i].ix # i
                       \/ mismatched /\ ~did_change /\ ~did_delete
  BY DEF PopulateFilterList
<1>2. /\ updated \in Seq(Rows) /\ Len(updated) = Len(rules)
      /\ \A i \in DOMAIN rules :
            /\ updated[i].rule = rules[i]
            /\ i \in DOMAIN rows => updated[i].ix = rows[i].ix
            /\ i \notin DOMAIN rows => updated[i].ix = i
  BY UpdatedFacts
<1>3. dir \in Directions /\ rows \in Seq(Rows) /\ loaded \in Seq(Rules) /\ Len(rows) = Len(loaded)
  BY DEF TypeInv
<1>. HIDE DEF updated, did_delete, did_change, populated
<1>4. /\ rows' \in Seq(Rows) /\ Len(rows') = Len(updated)
      /\ \A k \in DOMAIN rows' : \E i \in DOMAIN updated : rows'[k] = updated[i]
      /\ \A i \in DOMAIN updated : \E k \in DOMAIN rows' : rows'[k] = updated[i]
      /\ \E from \in Bijection(DOMAIN rows', DOMAIN updated) :
            \A k \in DOMAIN rows' : rows'[k] = updated[from[k]]
  <2>1. CASE did_change
    BY <1>1, <1>2, <1>3, <2>1, SortedFacts
  <2>2. CASE ~did_change
    <3>1. rows' = updated
      BY <1>1, <2>2
    <3>. DEFINE same == [k \in DOMAIN updated |-> k]
    <3>2. same \in Bijection(DOMAIN updated, DOMAIN updated)
      BY DEF Bijection, Injection, IsInjective, Surjection
    <3>3. \A k \in DOMAIN updated : updated[k] = updated[same[k]]
      OBVIOUS
    <3>. HIDE DEF same
    <3>. QED  BY <1>2, <3>1, <3>2, <3>3
  <2>. QED  BY <2>1, <2>2
<1>5. /\ messages' \in Seq(Messages)
      /\ \A m \in Messages : In(m, pending) => In(m, messages')
  <2>. DEFINE first == pending \o Posted(panel, populated)
  <2>1. /\ first \in Seq(Messages)
        /\ \A m \in Messages : In(m, pending) => In(m, first)
    BY PostedFacts, ConcatFacts
  <2>2. messages' = first \o Posted(populated, panel')
    BY <1>1
  <2>. HIDE DEF first
  <2>. QED  BY <2>1, <2>2, PostedFacts, ConcatFacts
<1>6. infos' \in Seq(ToSet(infos'))
  BY <1>1, UpdateInfosFacts DEF TypeInv
<1>7. ASSUME ~mismatched'
      PROVE  /\ ~mismatched \/ did_change \/ did_delete
             /\ \A i \in DOMAIN rules : updated[i].ix = i
  <2>1. ~mismatched \/ did_change \/ did_delete
    BY <1>1, <1>7, Zenon
  <2>2. \A i \in DOMAIN rules : i \in DOMAIN rows => rows[i].ix = i
    BY <1>1, <1>7, Zenon
  <2>3. \A i \in DOMAIN rules : updated[i].ix = i
    BY <1>2, <2>2
  <2>. QED  BY <2>1, <2>3
<1>8. RowsMatchFilters'
  <2>0. \E place \in Bijection(DOMAIN rows', DOMAIN rules) :
           \A k \in DOMAIN rows' : rows'[k].rule = rules[place[k]]
    <3>1. DOMAIN updated = DOMAIN rules
      BY <1>2
    <3>2. PICK from \in Bijection(DOMAIN rows', DOMAIN rules) :
             \A k \in DOMAIN rows' : rows'[k] = updated[from[k]]
      BY <1>4, <3>1
    <3>3. \A k \in DOMAIN rows' : from[k] \in DOMAIN rules
      BY <3>2 DEF Bijection, Injection
    <3>. QED  BY <1>2, <3>2, <3>3
  <2>. SUFFICES ASSUME ~mismatched'
                PROVE  /\ {rows'[i].ix : i \in DOMAIN rows'} = DOMAIN rules
                       /\ \A i \in DOMAIN rows' : rows'[i].rule = rules[rows'[i].ix]
    BY <1>1, <2>0 DEF RowsMatchFilters
  <2>1. DOMAIN updated = DOMAIN rules
    BY <1>2
  <2>2. \A i \in DOMAIN rules : updated[i].ix = i /\ updated[i].rule = rules[i]
    BY <1>2, <1>7
  <2>3. {rows'[i].ix : i \in DOMAIN rows'} = DOMAIN rules
    <3>1. ASSUME NEW k \in DOMAIN rows' PROVE rows'[k].ix \in DOMAIN rules
      <4>1. PICK i \in DOMAIN rules : rows'[k] = updated[i]
        BY <1>4, <2>1
      <4>. QED  BY <2>2, <4>1
    <3>2. ASSUME NEW i \in DOMAIN rules PROVE \E k \in DOMAIN rows' : rows'[k].ix = i
      <4>1. PICK k \in DOMAIN rows' : rows'[k] = updated[i]
        BY <1>4, <2>1
      <4>2. rows'[k].ix = i
        BY <2>2, <4>1
      <4>. QED  BY <4>2
    <3>. QED  BY <3>1, <3>2
  <2>4. ASSUME NEW k \in DOMAIN rows' PROVE rows'[k].rule = rules[rows'[k].ix]
    <3>1. PICK i \in DOMAIN rules : rows'[k] = updated[i]
      BY <1>4, <2>1
    <3>. QED  BY <2>2, <3>1
  <2>. QED  BY <2>3, <2>4
<1>9. WindowsShowRules'
  <2>. SUFFICES ASSUME ~mismatched'
                PROVE  \A i \in DOMAIN infos' : infos'[i].shown = Shown(rules, i - 1, infos'[i].info)
    BY <1>1 DEF WindowsShowRules
  <2>1. CASE did_change \/ did_delete
    BY <1>1, <2>1, UpdateInfosFacts
  <2>2. CASE ~(did_change \/ did_delete)
    <3>1. \A i \in DOMAIN rules : i \in DOMAIN rows /\ rows[i].rule = rules[i]
      BY <2>2 DEF did_change
    <3>2. Len(rules) = Len(rows)
      <4>1. Len(rows) <= Len(rules)
        BY <1>3, <2>2 DEF did_delete
      <4>2. Len(rules) <= Len(rows)
        BY <1>3, <3>1
      <4>. QED  BY <1>3, <4>1, <4>2
    <3>3. \A i \in DOMAIN rows : rows[i].ix = i
      <4>1. \A i \in DOMAIN rows : i \in DOMAIN rules \cap DOMAIN rows
        BY <1>3, <3>2
      <4>. QED  BY <1>1, <4>1
    <3>4. \A i \in DOMAIN rows : rows[i].rule = loaded[i]
      BY <1>7, <2>2, <3>3 DEF RowsMatchFilters
    <3>5. loaded = rules
      BY <1>3, <3>1, <3>2, <3>4
    <3>6. ~mismatched /\ infos' = infos
      BY <1>1, <1>7, <2>2
    <3>. QED  BY <3>5, <3>6 DEF WindowsShowRules
  <2>. QED  BY <2>1, <2>2
<1>10. mismatched' \in BOOLEAN
  BY <1>1, Zenon DEF TypeInv
<1>. QED  BY <1>1, <1>2, <1>4, <1>5, <1>6, <1>8, <1>9, <1>10
-----------------------------------------------------------------------------
(***************************************************************************)
(* Every action preserves the invariant.                                   *)
(***************************************************************************)
LEMMA InitInv == Init => IInv
<1> SUFFICES ASSUME Init PROVE IInv
  OBVIOUS
<1>1. /\ StartRules \in Seq(Rules) /\ Len(StartRules) <= MaxRules /\ DefaultFilter \in Rules
      /\ MaxRules \in Nat /\ OpenWindows \in Seq(ToSet(OpenWindows))
  BY EditorAssumption
<1>2. rows \in Seq(Rows) /\ Len(rows) = Len(StartRules)
  <2>1. \A i \in 1..Len(StartRules) : [ix |-> i, rule |-> StartRules[i]] \in Rows
    BY <1>1 DEF Rows
  <2>2. rows = [i \in 1..Len(StartRules) |-> [ix |-> i, rule |-> StartRules[i]]]
    BY <1>1 DEF Init
  <2>3. rows \in [1..Len(StartRules) -> Rows]
    BY <2>1, <2>2
  <2>. QED  BY <1>1, <2>3
<1>3. panel \in Panels /\ panel.selected = 0
  BY <1>1 DEF Init, Panels
<1>4. messages \in Seq(Messages)
  BY DEF Init, Messages
<1>5. thread \in Threads
  BY <1>1 DEF Init, NewThread, Threads, ThreadStates
<1>6. infos \in Seq(ToSet(infos))
  BY DEF Init
<1>7. TypeInv
  BY <1>1, <1>2, <1>3, <1>4, <1>5, <1>6 DEF Init, TypeInv, Directions
<1>8. AnnouncedInv
  BY <1>1, <1>3 DEF Init, AnnouncedInv
<1>9. RowsMatchFilters
  <2>1. \A i \in DOMAIN StartRules : rows[i].ix = i /\ rows[i].rule = StartRules[i]
    BY DEF Init
  <2>2. DOMAIN rows = DOMAIN StartRules
    BY DEF Init
  <2>3. {rows[i].ix : i \in DOMAIN rows} = DOMAIN StartRules
    BY <2>1, <2>2
  <2>. DEFINE same == [i \in DOMAIN StartRules |-> i]
  <2>4. same \in Bijection(DOMAIN StartRules, DOMAIN StartRules)
    BY DEF Bijection, Injection, IsInjective, Surjection
  <2>5. \A i \in DOMAIN StartRules : rows[i].rule = StartRules[same[i]]
    BY <2>1
  <2>. HIDE DEF same
  <2>. QED  BY <1>2, <2>1, <2>2, <2>3, <2>4, <2>5 DEF Init, RowsMatchFilters
<1>10. WindowsShowRules
  BY DEF Init, WindowsShowRules
<1>11. EditInv
  <2>1. panel = PanelFor(loaded, panel.selected)
    BY <1>1 DEF Init, PanelFor
  <2>. QED  BY <2>1 DEF Init, EditInv, Calm, LoadedFirst
<1>. QED  BY <1>7, <1>8, <1>9, <1>10, <1>11 DEF IInv

(* A window that has handled its messages. *)
LEMMA AtRest ==
    ASSUME IInv, messages = <<>>
    PROVE  /\ shared = loaded
           /\ panel.selected <= Len(loaded)
           /\ ~crossed /\ shared = wanted /\ panel = PanelFor(loaded, panel.selected)
<1>1. (\A m : ~In(m, messages)) /\ ~OptionComesFirst(messages)
  BY DEF In, OptionComesFirst
<1>2. panel.selected \in Nat /\ Len(loaded) \in Nat
  BY EditorAssumption DEF IInv, TypeInv, Panels
<1>3. \A m : ~Received(m)
  BY DEF Received
<1>. QED  BY <1>1, <1>2, <1>3 DEF IInv, AnnouncedInv, EditInv, Calm, Typed, Edited, Overtaken

(* A panel that was filled is for the loaded rules. *)
LEMMA CalmAfterFilling ==
    ASSUME loaded' \in Seq(Rules), Len(loaded') <= MaxRules, NEW index \in Nat,
           panel' = PanelFor(loaded', index)
    PROVE  /\ panel' \in Panels
           /\ panel'.selected <= Len(loaded')
           /\ ~(panel'.selected > Len(loaded'))
           /\ panel' = PanelFor(loaded', panel'.selected)
<1>1. panel' \in Panels /\ panel'.selected <= Len(loaded') /\ PanelFor(loaded', panel'.selected) = panel'
  BY PanelFacts
<1>2. panel'.selected \in Nat /\ Len(loaded') \in Nat
  BY <1>1, EditorAssumption DEF Panels
<1>. QED  BY <1>1, <1>2

(* The rules that are populated are the ones the window will store. *)
LEMMA PopulateInv ==
    ASSUME IInv, NEW rules \in Seq(Rules), Len(rules) <= MaxRules, NEW index \in Nat,
           NEW pending \in Seq(Messages),
           PopulateFilterList(rules, index, pending),
           shared' = rules, wanted' = rules, crossed' = FALSE,
           UNCHANGED <<published, dir, thread, refresh_queued>>
    PROVE  IInv'
<1>1. /\ loaded' = rules
      /\ rows' \in Seq(Rows) /\ Len(rows') = Len(rules)
      /\ infos' \in Seq(ToSet(infos'))
      /\ panel' = PanelFor(rules, index)
      /\ messages' \in Seq(Messages)
      /\ mismatched' \in BOOLEAN
      /\ RowsMatchFilters'
      /\ WindowsShowRules'
  BY PopulateStep DEF IInv
<1>2. /\ panel' \in Panels /\ ~(panel'.selected > Len(loaded'))
      /\ panel' = PanelFor(loaded', panel'.selected)
  BY <1>1, CalmAfterFilling
<1>3. TypeInv'
  BY <1>1, <1>2 DEF IInv, TypeInv
<1>4. AnnouncedInv'
  BY <1>1, <1>2 DEF AnnouncedInv
<1>5. EditInv'
  BY <1>1, <1>2 DEF EditInv, Calm, LoadedFirst
<1>. QED  BY <1>1, <1>3, <1>4, <1>5 DEF IInv

LEMMA UpdateSettingsStep ==
    ASSUME IInv, NEW rules \in Seq(Rules), Len(rules) <= MaxRules, NEW index \in Nat,
           UpdateSettings(rules, index), wanted' = rules
    PROVE  IInv'
<1>1. <<>> \in Seq(Messages)
  OBVIOUS
<1>2. /\ PopulateFilterList(rules, index, <<>>) /\ shared' = rules
      /\ messages = <<>>
      /\ UNCHANGED <<published, dir, thread, refresh_queued, crossed>>
  BY DEF UpdateSettings, CanInput, gathering, outside
<1>3. ~crossed /\ crossed \in BOOLEAN
  BY <1>2, AtRest DEF IInv, TypeInv
<1>. QED  BY <1>1, <1>2, <1>3, PopulateInv

(* What the user does to the list of rules leaves it a list of rules. *)
LEMMA RemovedRule ==
    ASSUME NEW rules \in Seq(Rules), NEW k \in 1..Len(rules)
    PROVE  RemoveAt(rules, k) \in Seq(Rules) /\ Len(RemoveAt(rules, k)) = Len(rules) - 1
<1>. DEFINE before == SubSeq(rules, 1, k - 1)
            after == SubSeq(rules, k + 1, Len(rules))
<1>1. before \in Seq(Rules) /\ Len(before) = k - 1
  BY SubSeqProperties
<1>2. after \in Seq(Rules) /\ Len(after) = Len(rules) - k
  BY SubSeqProperties
<1>3. RemoveAt(rules, k) = before \o after
  BY DEF RemoveAt
<1>. HIDE DEF before, after
<1>4. before \o after \in Seq(Rules) /\ Len(before \o after) = Len(before) + Len(after)
  BY <1>1, <1>2, ConcatProperties
<1>5. Len(before) + Len(after) = Len(rules) - 1
  BY <1>1, <1>2
<1>. QED  BY <1>3, <1>4, <1>5

LEMMA EditedRule ==
    ASSUME NEW rules \in Seq(Rules), NEW k, NEW rule \in Rules
    PROVE  [rules EXCEPT ![k] = rule] \in Seq(Rules) /\ Len([rules EXCEPT ![k] = rule]) = Len(rules)
<1>. DEFINE edited == [rules EXCEPT ![k] = rule]
            copy == [i \in 1..Len(rules) |-> IF i = k THEN rule ELSE rules[i]]
<1>1. edited = copy /\ Len(rules) \in Nat
  OBVIOUS
<1>2. copy \in [1..Len(rules) -> Rules]
  OBVIOUS
<1>. HIDE DEF edited, copy
<1>3. edited \in Seq(Rules) /\ Len(edited) = Len(rules)
  BY <1>1, <1>2
<1>. QED  BY <1>3 DEF edited

LEMMA SwappedRules ==
    ASSUME NEW rules \in Seq(Rules), NEW i \in DOMAIN rules, NEW j \in DOMAIN rules
    PROVE  Swapped(rules, i, j) \in Seq(Rules) /\ Len(Swapped(rules, i, j)) = Len(rules)
<1>1. rules[i] \in Rules /\ rules[j] \in Rules
  OBVIOUS
<1>. QED  BY <1>1 DEF Swapped

LEMMA EditPanelStep ==
    ASSUME IInv, NEW rule \in Rules, EditPanel(rule)
    PROVE  IInv'
<1>1. /\ messages = <<>> /\ panel.selected # 0
      /\ panel' = [panel EXCEPT !.filter = rule]
      /\ messages' = <<"filter_changed">>
      /\ wanted' = [wanted EXCEPT ![panel.selected] = rule]
      /\ UNCHANGED <<shared, loaded, rows, infos, dir, thread, refresh_queued, published, crossed,
                     mismatched>>
  BY DEF EditPanel, CanInput, list, gathering, outside
<1>2. /\ shared = loaded /\ panel.selected <= Len(loaded)
      /\ ~crossed /\ shared = wanted
  BY <1>1, AtRest
<1>3. panel \in Panels /\ panel' \in Panels /\ panel'.selected = panel.selected /\ panel'.filter = rule
  BY <1>1 DEF IInv, TypeInv, Panels
<1>4. panel.selected \in DOMAIN shared
  BY <1>1, <1>2, <1>3, EditorAssumption DEF IInv, TypeInv, Panels
<1>5. messages' \in Seq(Messages)
  BY <1>1 DEF Messages
<1>6. wanted' \in Seq(Rules) /\ Len(wanted') = Len(shared)
  BY <1>1, EditedRule DEF IInv, TypeInv
<1>7. TypeInv'
  BY <1>1, <1>3, <1>5, <1>6 DEF IInv, TypeInv
<1>8. AnnouncedInv'
  <2>1. ~(panel'.selected > Len(loaded'))
    BY <1>1, <1>2, <1>3, EditorAssumption DEF IInv, TypeInv, Panels
  <2>. QED  BY <1>1, <1>2, <2>1 DEF AnnouncedInv
<1>9. RowsMatchFilters' /\ WindowsShowRules'
  BY <1>1 DEF IInv, RowsMatchFilters, WindowsShowRules
<1>10. EditInv'
  <2>1. Received("filter_changed")'
    BY <1>1 DEF Received
  <2>2. ~crossed' /\ Edited'
    BY <1>1, <1>2, <1>3, <1>4, <2>1 DEF Edited
  <2>. QED  BY <2>2 DEF EditInv
<1>. QED  BY <1>7, <1>8, <1>9, <1>10 DEF IInv

LEMMA TypeIndexStep ==
    ASSUME IInv, NEW index \in 0..Len(loaded) + 1, TypeIndex(index)
    PROVE  IInv'
<1>1. /\ messages = <<>>
      /\ panel' = [panel EXCEPT !.selected = index]
      /\ messages' = <<"filter_id_changed">>
      /\ UNCHANGED <<shared, loaded, rows, infos, dir, thread, refresh_queued, published, wanted,
                     crossed, mismatched>>
  BY DEF TypeIndex, CanInput, list, gathering, outside, history
<1>2. /\ shared = loaded
      /\ ~crossed /\ shared = wanted
  BY <1>1, AtRest
<1>3. index \in 0..MaxRules + 1
  BY EditorAssumption DEF IInv, TypeInv
<1>4. panel' \in Panels
  BY <1>1, <1>3 DEF IInv, TypeInv, Panels
<1>5. messages' \in Seq(Messages)
  BY <1>1 DEF Messages
<1>6. TypeInv'
  BY <1>1, <1>4, <1>5 DEF IInv, TypeInv
<1>7. AnnouncedInv'
  BY <1>1, <1>2 DEF AnnouncedInv, In
<1>8. RowsMatchFilters' /\ WindowsShowRules'
  BY <1>1 DEF IInv, RowsMatchFilters, WindowsShowRules
<1>9. EditInv'
  <2>1. Received("filter_id_changed")' /\ ~In("filter_changed", messages')
    BY <1>1 DEF Received, In
  <2>. QED  BY <1>1, <1>2, <2>1 DEF EditInv, Typed, LoadedFirst
<1>. QED  BY <1>6, <1>7, <1>8, <1>9 DEF IInv

(* set_selected_filter, in a window that has loaded its rules or will.     *)
LEMMA SelectStep ==
    ASSUME IInv, NEW index \in Nat, NEW pending \in Seq(Messages),
           SetSelectedFilter(index, pending),
           shared # loaded => In("state_changed", pending),
           shared = wanted,
           \/ ~crossed /\ (shared # loaded => LoadComesFirst(pending))
           \/ /\ Overtaken /\ panel = PanelFor(loaded, index)
              /\ crossed => OptionComesFirst(pending),
           UNCHANGED <<shared, loaded, rows, infos, dir, thread, refresh_queued, published, wanted,
                       crossed, mismatched>>
    PROVE  IInv'
<1>1. panel' = PanelFor(loaded, index) /\ messages' = pending \o Posted(panel, panel')
  BY DEF SetSelectedFilter
<1>2. /\ messages' \in Seq(Messages)
      /\ \A m \in Messages : In(m, pending) => In(m, messages')
      /\ LoadComesFirst(pending) => LoadComesFirst(messages')
      /\ OptionComesFirst(pending) => OptionComesFirst(messages')
  BY <1>1, PostedFacts, ConcatFacts
<1>3. loaded \in Seq(Rules) /\ Len(loaded) <= MaxRules
  BY DEF IInv, TypeInv
<1>4. /\ panel' \in Panels /\ ~(panel'.selected > Len(loaded'))
      /\ panel' = PanelFor(loaded', panel'.selected)
  BY <1>1, <1>3, CalmAfterFilling
<1>5. TypeInv'
  BY <1>2, <1>4 DEF IInv, TypeInv
<1>6. AnnouncedInv'
  BY <1>2, <1>4 DEF AnnouncedInv, Messages
<1>7. RowsMatchFilters' /\ WindowsShowRules'
  BY DEF IInv, RowsMatchFilters, WindowsShowRules
<1>8. EditInv'
  <2>1. CASE ~crossed /\ (shared # loaded => LoadComesFirst(pending))
    BY <1>2, <1>4, <2>1 DEF EditInv, Calm, LoadedFirst
  <2>2. CASE /\ Overtaken /\ panel = PanelFor(loaded, index)
             /\ crossed => OptionComesFirst(pending)
    <3>1. panel' = panel
      BY <1>1, <2>2
    <3>. QED  BY <1>2, <1>4, <2>2, <3>1 DEF EditInv, Overtaken
  <2>. QED  BY <2>1, <2>2
<1>. QED  BY <1>5, <1>6, <1>7, <1>8 DEF IInv

LEMMA ActivateStep ==
    ASSUME IInv, NEW row \in DOMAIN rows, Activate(row)
    PROVE  IInv'
<1>1. /\ messages = <<>>
      /\ SetSelectedFilter(rows[row].ix, <<>>)
      /\ UNCHANGED <<shared, loaded, rows, infos, dir, thread, refresh_queued, published, wanted,
                     crossed, mismatched>>
  BY DEF Activate, CanInput, list, gathering, outside, history
<1>2. shared = loaded /\ ~crossed /\ shared = wanted
  BY <1>1, AtRest
<1>3. rows[row] \in Rows
  BY DEF IInv, TypeInv
<1>4. rows[row].ix \in Nat /\ <<>> \in Seq(Messages)
  BY <1>3, EditorAssumption DEF Rows
<1>. QED  BY <1>1, <1>2, <1>4, SelectStep

LEMMA SelectedAfterFacts ==
    ASSUME IInv, NEW rules \in Seq(Rules)
    PROVE  SelectedAfter(rules) \in Nat
<1>1. panel.selected \in Nat
  BY EditorAssumption DEF IInv, TypeInv, Panels
<1>2. Len(rules) \in Nat
  OBVIOUS
<1>. QED  BY <1>1, <1>2 DEF SelectedAfter

(* Sorting the list changes neither what its rows say nor what they hide.  *)
LEMMA SortedRows ==
    ASSUME IInv, NEW direction \in Directions, rows' = Sorted(rows, direction),
           UNCHANGED <<loaded, mismatched>>
    PROVE  rows' \in Seq(Rows) /\ Len(rows') = Len(rows) /\ RowsMatchFilters'
<1>1. rows \in Seq(Rows)
  BY DEF IInv, TypeInv
<1>2. /\ rows' \in Seq(Rows) /\ Len(rows') = Len(rows)
      /\ \A k \in DOMAIN rows' : \E i \in DOMAIN rows : rows'[k] = rows[i]
      /\ \A i \in DOMAIN rows : \E k \in DOMAIN rows' : rows'[k] = rows[i]
      /\ \E from \in Bijection(DOMAIN rows', DOMAIN rows) :
            \A k \in DOMAIN rows' : rows'[k] = rows[from[k]]
  BY <1>1, SortedFacts
<1>3. RowsMatchFilters'
  <2>0. \E place \in Bijection(DOMAIN rows', DOMAIN loaded) :
           \A k \in DOMAIN rows' : rows'[k].rule = loaded[place[k]]
    <3>1. PICK from \in Bijection(DOMAIN rows', DOMAIN rows) :
             \A k \in DOMAIN rows' : rows'[k] = rows[from[k]]
      BY <1>2
    <3>2. PICK place \in Bijection(DOMAIN rows, DOMAIN loaded) :
             \A i \in DOMAIN rows : rows[i].rule = loaded[place[i]]
      BY DEF IInv, RowsMatchFilters
    <3>. DEFINE both == [k \in DOMAIN rows' |-> place[from[k]]]
    <3>3. both \in Bijection(DOMAIN rows', DOMAIN loaded)
      BY <3>1, <3>2 DEF Bijection, Injection, IsInjective, Surjection
    <3>4. \A k \in DOMAIN rows' : from[k] \in DOMAIN rows /\ both[k] = place[from[k]]
      BY <3>1 DEF Bijection, Injection
    <3>5. \A k \in DOMAIN rows' : rows'[k].rule = loaded[both[k]]
      BY <3>1, <3>2, <3>4
    <3>. HIDE DEF both
    <3>. QED  BY <3>3, <3>5
  <2>. SUFFICES ASSUME ~mismatched
                PROVE  /\ {rows'[i].ix : i \in DOMAIN rows'} = DOMAIN loaded
                       /\ \A i \in DOMAIN rows' : rows'[i].rule = loaded[rows'[i].ix]
    BY <2>0 DEF RowsMatchFilters
  <2>1. /\ {rows[i].ix : i \in DOMAIN rows} = DOMAIN loaded
        /\ \A i \in DOMAIN rows : rows[i].rule = loaded[rows[i].ix]
    BY DEF IInv, RowsMatchFilters
  <2>2. ASSUME NEW k \in DOMAIN rows'
        PROVE  rows'[k].ix \in DOMAIN loaded /\ rows'[k].rule = loaded[rows'[k].ix]
    <3>1. PICK i \in DOMAIN rows : rows'[k] = rows[i]
      BY <1>2
    <3>. QED  BY <2>1, <3>1
  <2>3. ASSUME NEW x \in DOMAIN loaded PROVE \E k \in DOMAIN rows' : rows'[k].ix = x
    <3>1. PICK i \in DOMAIN rows : rows[i].ix = x
      BY <2>1
    <3>2. PICK k \in DOMAIN rows' : rows'[k] = rows[i]
      BY <1>2
    <3>3. rows'[k].ix = x
      BY <3>1, <3>2
    <3>. QED  BY <3>3
  <2>4. {rows'[i].ix : i \in DOMAIN rows'} = DOMAIN loaded
    BY <2>2, <2>3
  <2>. QED  BY <2>2, <2>4
<1>. QED  BY <1>2, <1>3

(* What neither touches the rules nor the panel, nor takes a message about *)
(* them from the queue.                                                    *)
QuietMessages ==
    /\ messages' \in Seq(Messages)
    /\ \A m \in Messages \ {"window_info"} :
          /\ In(m, messages) => In(m, messages')
          /\ ~In(m, messages) => ~In(m, messages')
          /\ Received(m) => Received(m)'
    /\ LoadComesFirst(messages) => LoadComesFirst(messages')
    /\ OptionComesFirst(messages) => OptionComesFirst(messages')

LEMMA QuietStep ==
    ASSUME IInv, QuietMessages,
           rows' \in Seq(Rows), Len(rows') = Len(rows), RowsMatchFilters',
           infos' \in Seq(ToSet(infos')), WindowsShowRules',
           dir' \in Directions, thread' \in Threads, refresh_queued' \in BOOLEAN,
           published' \in Seq(Rules), Len(published') <= MaxRules,
           UNCHANGED <<shared, loaded, panel, wanted, crossed, mismatched>>
    PROVE  IInv'
<1>1. TypeInv'
  BY DEF IInv, TypeInv, QuietMessages
<1>2. {"filter_changed", "filter_id_changed", "state_changed"} \subseteq Messages \ {"window_info"}
  BY DEF Messages
<1>3. AnnouncedInv'
  BY <1>2 DEF IInv, AnnouncedInv, QuietMessages
<1>4. EditInv'
  <2>1. Calm => Calm'
    BY DEF QuietMessages, Calm, LoadedFirst
  <2>2. Typed => Typed'
    BY <1>2 DEF QuietMessages, Typed, LoadedFirst
  <2>3. Edited => Edited'
    BY <1>2 DEF QuietMessages, Edited
  <2>4. Overtaken => Overtaken'
    BY <1>2 DEF QuietMessages, Overtaken
  <2>. QED  BY <2>1, <2>2, <2>3, <2>4 DEF IInv, EditInv
<1>. QED  BY <1>1, <1>3, <1>4 DEF IInv

LEMMA QuietCases ==
    ASSUME IInv,
           \/ messages' = messages
           \/ messages' = Append(messages, "window_info")
           \/ Received("window_info") /\ messages' = Tail(messages)
           \/ Received("window_info") /\ messages' = Append(Tail(messages), "window_info")
    PROVE  QuietMessages
<1>1. messages \in Seq(Messages) /\ "window_info" \in Messages
  BY DEF IInv, TypeInv, Messages
<1>2. CASE messages' = messages
  BY <1>1, <1>2 DEF QuietMessages, Received
<1>3. ASSUME NEW t \in Seq(Messages), messages' = Append(t, "window_info"),
             \A m \in Messages \ {"window_info"} :
                /\ In(m, messages) => In(m, t)
                /\ ~In(m, messages) => ~In(m, t)
                /\ Received(m) => t # <<>> /\ Head(t) = m,
             LoadComesFirst(messages) => LoadComesFirst(t),
             OptionComesFirst(messages) => OptionComesFirst(t)
      PROVE  QuietMessages
  <2>1. /\ messages' \in Seq(Messages) /\ messages' # <<>>
        /\ \A m \in Messages : In(m, t) => In(m, messages')
        /\ \A m \in Messages \ {"window_info"} : ~In(m, t) => ~In(m, messages')
        /\ LoadComesFirst(t) => LoadComesFirst(messages')
        /\ OptionComesFirst(t) => OptionComesFirst(messages')
        /\ t # <<>> => Head(messages') = Head(t)
    BY <1>1, <1>3, AppendFacts
  <2>2. \A m \in Messages \ {"window_info"} : Received(m) => Received(m)'
    BY <1>3, <2>1 DEF Received
  <2>. QED  BY <1>3, <2>1, <2>2 DEF QuietMessages
<1>4. CASE messages' = Append(messages, "window_info")
  BY <1>1, <1>3, <1>4 DEF Received
<1>5. ASSUME Received("window_info")
      PROVE  /\ Tail(messages) \in Seq(Messages)
             /\ \A m \in Messages \ {"window_info"} :
                   /\ In(m, messages) => In(m, Tail(messages))
                   /\ ~In(m, messages) => ~In(m, Tail(messages))
                   /\ ~Received(m)
             /\ LoadComesFirst(messages) => LoadComesFirst(Tail(messages))
             /\ OptionComesFirst(messages) => OptionComesFirst(Tail(messages))
  <2>1. messages # <<>> /\ Head(messages) = "window_info"
    BY <1>5 DEF Received
  <2>. QED  BY <1>1, <2>1, TailFacts DEF Received
<1>6. CASE Received("window_info") /\ messages' = Tail(messages)
  BY <1>5, <1>6 DEF QuietMessages
<1>7. CASE Received("window_info") /\ messages' = Append(Tail(messages), "window_info")
  BY <1>3, <1>5, <1>7
<1>. QED  BY <1>2, <1>4, <1>6, <1>7

LEMMA ColumnClickStep ==
    ASSUME IInv, ColumnClick
    PROVE  IInv'
<1>1. /\ dir' = NextDirection[dir]
      /\ rows' = Sorted(rows, dir')
      /\ UNCHANGED <<shared, loaded, infos, panel, messages, thread, refresh_queued, published,
                     wanted, crossed, mismatched>>
  BY DEF ColumnClick, gathering, outside, history
<1>2. dir' \in Directions
  BY <1>1 DEF IInv, TypeInv, Directions, NextDirection
<1>3. rows' \in Seq(Rows) /\ Len(rows') = Len(rows) /\ RowsMatchFilters'
  BY <1>1, <1>2, SortedRows
<1>4. WindowsShowRules'
  BY <1>1 DEF IInv, WindowsShowRules
<1>5. QuietMessages
  BY <1>1, QuietCases
<1>6. TypeInv
  BY DEF IInv
<1>. QED  BY <1>1, <1>2, <1>3, <1>4, <1>5, <1>6, QuietStep DEF TypeInv

LEMMA OnCreateNewStep ==
    ASSUME IInv, OnCreateNew
    PROVE  IInv'
<1>. DEFINE rules == Append(shared, DefaultFilter)
            index == Len(shared) + 1
<1>1. /\ Len(wanted) < MaxRules /\ wanted' = Append(wanted, DefaultFilter) /\ messages = <<>>
      /\ UpdateSettings(rules, index)
  BY DEF OnCreateNew, UpdateSettings, CanInput
<1>2. shared = wanted
  BY <1>1, AtRest
<1>3. /\ shared \in Seq(Rules) /\ Len(shared) \in Nat /\ MaxRules \in Nat
      /\ DefaultFilter \in Rules
  BY EditorAssumption DEF IInv, TypeInv
<1>4. rules \in Seq(Rules) /\ Len(rules) = Len(shared) + 1 /\ index \in Nat
  BY <1>3
<1>5. wanted' = rules
  BY <1>1, <1>2
<1>. HIDE DEF rules, index
<1>6. Len(rules) <= MaxRules
  BY <1>1, <1>2, <1>3, <1>4
<1>. QED  BY <1>1, <1>4, <1>5, <1>6, UpdateSettingsStep

LEMMA OnDeleteStep ==
    ASSUME IInv, OnDelete
    PROVE  IInv'
<1>. DEFINE rules == IF panel.selected \in DOMAIN shared THEN RemoveAt(shared, panel.selected) ELSE shared
<1>1. /\ panel.selected # 0 /\ messages = <<>>
      /\ UpdateSettings(rules, panel.selected)
      /\ wanted' = RemoveAt(wanted, panel.selected)
  BY DEF OnDelete, UpdateSettings, CanInput
<1>2. shared = loaded /\ panel.selected <= Len(loaded) /\ shared = wanted
  BY <1>1, AtRest
<1>3. /\ shared \in Seq(Rules) /\ Len(shared) \in Nat /\ MaxRules \in Nat /\ Len(shared) <= MaxRules
      /\ panel.selected \in Nat
  BY EditorAssumption DEF IInv, TypeInv, Panels
<1>4. panel.selected \in 1..Len(shared)
  BY <1>1, <1>2, <1>3
<1>5. rules = RemoveAt(shared, panel.selected)
  BY <1>3, <1>4
<1>6. rules \in Seq(Rules) /\ Len(rules) = Len(shared) - 1
  BY <1>3, <1>4, <1>5, RemovedRule
<1>7. wanted' = rules
  BY <1>1, <1>2, <1>5
<1>. HIDE DEF rules
<1>8. Len(rules) <= MaxRules
  BY <1>3, <1>6
<1>. QED  BY <1>1, <1>3, <1>6, <1>7, <1>8, UpdateSettingsStep

LEMMA OnMoveStep ==
    ASSUME IInv, NEW swap_with, OnMove(swap_with)
    PROVE  IInv'
<1>. DEFINE rules == Swapped(shared, panel.selected, swap_with)
<1>1. /\ panel.selected # 0 /\ messages = <<>> /\ swap_with \in DOMAIN loaded
      /\ UpdateSettings(rules, swap_with)
      /\ wanted' = Swapped(wanted, panel.selected, swap_with)
  BY DEF OnMove, UpdateSettings, CanInput
<1>2. shared = loaded /\ panel.selected <= Len(loaded) /\ shared = wanted
  BY <1>1, AtRest
<1>3. /\ shared \in Seq(Rules) /\ Len(shared) \in Nat /\ Len(shared) <= MaxRules
      /\ panel.selected \in Nat
  BY EditorAssumption DEF IInv, TypeInv, Panels
<1>4. panel.selected \in DOMAIN shared /\ swap_with \in DOMAIN shared /\ swap_with \in Nat
  BY <1>1, <1>2, <1>3
<1>5. rules \in Seq(Rules) /\ Len(rules) = Len(shared)
  BY <1>3, <1>4, SwappedRules
<1>6. wanted' = rules
  BY <1>1, <1>2
<1>. HIDE DEF rules
<1>. QED  BY <1>1, <1>3, <1>4, <1>5, <1>6, UpdateSettingsStep

LEMMA ImportFiltersStep ==
    ASSUME IInv, ImportFilters
    PROVE  IInv'
<1>. DEFINE rules == shared \o ImportedRules
            index == SelectedAfter(rules)
<1>1. /\ Len(wanted) + Len(ImportedRules) <= MaxRules /\ messages = <<>>
      /\ UpdateSettings(rules, index)
      /\ wanted' = wanted \o ImportedRules
  BY DEF ImportFilters, UpdateSettings, CanInput
<1>2. shared = wanted
  BY <1>1, AtRest
<1>3. shared \in Seq(Rules) /\ ImportedRules \in Seq(Rules)
  BY EditorAssumption DEF IInv, TypeInv
<1>4. rules \in Seq(Rules) /\ Len(rules) = Len(shared) + Len(ImportedRules)
  BY <1>3, ConcatProperties
<1>5. wanted' = rules
  BY <1>1, <1>2
<1>. HIDE DEF rules
<1>6. index \in Nat
  BY <1>4, SelectedAfterFacts
<1>7. Len(rules) <= MaxRules
  BY <1>1, <1>2, <1>4
<1>. HIDE DEF index
<1>. QED  BY <1>1, <1>4, <1>5, <1>6, <1>7, UpdateSettingsStep

(* What gathers windows leaves the list of rules alone. *)
LEMMA GatherSteps ==
    ASSUME IInv, QuietMessages,
           infos' \in Seq(ToSet(infos')), WindowsShowRules',
           thread' \in Threads, refresh_queued' \in BOOLEAN,
           UNCHANGED <<shared, loaded, rows, dir, panel, published, wanted, crossed, mismatched>>
    PROVE  IInv'
<1>1. TypeInv /\ RowsMatchFilters
  BY DEF IInv
<1>2. RowsMatchFilters'
  BY <1>1 DEF RowsMatchFilters
<1>. QED  BY <1>1, <1>2, QuietStep DEF TypeInv

LEMMA NewThreadFacts == NewThread \in Threads
<1>1. Len(OpenWindows) \in Nat
  BY EditorAssumption
<1>. QED  BY <1>1 DEF NewThread, Threads, ThreadStates

LEMMA RefreshStep ==
    ASSUME IInv, Refresh
    PROVE  IInv'
<1>1. /\ messages = <<>>
      /\ UNCHANGED <<shared, loaded, rows, dir, panel, published, wanted, crossed, mismatched>>
  BY DEF Refresh, CanInput, outside, history
<1>2. CASE refresh_queued' = TRUE /\ UNCHANGED <<infos, thread, messages>>
  <2>1. QuietMessages
    BY <1>2, QuietCases
  <2>2. infos' \in Seq(ToSet(infos')) /\ thread' \in Threads /\ WindowsShowRules'
    BY <1>1, <1>2 DEF IInv, TypeInv, WindowsShowRules
  <2>. QED  BY <1>1, <1>2, <2>1, <2>2, GatherSteps
<1>3. CASE GatherWindowInfo(<<>>)
  <2>1. infos' = <<>> /\ refresh_queued' = FALSE /\ thread' = NewThread
    BY <1>3 DEF GatherWindowInfo
  <2>2. messages' = messages \/ messages' = Append(messages, "window_info")
    BY <1>1, <1>3 DEF GatherWindowInfo
  <2>3. QuietMessages
    BY <2>2, QuietCases
  <2>4. infos' \in Seq(ToSet(infos')) /\ WindowsShowRules'
    BY <2>1 DEF WindowsShowRules
  <2>. QED  BY <1>1, <2>1, <2>3, <2>4, NewThreadFacts, GatherSteps
<1>. QED  BY <1>2, <1>3 DEF Refresh

LEMMA ThreadStep ==
    ASSUME IInv, Thread
    PROVE  IInv'
<1>1. /\ thread \in Threads /\ OpenWindows \in Seq(ToSet(OpenWindows)) /\ Len(OpenWindows) \in Nat
      /\ infos \in Seq(ToSet(infos)) /\ refresh_queued \in BOOLEAN
  BY EditorAssumption DEF IInv, TypeInv
<1>2. UNCHANGED OtherThanThread
  BY DEF Thread, SendWindow, PostWindowInfo, SkipWindow, StoreShouldExit, DropSender, PostLastInfo,
         EndThread
<1>3. messages' = messages \/ messages' = Append(messages, "window_info")
  BY DEF Thread, SendWindow, PostWindowInfo, SkipWindow, StoreShouldExit, DropSender, PostLastInfo,
         EndThread
<1>4. thread' \in Threads
  <2>1. CASE SendWindow
    <3>1. /\ thread.listed < Len(OpenWindows)
          /\ thread' = [thread EXCEPT !.pc = "noticing", !.listed = @ + 1,
                                      !.sent = Append(@, OpenWindows[thread.listed + 1])]
      BY <2>1 DEF SendWindow
    <3>2. thread.listed + 1 \in 1..Len(OpenWindows)
      BY <1>1, <3>1 DEF Threads
    <3>3. OpenWindows[thread.listed + 1] \in ToSet(OpenWindows)
      BY <1>1, <3>2
    <3>4. Append(thread.sent, OpenWindows[thread.listed + 1]) \in Seq(ToSet(OpenWindows))
      BY <1>1, <3>3 DEF Threads
    <3>. DEFINE sent == Append(thread.sent, OpenWindows[thread.listed + 1])
    <3>5. thread' = [pc |-> "noticing", listed |-> thread.listed + 1, sent |-> sent,
                     should_exit |-> thread.should_exit]
      BY <1>1, <3>1 DEF Threads
    <3>6. sent \in Seq(ToSet(OpenWindows)) /\ thread.listed + 1 \in 0..Len(OpenWindows)
          /\ thread.should_exit \in BOOLEAN
      BY <1>1, <3>2, <3>4 DEF Threads
    <3>. HIDE DEF sent
    <3>. QED  BY <3>5, <3>6 DEF Threads, ThreadStates
  <2>2. CASE SkipWindow
    BY <1>1, <2>2 DEF SkipWindow, Threads
  <2>3. CASE PostWindowInfo \/ StoreShouldExit \/ DropSender \/ PostLastInfo \/ EndThread
    BY <1>1, <2>3 DEF PostWindowInfo, StoreShouldExit, DropSender, PostLastInfo, EndThread, Threads,
                      ThreadStates
  <2>. QED  BY <2>1, <2>2, <2>3 DEF Thread
<1>5. QuietMessages
  BY <1>3, QuietCases
<1>6. /\ UNCHANGED <<shared, loaded, rows, dir, panel, published, wanted, crossed, mismatched>>
      /\ infos' = infos /\ refresh_queued' = refresh_queued
  BY <1>2 DEF OtherThanThread, outside, history
<1>7. WindowsShowRules'
  BY <1>6 DEF IInv, WindowsShowRules
<1>. QED  BY <1>1, <1>4, <1>5, <1>6, <1>7, GatherSteps

(* The windows the thread has sent are added below those that are there. *)
LEMMA AddedInfos ==
    ASSUME IInv, infos' = AddWindowInfos(thread.sent), UNCHANGED <<loaded, mismatched>>
    PROVE  infos' \in Seq(ToSet(infos')) /\ WindowsShowRules'
<1>. DEFINE n == Len(infos)
            sent == thread.sent
            added == [k \in DOMAIN sent |->
                        [info |-> sent[k], shown |-> Shown(loaded, Len(infos) + k - 1, sent[k])]]
            all == infos'
<1>1. infos \in Seq(ToSet(infos)) /\ n \in Nat /\ DOMAIN infos = 1..n
  BY DEF IInv, TypeInv
<1>2. DOMAIN sent = 1..Len(sent) /\ Len(sent) \in Nat
  BY DEF IInv, TypeInv, Threads
<1>3. all = infos \o added
  BY DEF AddWindowInfos
<1>4. /\ DOMAIN added = 1..Len(sent) /\ added = [k \in 1..Len(sent) |-> added[k]]
      /\ \A k \in 1..Len(sent) : added[k].shown = Shown(loaded, n + k - 1, added[k].info)
  BY <1>2
<1>. HIDE DEF added, n, sent
<1>. DEFINE S == ToSet(infos) \union ToSet(added)
<1>5. infos \in Seq(S) /\ added \in Seq(S)
  <2>1. infos \in [1..n -> S] /\ added \in [1..Len(sent) -> S]
    BY <1>1, <1>4 DEF ToSet
  <2>. HIDE DEF S
  <2>. QED  BY <1>1, <1>2, <2>1
<1>6. Len(infos) = n /\ Len(added) = Len(sent)
  BY <1>2, <1>4, <1>5 DEF n
<1>. HIDE DEF S
<1>7. /\ infos \o added \in Seq(S) /\ Len(infos \o added) = n + Len(sent)
      /\ \A i \in 1..n + Len(sent) : (infos \o added)[i] = IF i <= n THEN infos[i] ELSE added[i - n]
  <2>1. /\ infos \o added \in Seq(S) /\ Len(infos \o added) = Len(infos) + Len(added)
        /\ \A i \in 1..Len(infos) + Len(added) :
               (infos \o added)[i] = IF i <= Len(infos) THEN infos[i] ELSE added[i - Len(infos)]
    BY <1>5, ConcatProperties, Zenon
  <2>. QED  BY <1>6, <2>1
<1>. HIDE DEF all
<1>8. DOMAIN all = 1..n + Len(sent) /\ all = [i \in 1..n + Len(sent) |-> all[i]]
  <2>1. all \in Seq(S) /\ Len(all) = n + Len(sent)
    BY <1>3, <1>7
  <2>. QED  BY <2>1
<1>9. all \in [1..n + Len(sent) -> ToSet(all)]
  BY <1>8 DEF ToSet
<1>10. all \in Seq(ToSet(all))
  BY <1>1, <1>2, <1>9
<1>11. ASSUME ~mismatched, NEW i \in DOMAIN all
       PROVE  all[i].shown = Shown(loaded, i - 1, all[i].info)
  <2>1. CASE i <= n
    <3>1. i \in DOMAIN infos /\ all[i] = infos[i]
      BY <1>1, <1>2, <1>3, <1>7, <1>8, <2>1
    <3>. QED  BY <1>11, <3>1 DEF IInv, WindowsShowRules
  <2>2. CASE ~(i <= n)
    <3>1. i \in 1..n + Len(sent) /\ all[i] = added[i - n]
      BY <1>3, <1>7, <1>8, <2>2
    <3>2. i - n \in 1..Len(sent) /\ n + (i - n) - 1 = i - 1
      BY <1>1, <1>2, <2>2, <3>1
    <3>. QED  BY <1>4, <3>1, <3>2
  <2>. QED  BY <2>1, <2>2
<1>. QED  BY <1>10, <1>11 DEF WindowsShowRules, all

LEMMA WindowInfoSteps ==
    ASSUME IInv, OnWindowInfo \/ OnAllWindowInfo
    PROVE  IInv'
<1>1. TypeInv /\ RowsMatchFilters
  BY DEF IInv
<1>2. [thread EXCEPT !.sent = <<>>] \in Threads
  <2>1. thread \in Threads
    BY <1>1 DEF TypeInv
  <2>2. [thread EXCEPT !.sent = <<>>] = [pc |-> thread.pc, listed |-> thread.listed, sent |-> <<>>,
                                         should_exit |-> thread.should_exit]
    BY <2>1 DEF Threads
  <2>3. <<>> \in Seq(ToSet(OpenWindows))
    OBVIOUS
  <2>. QED  BY <2>1, <2>2, <2>3 DEF Threads
<1>3. CASE OnWindowInfo
  <2>1. /\ infos' = AddWindowInfos(thread.sent) /\ thread' = [thread EXCEPT !.sent = <<>>]
        /\ Received("window_info") /\ messages' = Tail(messages)
        /\ UNCHANGED <<shared, loaded, rows, dir, panel, refresh_queued, published, wanted, crossed,
                       mismatched>>
    BY <1>3 DEF OnWindowInfo, outside, history
  <2>2. QuietMessages
    BY <2>1, QuietCases
  <2>3. infos' \in Seq(ToSet(infos')) /\ WindowsShowRules'
    BY <2>1, AddedInfos
  <2>. QED  BY <1>1, <1>2, <2>1, <2>2, <2>3, GatherSteps DEF TypeInv
<1>4. CASE OnAllWindowInfo
  <2>1. /\ Received("window_info") /\ rows' = Sorted(rows, dir)
        /\ UNCHANGED <<shared, loaded, dir, panel, published, wanted, crossed, mismatched>>
    BY <1>4 DEF OnAllWindowInfo, outside, history
  <2>2. rows' \in Seq(Rows) /\ Len(rows') = Len(rows) /\ RowsMatchFilters'
    BY <1>1, <2>1, SortedRows DEF TypeInv
  <2>3. /\ QuietMessages /\ infos' \in Seq(ToSet(infos')) /\ WindowsShowRules'
        /\ thread' \in Threads /\ refresh_queued' \in BOOLEAN
    <3>1. CASE refresh_queued
      <4>1. GatherWindowInfo(Tail(messages))
        BY <1>4, <3>1 DEF OnAllWindowInfo
      <4>2. infos' = <<>> /\ refresh_queued' = FALSE /\ thread' = NewThread
        BY <4>1 DEF GatherWindowInfo
      <4>3. messages' = Tail(messages) \/ messages' = Append(Tail(messages), "window_info")
        BY <4>1 DEF GatherWindowInfo
      <4>4. QuietMessages
        BY <2>1, <4>3, QuietCases
      <4>5. infos' \in Seq(ToSet(infos')) /\ WindowsShowRules'
        BY <4>2 DEF WindowsShowRules
      <4>. QED  BY <4>2, <4>4, <4>5, NewThreadFacts
    <3>2. CASE ~refresh_queued
      <4>1. /\ infos' = AddWindowInfos(thread.sent) /\ thread' = [thread EXCEPT !.sent = <<>>]
            /\ messages' = Tail(messages) /\ refresh_queued' = refresh_queued
        BY <1>4, <3>2 DEF OnAllWindowInfo
      <4>2. QuietMessages
        BY <2>1, <4>1, QuietCases
      <4>3. infos' \in Seq(ToSet(infos')) /\ WindowsShowRules'
        BY <2>1, <4>1, AddedInfos
      <4>. QED  BY <1>1, <1>2, <4>1, <4>2, <4>3 DEF TypeInv
    <3>. QED  BY <3>1, <3>2
  <2>. QED  BY <1>1, <2>1, <2>2, <2>3, QuietStep DEF TypeInv
<1>. QED  BY <1>3, <1>4

(* What is left of the queue once a message about the rules was taken.     *)
LEMMA TakenMessage ==
    ASSUME IInv, NEW m \in Messages, Received(m)
    PROVE  /\ messages # <<>> /\ Head(messages) = m
           /\ messages \in Seq(Messages) /\ Tail(messages) \in Seq(Messages)
           /\ \A other \in Messages \ {m} :
                 (In(other, messages) => In(other, Tail(messages))) /\ ~Received(other)
           /\ m # "state_changed" /\ LoadComesFirst(messages) => LoadComesFirst(Tail(messages))
           /\ LoadComesFirst(messages) => m # "filter_changed"
           /\ m # "filter_changed" /\ OptionComesFirst(messages) => OptionComesFirst(Tail(messages))
           /\ OptionComesFirst(messages) => m # "state_changed"
<1>1. messages # <<>> /\ Head(messages) = m /\ messages \in Seq(Messages)
  BY DEF Received, IInv, TypeInv
<1>. QED  BY <1>1, TailFacts DEF Received

LEMMA IgnoreOptionChangeStep ==
    ASSUME IInv, IgnoreOptionChange
    PROVE  IInv'
<1>1. /\ Received("filter_changed") /\ panel.selected = 0 /\ messages' = Tail(messages)
      /\ UNCHANGED <<shared, loaded, rows, infos, dir, panel, thread, refresh_queued, published,
                     wanted, crossed, mismatched>>
  BY DEF IgnoreOptionChange, list, gathering, outside, history
<1>2. {"filter_changed", "filter_id_changed", "state_changed"} \subseteq Messages
  BY DEF Messages
<1>3. /\ messages' \in Seq(Messages)
      /\ In("filter_id_changed", messages) => In("filter_id_changed", messages')
      /\ In("state_changed", messages) => In("state_changed", messages')
      /\ ~Received("filter_id_changed") /\ ~LoadComesFirst(messages)
  BY <1>1, <1>2, TakenMessage
<1>4. TypeInv'
  BY <1>1, <1>3 DEF IInv, TypeInv
<1>5. AnnouncedInv' /\ RowsMatchFilters' /\ WindowsShowRules'
  BY <1>1, <1>3 DEF IInv, AnnouncedInv, RowsMatchFilters, WindowsShowRules
<1>6. ~Edited
  <2>1. 0 \notin DOMAIN shared
    BY DEF IInv, TypeInv
  <2>. QED  BY <1>1, <2>1 DEF Edited
<1>7. ~crossed /\ ((Calm /\ shared = loaded) \/ Overtaken)
  <2>1. Overtaken => ~crossed
    BY <1>1 DEF Overtaken
  <2>. QED  BY <1>3, <1>6, <2>1 DEF IInv, EditInv, Typed, Calm, LoadedFirst
<1>8. EditInv'
  <2>1. CASE Calm /\ shared = loaded
    BY <1>1, <1>7, <2>1 DEF EditInv, Calm, LoadedFirst
  <2>2. CASE Overtaken
    BY <1>1, <1>7, <2>2 DEF EditInv, Overtaken
  <2>. QED  BY <1>7, <2>1, <2>2
<1>. QED  BY <1>4, <1>5, <1>8 DEF IInv

LEMMA OnOptionChangeStep ==
    ASSUME IInv, OnOptionChange
    PROVE  IInv'
<1>. DEFINE edited == [shared EXCEPT ![panel.selected] = panel.filter]
            rules == IF panel.selected \in DOMAIN shared THEN edited ELSE shared
            index == SelectedAfter(rules)
<1>1. /\ Received("filter_changed") /\ panel.selected # 0 /\ shared' = rules
      /\ PopulateFilterList(rules, index, Tail(messages))
      /\ wanted' = (IF crossed THEN rules ELSE wanted) /\ crossed' = FALSE
      /\ UNCHANGED <<dir, thread, refresh_queued, published>>
  BY DEF OnOptionChange, gathering, outside
<1>2. {"filter_changed", "filter_id_changed"} \subseteq Messages
  BY DEF Messages
<1>3. /\ Tail(messages) \in Seq(Messages)
      /\ ~Received("filter_id_changed") /\ ~LoadComesFirst(messages)
  BY <1>1, <1>2, TakenMessage
<1>4. /\ shared \in Seq(Rules) /\ loaded \in Seq(Rules) /\ Len(loaded) <= MaxRules
      /\ wanted \in Seq(Rules) /\ Len(shared) <= MaxRules
      /\ Len(wanted) = Len(shared) /\ panel.filter \in Rules /\ panel.selected \in Nat
  BY EditorAssumption DEF IInv, TypeInv, Panels
<1>5. edited \in Seq(Rules) /\ Len(edited) = Len(shared)
  BY <1>4, EditedRule
<1>6. rules \in Seq(Rules) /\ Len(rules) = Len(shared)
  BY <1>4, <1>5
<1>7. ~crossed => wanted = rules
  <2>. SUFFICES ASSUME ~crossed PROVE wanted = rules
    OBVIOUS
  <2>1. CASE Calm
    <3>1. shared = loaded /\ shared = wanted /\ panel = PanelFor(loaded, panel.selected)
      BY <1>3, <2>1 DEF Calm, LoadedFirst
    <3>2. panel.selected \in DOMAIN loaded /\ panel.filter = loaded[panel.selected]
      BY <1>1, <1>4, <3>1, PanelFacts
    <3>3. edited = shared
      <4>1. shared = [i \in DOMAIN shared |-> shared[i]]
        BY <1>4
      <4>2. panel.filter = shared[panel.selected]
        BY <3>1, <3>2
      <4>. QED  BY <4>1, <4>2
    <3>. QED  BY <3>1, <3>3
  <2>2. CASE Edited
    BY <2>2 DEF Edited
  <2>3. CASE Overtaken
    <3>1. shared = wanted /\ (panel.selected \in DOMAIN shared => panel.filter = shared[panel.selected])
      BY <2>3 DEF Overtaken
    <3>2. panel.selected \in DOMAIN shared => edited = shared
      <4>1. shared = [i \in DOMAIN shared |-> shared[i]]
        BY <1>4
      <4>. QED  BY <3>1, <4>1
    <3>. QED  BY <3>1, <3>2
  <2>. QED  BY <1>3, <2>1, <2>2, <2>3 DEF IInv, EditInv, Typed
<1>. HIDE DEF rules, edited
<1>8. index \in Nat
  BY <1>6, SelectedAfterFacts
<1>. HIDE DEF index
<1>9. Len(rules) <= MaxRules /\ wanted' = rules
  BY <1>1, <1>4, <1>6, <1>7
<1>. QED  BY <1>1, <1>3, <1>6, <1>8, <1>9, PopulateInv

LEMMA OnIndexChangeStep ==
    ASSUME IInv, OnIndexChange
    PROVE  IInv'
<1>1. /\ Received("filter_id_changed")
      /\ SetSelectedFilter(panel.selected, Tail(messages))
      /\ UNCHANGED <<shared, loaded, rows, infos, dir, thread, refresh_queued, published, wanted,
                     crossed, mismatched>>
  BY DEF OnIndexChange, list, gathering, outside, history
<1>2. {"filter_changed", "filter_id_changed", "state_changed"} \subseteq Messages
  BY DEF Messages
<1>3. /\ Tail(messages) \in Seq(Messages) /\ ~Received("filter_changed")
      /\ In("state_changed", messages) => In("state_changed", Tail(messages))
      /\ LoadComesFirst(messages) => LoadComesFirst(Tail(messages))
      /\ OptionComesFirst(messages) => OptionComesFirst(Tail(messages))
  BY <1>1, <1>2, TakenMessage
<1>4. shared # loaded => In("state_changed", Tail(messages))
  BY <1>3 DEF IInv, AnnouncedInv
<1>5. /\ shared = wanted
      /\ \/ ~crossed /\ (shared # loaded => LoadComesFirst(Tail(messages)))
         \/ /\ Overtaken /\ panel = PanelFor(loaded, panel.selected)
            /\ crossed => OptionComesFirst(Tail(messages))
  <2>1. CASE Overtaken
    BY <1>3, <2>1 DEF Overtaken
  <2>2. CASE ~crossed /\ (Calm \/ Typed \/ Edited)
    BY <1>3, <2>2 DEF Calm, Typed, Edited, LoadedFirst
  <2>. QED  BY <2>1, <2>2 DEF IInv, EditInv
<1>6. panel.selected \in Nat
  BY EditorAssumption DEF IInv, TypeInv, Panels
<1>. QED  BY <1>1, <1>3, <1>4, <1>5, <1>6, SelectStep

LEMMA OnStateChangedStep ==
    ASSUME IInv, OnStateChanged
    PROVE  IInv'
<1>1. /\ Received("state_changed")
      /\ UNCHANGED <<shared, dir, thread, refresh_queued, published, wanted, crossed>>
  BY DEF OnStateChanged, gathering, outside
<1>2. {"filter_changed", "filter_id_changed", "state_changed"} \subseteq Messages
  BY DEF Messages
<1>3. /\ Tail(messages) \in Seq(Messages)
      /\ ~Received("filter_changed") /\ ~Received("filter_id_changed")
      /\ In("filter_id_changed", messages) => In("filter_id_changed", Tail(messages))
      /\ ~OptionComesFirst(messages)
  BY <1>1, <1>2, TakenMessage
<1>4. ~crossed /\ shared = wanted /\ panel = PanelFor(loaded, panel.selected)
  BY <1>3 DEF IInv, EditInv, Typed, Edited, Calm, Overtaken
<1>5. CASE shared = loaded /\ messages' = Tail(messages) /\ UNCHANGED <<list, panel, mismatched>>
  <2>1. UNCHANGED <<loaded, rows, infos, panel, mismatched>>
    BY <1>5 DEF list
  <2>2. TypeInv'
    BY <1>1, <1>3, <1>5, <2>1 DEF IInv, TypeInv
  <2>3. AnnouncedInv' /\ RowsMatchFilters' /\ WindowsShowRules'
    BY <1>1, <1>3, <1>5, <2>1 DEF IInv, AnnouncedInv, RowsMatchFilters, WindowsShowRules
  <2>4. EditInv'
    BY <1>1, <1>4, <1>5, <2>1 DEF EditInv, Calm, LoadedFirst
  <2>. QED  BY <2>2, <2>3, <2>4 DEF IInv
<1>6. CASE PopulateFilterList(shared, SelectedAfter(shared), Tail(messages))
  <2>1. shared \in Seq(Rules) /\ Len(shared) <= MaxRules
    BY DEF IInv, TypeInv
  <2>2. SelectedAfter(shared) \in Nat
    BY <2>1, SelectedAfterFacts
  <2>3. wanted' = shared /\ crossed' = FALSE /\ shared' = shared
    BY <1>1, <1>4 DEF IInv, TypeInv
  <2>. QED  BY <1>1, <1>3, <1>6, <2>1, <2>2, <2>3, PopulateInv
<1>. QED  BY <1>5, <1>6 DEF OnStateChanged

LEMMA PublishStep ==
    ASSUME IInv, Publish
    PROVE  IInv'
<1>1. /\ published' = shared
      /\ UNCHANGED <<shared, loaded, rows, infos, dir, panel, messages, thread, refresh_queued,
                     wanted, crossed, mismatched>>
  BY DEF Publish, list, gathering, history
<1>2. TypeInv'
  BY <1>1 DEF IInv, TypeInv
<1>. QED  BY <1>1, <1>2 DEF IInv, AnnouncedInv, RowsMatchFilters, WindowsShowRules, EditInv, Calm,
                            Typed, Edited, Overtaken, LoadedFirst, Received

(* The panel stays as it is, for the rules that are still loaded: that is  *)
(* why it is compared with those, and `shared` with `wanted`.              *)
LEMMA RollBackStep ==
    ASSUME IInv, RollBack
    PROVE  IInv'
<1>1. /\ shared' = published /\ wanted' = published
      /\ messages' = Append(messages, "state_changed")
      /\ crossed' = (crossed \/ WritesTakenBack)
      /\ UNCHANGED <<published, loaded, rows, infos, dir, panel, thread, refresh_queued, mismatched>>
  BY DEF RollBack, list, gathering
<1>2. /\ messages \in Seq(Messages) /\ "state_changed" \in Messages
      /\ "filter_id_changed" \in Messages /\ "filter_changed" \in Messages
  BY DEF IInv, TypeInv, Messages
<1>3. /\ messages' \in Seq(Messages) /\ messages' # <<>>
      /\ In("state_changed", messages')
      /\ In("filter_id_changed", messages) => In("filter_id_changed", messages')
      /\ ~In("filter_changed", messages) => ~In("filter_changed", messages')
      /\ OptionComesFirst(messages) => OptionComesFirst(messages')
      /\ ~OptionComesFirst(messages) => LoadComesFirst(messages')
      /\ messages # <<>> => Head(messages') = Head(messages)
  BY <1>1, <1>2, AppendFacts
<1>4. TypeInv'
  <2>1. crossed' \in BOOLEAN
    BY <1>1, Zenon
  <2>. QED  BY <1>1, <1>3, <2>1 DEF IInv, TypeInv
<1>5. AnnouncedInv' /\ RowsMatchFilters' /\ WindowsShowRules'
  BY <1>1, <1>3 DEF IInv, AnnouncedInv, RowsMatchFilters, WindowsShowRules
<1>6. Received("filter_changed") => OptionComesFirst(messages)
  BY <1>2, TailFacts DEF Received
<1>7. ~In("filter_changed", messages) => ~OptionComesFirst(messages)
  BY DEF In, OptionComesFirst
<1>8. /\ Received("filter_changed") => Received("filter_changed")'
      /\ Received("filter_id_changed") => Received("filter_id_changed")'
  BY <1>3 DEF Received
<1>9. EditInv'
  <2>1. CASE OptionComesFirst(messages)
    <3>1. \/ panel = PanelFor(loaded, panel.selected)
          \/ Received("filter_changed") /\ panel.selected # 0
      <4>1. Edited => panel.selected # 0
        <5>1. 0 \notin DOMAIN shared
          BY DEF IInv, TypeInv
        <5>. QED  BY <5>1 DEF Edited
      <4>2. Calm \/ Edited \/ Overtaken
        BY <1>7, <2>1, Zenon DEF IInv, EditInv, Typed
      <4>3. CASE Calm
        BY <4>3 DEF Calm
      <4>4. CASE Edited
        BY <4>1, <4>4 DEF Edited
      <4>5. CASE Overtaken
        BY <4>5 DEF Overtaken
      <4>. QED  BY <4>2, <4>3, <4>4, <4>5
    <3>2. CASE crossed
      <4>1. panel.selected # 0
        BY <3>2 DEF IInv, EditInv, Overtaken
      <4>. QED  BY <1>1, <1>3, <1>8, <2>1, <3>1, <3>2, <4>1 DEF EditInv, Overtaken
    <3>3. CASE ~crossed /\ WritesTakenBack
      <4>1. panel.selected # 0
        <5>1. 0 \notin DOMAIN published
          BY DEF IInv, TypeInv
        <5>. QED  BY <3>3, <5>1 DEF WritesTakenBack
      <4>. QED  BY <1>1, <1>3, <1>8, <2>1, <3>1, <3>3, <4>1 DEF EditInv, Overtaken
    <3>4. CASE ~crossed /\ ~WritesTakenBack
      <4>1. panel.selected \in DOMAIN published => panel.filter = published[panel.selected]
        BY <2>1, <3>4 DEF WritesTakenBack, OptionComesFirst
      <4>. QED  BY <1>1, <1>8, <3>1, <3>4, <4>1 DEF EditInv, Overtaken
    <3>. QED  BY <3>2, <3>3, <3>4
  <2>2. CASE ~OptionComesFirst(messages)
    <3>1. ~crossed /\ ~Edited
      BY <1>6, <2>2 DEF IInv, EditInv, Overtaken, Edited
    <3>2. ~crossed'
      BY <1>1, <2>2, <3>1 DEF WritesTakenBack, OptionComesFirst
    <3>3. shared' = wanted' /\ LoadedFirst'
      BY <1>1, <1>3, <2>2 DEF LoadedFirst
    <3>4. CASE Calm \/ Overtaken
      <4>1. panel = PanelFor(loaded, panel.selected)
        BY <1>6, <2>2, <3>4 DEF Calm, Overtaken
      <4>2. panel' = PanelFor(loaded', panel'.selected)
        BY <1>1, <4>1
      <4>. QED  BY <3>2, <3>3, <4>2 DEF EditInv, Calm
    <3>5. CASE Typed
      BY <1>3, <1>8, <3>2, <3>3, <3>5 DEF EditInv, Typed
    <3>. QED  BY <3>1, <3>4, <3>5 DEF IInv, EditInv
  <2>. QED  BY <2>1, <2>2
<1>. QED  BY <1>4, <1>5, <1>9 DEF IInv
-----------------------------------------------------------------------------
(***************************************************************************)
(* Theorems.                                                               *)
(***************************************************************************)
THEOREM Invariant == Spec => []IInv
<1>1. ASSUME IInv, [Next]_vars PROVE IInv'
  <2>1. ASSUME User PROVE IInv'
    BY <1>1, <2>1, EditPanelStep, TypeIndexStep, ActivateStep, ColumnClickStep, OnCreateNewStep,
       OnDeleteStep, OnMoveStep, ImportFiltersStep, RefreshStep DEF User, OnMoveUp, OnMoveDown
  <2>2. ASSUME Handlers PROVE IInv'
    BY <1>1, <2>2, IgnoreOptionChangeStep, OnOptionChangeStep, OnIndexChangeStep,
       OnStateChangedStep, WindowInfoSteps DEF Handlers
  <2>3. CASE UNCHANGED vars
    BY <1>1, <2>3 DEF vars, IInv, TypeInv, AnnouncedInv, RowsMatchFilters, WindowsShowRules,
                      EditInv, Calm, Typed, Edited, Overtaken, LoadedFirst, Received
  <2>. QED  BY <1>1, <2>1, <2>2, <2>3, ThreadStep, PublishStep, RollBackStep DEF Next
<1>. QED  BY <1>1, InitInv, PTL DEF Spec

(* TypeOK: whatever is typed, moved, deleted, imported and taken back, and *)
(* whenever windows are listed, the state is of its type; a number that is *)
(* no rule's is only ever in the panel until it is told of.                *)
THEOREM Types == Spec => []TypeOK
<1>1. IInv => TypeOK
  <2>. SUFFICES ASSUME IInv PROVE TypeOK
    OBVIOUS
  <2>1. \A i \in DOMAIN rows : rows[i].ix \in 1..MaxRules /\ rows[i].rule \in Rules
    <3> TAKE i \in DOMAIN rows
    <3>1. rows[i] \in Rows
      BY DEF IInv, TypeInv
    <3>. QED  BY <3>1 DEF Rows
  <2>. QED  BY <2>1 DEF IInv, TypeInv, AnnouncedInv, TypeOK, Panels, Threads, In
<1>. QED  BY <1>1, Invariant, PTL

(* RowsMatchFilters: however often the list is sorted, also when it is     *)
(* updated sorted, and whatever the rules become, no rule is without a     *)
(* row, shown twice or as it was before.  Each row also selects its rule,  *)
(* as long as the list is not updated while it is sorted.                  *)
THEOREM RowsAreTheRules == Spec => []RowsMatchFilters
<1>1. IInv => RowsMatchFilters
  BY DEF IInv
<1>. QED  BY <1>1, Invariant, PTL

(* WindowsShowRules: rules that change while windows are still being       *)
(* listed reach the rows that are there, and later rows use the new rules, *)
(* as long as the list is not updated while it is sorted.                  *)
THEOREM WindowsAreCurrent == Spec => []WindowsShowRules
<1>1. IInv => WindowsShowRules
  BY DEF IInv
<1>. QED  BY <1>1, Invariant, PTL

(* EditsReachTheirRule: a window that has handled its messages has written *)
(* each edit to its rule and has made none of its own.  Only where a       *)
(* message waited for rules that were taken back, and the panel held       *)
(* something else than these, did it write what the panel held.            *)
THEOREM EditsArrive == Spec => []EditsReachTheirRule
<1>1. IInv => EditsReachTheirRule
  BY AtRest DEF EditsReachTheirRule
<1>. QED  BY <1>1, Invariant, PTL
-----------------------------------------------------------------------------
(***************************************************************************)
(* Texts.  Each recursive function of WindowRules is a loop over the text  *)
(* or over its lines: Loop gives the values it goes through, and BuildUp   *)
(* and CountUp carry a fact about them from one character or line to the   *)
(* next.                                                                   *)
(***************************************************************************)
(* Counting up: what holds at first and after each step holds at the end.  *)
LEMMA CountUp ==
    ASSUME NEW n \in Nat, NEW T, 0 \in T, \A k \in 1..n : k - 1 \in T => k \in T
    PROVE  0..n \subseteq T
<1>. DEFINE S == (0..n) \ T
<1>1. S \in SUBSET Nat /\ S \subseteq 0..n /\ S \cap T = {} /\ 0..n \subseteq S \cup T
  OBVIOUS
<1>. HIDE DEF S
<1>. SUFFICES ASSUME S # {} PROVE FALSE
  BY <1>1
<1>2. PICK k \in S : \A j \in S : k <= j
  BY <1>1, LeastNat
<1>3. k \in 0..n /\ k \notin T
  BY <1>1
<1>4. k \in 1..n /\ k - 1 \in 0..n /\ ~(k <= k - 1)
  BY <1>3
<1>5. k - 1 \in T
  BY <1>1, <1>2, <1>4
<1>. QED  BY <1>3, <1>4, <1>5

(* Two runs of a loop that go on alike are the same.                       *)
GoOnAlike(n, f, g) ==
    /\ f[0] = g[0]
    /\ \A k \in 1..n : f[k - 1] = g[k - 1] => f[k] = g[k]

LEMMA SameRuns ==
    ASSUME NEW n \in Nat, NEW f, NEW g, GoOnAlike(n, f, g)
    PROVE  \A k \in 0..n : f[k] = g[k]
<1>. DEFINE T == {k \in 0..n : f[k] = g[k]}
<1>1. 0 \in T
  BY DEF GoOnAlike
<1>2. \A k \in 1..n : k - 1 \in T => k \in T
  BY DEF GoOnAlike
<1>3. 0..n \subseteq T
  <2>. HIDE DEF T
  <2>. QED  BY <1>1, <1>2, CountUp
<1>. QED  BY <1>3

(* A loop runs through, one value after each step.                         *)
IsRun(f, n, base, step) == f[0] = base /\ \A k \in 1..n : f[k] = step[<<f[k - 1], k>>]

LEMMA Loop ==
    ASSUME NEW n \in Nat, NEW A, NEW base \in A, NEW step \in [A \X (1..n) -> A]
    PROVE  \E f \in [0..n -> A] : IsRun(f, n, base, step)
<1>. DEFINE Runs(f, m) == f[0] = base /\ \A k \in 1..m : f[k] = step[<<f[k - 1], k>>]
            T == {m \in 0..n : \E f \in [0..m -> A] : Runs(f, m)}
<1>1. 0 \in T
  <2>. DEFINE f == [i \in 0..0 |-> base]
  <2>1. f \in [0..0 -> A] /\ f[0] = base
    OBVIOUS
  <2>2. Runs(f, 0)
    BY <2>1
  <2>3. 0 \in 0..n
    OBVIOUS
  <2>. QED  BY <2>1, <2>2, <2>3
<1>2. ASSUME NEW m \in 1..n, m - 1 \in T PROVE m \in T
  <2>1. PICK f \in [0..m - 1 -> A] : Runs(f, m - 1)
    BY <1>2
  <2>. DEFINE last == step[<<f[m - 1], m>>]
              g == [k \in 0..m |-> IF k = m THEN last ELSE f[k]]
  <2>2. f[m - 1] \in A /\ last \in A
    <3>1. m - 1 \in 0..m - 1
      OBVIOUS
    <3>2. f[m - 1] \in A
      BY <3>1
    <3>. QED  BY <3>2
  <2>3. g \in [0..m -> A]
    BY <2>2
  <2>4. g[m] = last /\ \A k \in 0..m - 1 : g[k] = f[k]
    OBVIOUS
  <2>. HIDE DEF g
  <2>5. ASSUME NEW k \in 1..m PROVE g[k] = step[<<g[k - 1], k>>]
    <3>1. CASE k = m
      <4>1. m - 1 \in 0..m - 1
        OBVIOUS
      <4>. QED  BY <2>4, <3>1, <4>1
    <3>2. CASE k # m
      <4>1. k \in 1..m - 1 /\ k \in 0..m - 1 /\ k - 1 \in 0..m - 1
        BY <3>2
      <4>. QED  BY <2>1, <2>4, <4>1
    <3>. QED  BY <3>1, <3>2
  <2>6. g[0] = base
    BY <2>1, <2>4
  <2>. QED  BY <2>3, <2>5, <2>6
<1>. HIDE DEF T
<1>3. 0..n \subseteq T
  BY <1>1, <1>2, CountUp
<1>4. n \in T
  BY <1>3
<1>. QED  BY <1>4 DEF T, IsRun
-----------------------------------------------------------------------------
(* The beginnings of a text, one character after another.                  *)
LEMMA Beginnings ==
    ASSUME NEW Char, NEW s \in Seq(Char)
    PROVE  /\ SubSeq(s, 1, 0) = <<>> /\ SubSeq(s, 1, Len(s)) = s
           /\ \A k \in 1..Len(s) :
                  /\ s[k] \in Char /\ SubSeq(s, 1, k - 1) \in Seq(Char)
                  /\ SubSeq(s, 1, k) = Append(SubSeq(s, 1, k - 1), s[k])
<1>1. SubSeq(s, 1, 0) = <<>> /\ SubSeq(s, 1, Len(s)) = s
  OBVIOUS
<1>2. ASSUME NEW k \in 1..Len(s)
      PROVE  /\ s[k] \in Char /\ SubSeq(s, 1, k - 1) \in Seq(Char)
             /\ SubSeq(s, 1, k) = Append(SubSeq(s, 1, k - 1), s[k])
  OBVIOUS
<1>. QED  BY <1>1, <1>2

(* What holds of no text and of any text with one more character.          *)
LEMMA BuildUp ==
    ASSUME NEW Char, NEW s \in Seq(Char), NEW P, <<>> \in P,
           \A t \in Seq(Char), c \in Char : t \in P => Append(t, c) \in P
    PROVE  s \in P
<1>. DEFINE T == {k \in 0..Len(s) : SubSeq(s, 1, k) \in P}
<1>1. Len(s) \in Nat /\ 0 \in 0..Len(s) /\ Len(s) \in 0..Len(s)
  OBVIOUS
<1>2. 0 \in T
  BY <1>1, Beginnings
<1>3. ASSUME NEW k \in 1..Len(s), k - 1 \in T PROVE k \in T
  <2>1. /\ s[k] \in Char /\ SubSeq(s, 1, k - 1) \in Seq(Char)
        /\ SubSeq(s, 1, k) = Append(SubSeq(s, 1, k - 1), s[k])
    BY Beginnings
  <2>2. SubSeq(s, 1, k - 1) \in P
    BY <1>3
  <2>3. SubSeq(s, 1, k) \in P
    BY <2>1, <2>2
  <2>4. k \in 0..Len(s)
    BY <1>1
  <2>. QED  BY <2>3, <2>4
<1>4. Len(s) \in T
  <2>. HIDE DEF T
  <2>. QED  BY <1>1, <1>2, <1>3, CountUp
<1>5. SubSeq(s, 1, Len(s)) = s
  BY Beginnings
<1>. QED  BY <1>4, <1>5

LEMMA TextAppend ==
    ASSUME NEW Char, NEW s \in Seq(Char), NEW c \in Char
    PROVE  /\ Append(s, c) \in Seq(Char) /\ Len(Append(s, c)) = Len(s) + 1
           /\ Len(s) \in Nat
           /\ \A i \in 1..Len(s) : Append(s, c)[i] = s[i]
           /\ Append(s, c)[Len(s) + 1] = c
OBVIOUS
-----------------------------------------------------------------------------
(* The loop of Without. *)
IsWithout(rest, s, cs) ==
    /\ rest[0] = <<>>
    /\ \A k \in 1..Len(s) :
           rest[k] = IF s[k] \in cs THEN rest[k - 1] ELSE Append(rest[k - 1], s[k])

LEMMA WithoutRun ==
    ASSUME NEW Char, NEW s \in Seq(Char), NEW cs
    PROVE  \E run \in [0..Len(s) -> Seq(Char)] :
               IsWithout(run, s, cs) /\ Without(s, cs) = run[Len(s)]
<1>. DEFINE n == Len(s)
            A == Seq(Char)
            base == <<>>
            step == [x \in A \X (1..n) |-> IF s[x[2]] \in cs THEN x[1] ELSE Append(x[1], s[x[2]])]
            Rest(f) == [k \in 0..n |->
                IF k = 0 THEN base
                ELSE IF s[k] \in cs THEN f[k - 1] ELSE Append(f[k - 1], s[k])]
            F == CHOOSE f : f = Rest(f)
<1>1. n \in Nat /\ base \in A /\ \A k \in 1..n : k - 1 \in 0..n /\ k # 0 /\ k \in 0..n
  OBVIOUS
<1>2. step \in [A \X (1..n) -> A]
  OBVIOUS
<1>3. \A z \in A, k \in 1..n : step[<<z, k>>] = IF s[k] \in cs THEN z ELSE Append(z, s[k])
  OBVIOUS
<1>4. PICK g \in [0..n -> A] : IsRun(g, n, base, step)
  <2>. HIDE DEF base, step, A, n
  <2>. QED  BY <1>1, <1>2, Loop
<1>5. g[0] = base /\ \A k \in 1..n : g[k] = step[<<g[k - 1], k>>]
  BY <1>4 DEF IsRun
<1>6. \A k \in 1..n : g[k] = IF s[k] \in cs THEN g[k - 1] ELSE Append(g[k - 1], s[k])
  <2>. HIDE DEF base, step, A, n
  <2>. QED  BY <1>1, <1>3, <1>4, <1>5
<1>7. g = Rest(g)
  <2>1. \A k \in 0..n : k = 0 \/ k \in 1..n
    BY <1>1
  <2>. HIDE DEF base, step, A, n
  <2>2. \A k \in 0..n : g[k] = Rest(g)[k]
    BY <1>1, <1>5, <1>6, <2>1
  <2>. QED  BY <1>4, <2>2
<1>8. F = Rest(F)
  BY <1>7
<1>9. n \in 0..n /\ 0 \in 0..n
  BY <1>1
<1>10. Without(s, cs) = F[n]
  BY DEF Without
<1>. HIDE DEF base, step, A, n, F
<1>11. F[n] = g[n]
  <2>1. F[0] = g[0]
    BY <1>5, <1>8, <1>9
  <2>2. ASSUME NEW k \in 1..n, F[k - 1] = g[k - 1] PROVE F[k] = g[k]
    <3>1. Rest(F)[k] = IF s[k] \in cs THEN F[k - 1] ELSE Append(F[k - 1], s[k])
      BY <1>1
    <3>2. F[k] = Rest(F)[k]
      BY <1>8
    <3>. QED  BY <1>6, <2>2, <3>1, <3>2
  <2>. HIDE DEF Rest
  <2>3. GoOnAlike(n, F, g)
    BY <2>1, <2>2 DEF GoOnAlike
  <2>4. n \in Nat
    BY <1>1
  <2>5. \A k \in 0..n : F[k] = g[k]
    BY <2>3, <2>4, SameRuns
  <2>. QED  BY <1>9, <2>5
<1>12. IsWithout(g, s, cs)
  BY <1>5, <1>6 DEF IsWithout, n, base
<1>. QED  BY <1>4, <1>10, <1>11, <1>12 DEF n, A

LEMMA WithoutNone ==
    ASSUME NEW cs PROVE Without(<<>>, cs) = <<>>
<1>1. <<>> \in Seq({}) /\ Len(<<>>) = 0
  OBVIOUS
<1>2. PICK rest : IsWithout(rest, <<>>, cs) /\ Without(<<>>, cs) = rest[Len(<<>>)]
  BY <1>1, WithoutRun
<1>. QED  BY <1>1, <1>2 DEF IsWithout

LEMMA WithoutAppend ==
    ASSUME NEW Char, NEW s \in Seq(Char), NEW c \in Char, NEW cs
    PROVE  /\ Without(s, cs) \in Seq(Char)
           /\ Without(Append(s, c), cs) =
                  IF c \in cs THEN Without(s, cs) ELSE Append(Without(s, cs), c)
<1>. DEFINE t == Append(s, c)
            n == Len(s)
<1>1. /\ t \in Seq(Char) /\ Len(t) = n + 1 /\ n \in Nat
      /\ \A i \in 1..n : t[i] = s[i]
      /\ t[n + 1] = c
  BY TextAppend
<1>. HIDE DEF t
<1>2. PICK f \in [0..n -> Seq(Char)] : IsWithout(f, s, cs) /\ Without(s, cs) = f[n]
  BY WithoutRun
<1>3. PICK g \in [0..Len(t) -> Seq(Char)] : IsWithout(g, t, cs) /\ Without(t, cs) = g[Len(t)]
  BY <1>1, WithoutRun
<1>. HIDE DEF n
<1>4. GoOnAlike(n, f, g)
  <2>1. f[0] = g[0]
    BY <1>2, <1>3 DEF IsWithout
  <2>2. ASSUME NEW k \in 1..n, f[k - 1] = g[k - 1] PROVE f[k] = g[k]
    <3>1. k \in 1..Len(t) /\ t[k] = s[k]
      BY <1>1
    <3>2. f[k] = IF s[k] \in cs THEN f[k - 1] ELSE Append(f[k - 1], s[k])
      BY <1>2 DEF IsWithout, n
    <3>3. g[k] = IF t[k] \in cs THEN g[k - 1] ELSE Append(g[k - 1], t[k])
      BY <1>3, <3>1 DEF IsWithout
    <3>. QED  BY <2>2, <3>1, <3>2, <3>3
  <2>. QED  BY <2>1, <2>2 DEF GoOnAlike
<1>5. \A k \in 0..n : f[k] = g[k]
  <2>1. n \in Nat
    BY <1>1
  <2>. QED  BY <1>4, <2>1, SameRuns
<1>6. n \in 0..n /\ n + 1 \in 1..Len(t) /\ (n + 1) - 1 = n
  BY <1>1
<1>7. g[n + 1] = IF c \in cs THEN g[n] ELSE Append(g[n], c)
  BY <1>1, <1>3, <1>6 DEF IsWithout
<1>8. f[n] = g[n] /\ f[n] \in Seq(Char)
  BY <1>2, <1>5, <1>6
<1>. QED  BY <1>1, <1>2, <1>3, <1>7, <1>8 DEF t
-----------------------------------------------------------------------------
(* The loop of SplitLines. *)
LinesOf(Char) == {v \in Seq(Seq(Char)) : Len(v) >= 1}

LEMMA GoesOn ==
    ASSUME NEW Char, NEW v \in LinesOf(Char), NEW c \in Char
    PROVE  /\ GoOn(v, c) \in LinesOf(Char)
           /\ c = Newline => GoOn(v, c) = Append(v, <<>>)
           /\ c # Newline =>
                /\ Len(GoOn(v, c)) = Len(v)
                /\ \A k \in 1..Len(v) :
                       GoOn(v, c)[k] = IF k = Len(v) THEN Append(v[k], c) ELSE v[k]
<1>1. v \in Seq(Seq(Char)) /\ Len(v) \in Nat /\ Len(v) >= 1 /\ Len(v) \in 1..Len(v)
  BY DEF LinesOf
<1>2. v[Len(v)] \in Seq(Char)
  BY <1>1
<1>3. Append(v[Len(v)], c) \in Seq(Char)
  BY <1>2, TextAppend
<1>4. CASE c = Newline
  <2>1. <<>> \in Seq(Char)
    OBVIOUS
  <2>2. Append(v, <<>>) \in LinesOf(Char)
    BY <1>1, <2>1 DEF LinesOf
  <2>. QED  BY <1>4, <2>2 DEF GoOn
<1>5. CASE c # Newline
  <2>. DEFINE new == Append(v[Len(v)], c)
              w == [v EXCEPT ![Len(v)] = new]
  <2>1. new \in Seq(Char)
    BY <1>3
  <2>2. GoOn(v, c) = w
    BY <1>5 DEF GoOn
  <2>. HIDE DEF new
  <2>3. w \in Seq(Seq(Char)) /\ Len(w) = Len(v)
    BY <1>1, <2>1
  <2>4. \A k \in 1..Len(v) : w[k] = IF k = Len(v) THEN new ELSE v[k]
    BY <1>1
  <2>. QED  BY <1>1, <1>5, <2>2, <2>3, <2>4 DEF LinesOf, new
<1>. QED  BY <1>4, <1>5

IsSplit(run, s) ==
    /\ run[0] = <<<<>>>>
    /\ \A k \in 1..Len(s) : run[k] = GoOn(run[k - 1], s[k])

LEMMA SplitRun ==
    ASSUME NEW Char, NEW s \in Seq(Char)
    PROVE  \E run \in [0..Len(s) -> LinesOf(Char)] : IsSplit(run, s) /\ SplitLines(s) = run[Len(s)]
<1>. DEFINE n == Len(s)
            A == LinesOf(Char)
            base == <<<<>>>>
            step == [x \in A \X (1..n) |-> GoOn(x[1], s[x[2]])]
            Rest(f) == [k \in 0..n |-> IF k = 0 THEN base ELSE GoOn(f[k - 1], s[k])]
            F == CHOOSE f : f = Rest(f)
<1>1. n \in Nat /\ base \in A /\ \A k \in 1..n : k - 1 \in 0..n /\ k # 0 /\ k \in 0..n
  BY DEF LinesOf
<1>2. step \in [A \X (1..n) -> A]
  BY GoesOn
<1>3. \A z \in A, k \in 1..n : step[<<z, k>>] = GoOn(z, s[k])
  OBVIOUS
<1>4. PICK g \in [0..n -> A] : IsRun(g, n, base, step)
  <2>. HIDE DEF base, step, A, n
  <2>. QED  BY <1>1, <1>2, Loop
<1>5. g[0] = base /\ \A k \in 1..n : g[k] = step[<<g[k - 1], k>>]
  BY <1>4 DEF IsRun
<1>6. \A k \in 1..n : g[k] = GoOn(g[k - 1], s[k])
  <2>. HIDE DEF base, step, A, n
  <2>. QED  BY <1>1, <1>3, <1>4, <1>5
<1>7. g = Rest(g)
  <2>1. \A k \in 0..n : k = 0 \/ k \in 1..n
    BY <1>1
  <2>. HIDE DEF base, step, A, n
  <2>2. \A k \in 0..n : g[k] = Rest(g)[k]
    BY <1>1, <1>5, <1>6, <2>1
  <2>. QED  BY <1>4, <2>2
<1>8. F = Rest(F)
  BY <1>7
<1>9. n \in 0..n /\ 0 \in 0..n
  BY <1>1
<1>10. SplitLines(s) = F[n]
  BY DEF SplitLines
<1>. HIDE DEF base, step, A, n, F
<1>11. F[n] = g[n]
  <2>1. F[0] = g[0]
    BY <1>5, <1>8, <1>9
  <2>2. ASSUME NEW k \in 1..n, F[k - 1] = g[k - 1] PROVE F[k] = g[k]
    <3>1. Rest(F)[k] = GoOn(F[k - 1], s[k])
      BY <1>1
    <3>2. F[k] = Rest(F)[k]
      BY <1>8
    <3>. QED  BY <1>6, <2>2, <3>1, <3>2
  <2>. HIDE DEF Rest
  <2>3. GoOnAlike(n, F, g)
    BY <2>1, <2>2 DEF GoOnAlike
  <2>4. n \in Nat
    BY <1>1
  <2>5. \A k \in 0..n : F[k] = g[k]
    BY <2>3, <2>4, SameRuns
  <2>. QED  BY <1>9, <2>5
<1>12. IsSplit(g, s)
  BY <1>5, <1>6 DEF IsSplit, n, base
<1>. QED  BY <1>4, <1>10, <1>11, <1>12 DEF n, A

LEMMA SplitNone ==
    ASSUME NEW Char
    PROVE  SplitLines(<<>>) = <<<<>>>>
<1>1. <<>> \in Seq(Char) /\ Len(<<>>) = 0
  OBVIOUS
<1>2. PICK run : IsSplit(run, <<>>) /\ SplitLines(<<>>) = run[Len(<<>>)]
  BY <1>1, SplitRun
<1>. QED  BY <1>1, <1>2 DEF IsSplit

LEMMA SplitAppend ==
    ASSUME NEW Char, NEW s \in Seq(Char), NEW c \in Char
    PROVE  /\ SplitLines(s) \in LinesOf(Char)
           /\ SplitLines(Append(s, c)) = GoOn(SplitLines(s), c)
<1>. DEFINE t == Append(s, c)
            n == Len(s)
<1>1. /\ t \in Seq(Char) /\ Len(t) = n + 1 /\ n \in Nat
      /\ \A i \in 1..n : t[i] = s[i]
      /\ t[n + 1] = c
  BY TextAppend
<1>. HIDE DEF t
<1>2. PICK f \in [0..n -> LinesOf(Char)] : IsSplit(f, s) /\ SplitLines(s) = f[n]
  BY SplitRun
<1>3. PICK g \in [0..Len(t) -> LinesOf(Char)] : IsSplit(g, t) /\ SplitLines(t) = g[Len(t)]
  BY <1>1, SplitRun
<1>. HIDE DEF n
<1>4. GoOnAlike(n, f, g)
  <2>1. f[0] = g[0]
    BY <1>2, <1>3 DEF IsSplit
  <2>2. ASSUME NEW k \in 1..n, f[k - 1] = g[k - 1] PROVE f[k] = g[k]
    <3>1. k \in 1..Len(t) /\ t[k] = s[k]
      BY <1>1
    <3>2. f[k] = GoOn(f[k - 1], s[k])
      BY <1>2 DEF IsSplit, n
    <3>3. g[k] = GoOn(g[k - 1], t[k])
      BY <1>3, <3>1 DEF IsSplit
    <3>. QED  BY <2>2, <3>1, <3>2, <3>3
  <2>. QED  BY <2>1, <2>2 DEF GoOnAlike
<1>5. \A k \in 0..n : f[k] = g[k]
  <2>1. n \in Nat
    BY <1>1
  <2>. QED  BY <1>4, <2>1, SameRuns
<1>6. n \in 0..n /\ n + 1 \in 1..Len(t) /\ (n + 1) - 1 = n
  BY <1>1
<1>7. g[n + 1] = GoOn(g[n], c)
  BY <1>1, <1>3, <1>6 DEF IsSplit
<1>8. f[n] = g[n] /\ f[n] \in LinesOf(Char)
  BY <1>2, <1>5, <1>6
<1>. QED  BY <1>1, <1>2, <1>3, <1>7, <1>8 DEF t
-----------------------------------------------------------------------------
(* The loop of JoinLines. *)
IsJoined(run, v) ==
    /\ run[0] = v[1]
    /\ \A k \in 1..Len(v) - 1 : run[k] = run[k - 1] \o <<Newline>> \o v[k + 1]

LEMMA LineFacts ==
    ASSUME NEW Char, NEW v \in LinesOf(Char)
    PROVE  /\ v \in Seq(Seq(Char)) /\ Len(v) \in Nat /\ Len(v) - 1 \in Nat
           /\ v[1] \in Seq(Char)
           /\ \A k \in 1..Len(v) : v[k] \in Seq(Char)
           /\ \A k \in 1..Len(v) - 1 : k + 1 \in 1..Len(v) /\ v[k + 1] \in Seq(Char)
<1>1. v \in Seq(Seq(Char)) /\ Len(v) \in Nat /\ Len(v) >= 1 /\ 1 \in 1..Len(v)
  BY DEF LinesOf
<1>2. \A k \in 1..Len(v) : v[k] \in Seq(Char)
  BY <1>1
<1>3. \A k \in 1..Len(v) - 1 : k + 1 \in 1..Len(v)
  BY <1>1
<1>. QED  BY <1>1, <1>2, <1>3

LEMMA WithLine ==
    ASSUME NEW Char, Newline \in Char, NEW s \in Seq(Char), NEW line \in Seq(Char)
    PROVE  s \o <<Newline>> \o line \in Seq(Char)
<1>1. <<Newline>> \in Seq(Char)
  OBVIOUS
<1>2. s \o <<Newline>> \in Seq(Char)
  BY <1>1, ConcatProperties
<1>. QED  BY <1>2, ConcatProperties

LEMMA JoinRun ==
    ASSUME NEW Char, Newline \in Char, NEW v \in LinesOf(Char)
    PROVE  \E run \in [0..Len(v) - 1 -> Seq(Char)] :
               IsJoined(run, v) /\ JoinLines(v) = run[Len(v) - 1]
<1>. DEFINE n == Len(v) - 1
            A == Seq(Char)
            base == v[1]
            step == [x \in A \X (1..n) |-> x[1] \o <<Newline>> \o v[x[2] + 1]]
            Rest(f) == [k \in 0..n |-> IF k = 0 THEN base ELSE f[k - 1] \o <<Newline>> \o v[k + 1]]
            F == CHOOSE f : f = Rest(f)
<1>1. n \in Nat /\ base \in A /\ \A k \in 1..n : k - 1 \in 0..n /\ k # 0 /\ k \in 0..n
  BY LineFacts
<1>2. step \in [A \X (1..n) -> A]
  BY LineFacts, WithLine
<1>3. \A z \in A, k \in 1..n : step[<<z, k>>] = z \o <<Newline>> \o v[k + 1]
  OBVIOUS
<1>4. PICK g \in [0..n -> A] : IsRun(g, n, base, step)
  <2>. HIDE DEF base, step, A, n
  <2>. QED  BY <1>1, <1>2, Loop
<1>5. g[0] = base /\ \A k \in 1..n : g[k] = step[<<g[k - 1], k>>]
  BY <1>4 DEF IsRun
<1>6. \A k \in 1..n : g[k] = g[k - 1] \o <<Newline>> \o v[k + 1]
  <2>. HIDE DEF base, step, A, n
  <2>. QED  BY <1>1, <1>3, <1>4, <1>5
<1>7. g = Rest(g)
  <2>1. \A k \in 0..n : k = 0 \/ k \in 1..n
    BY <1>1
  <2>. HIDE DEF base, step, A, n
  <2>2. \A k \in 0..n : g[k] = Rest(g)[k]
    BY <1>1, <1>5, <1>6, <2>1
  <2>. QED  BY <1>4, <2>2
<1>8. F = Rest(F)
  BY <1>7
<1>9. n \in 0..n /\ 0 \in 0..n
  BY <1>1
<1>10. JoinLines(v) = F[n]
  BY DEF JoinLines
<1>. HIDE DEF base, step, A, n, F
<1>11. F[n] = g[n]
  <2>1. F[0] = g[0]
    BY <1>5, <1>8, <1>9
  <2>2. ASSUME NEW k \in 1..n, F[k - 1] = g[k - 1] PROVE F[k] = g[k]
    <3>1. Rest(F)[k] = F[k - 1] \o <<Newline>> \o v[k + 1]
      BY <1>1
    <3>2. F[k] = Rest(F)[k]
      BY <1>8
    <3>. QED  BY <1>6, <2>2, <3>1, <3>2
  <2>. HIDE DEF Rest
  <2>3. GoOnAlike(n, F, g)
    BY <2>1, <2>2 DEF GoOnAlike
  <2>4. n \in Nat
    BY <1>1
  <2>5. \A k \in 0..n : F[k] = g[k]
    BY <2>3, <2>4, SameRuns
  <2>. QED  BY <1>9, <2>5
<1>12. IsJoined(g, v)
  BY <1>5, <1>6 DEF IsJoined, n, base
<1>. QED  BY <1>4, <1>10, <1>11, <1>12 DEF n, A

LEMMA JoinGoOn ==
    ASSUME NEW Char, Newline \in Char, NEW v \in LinesOf(Char), NEW c \in Char
    PROVE  /\ JoinLines(v) \in Seq(Char)
           /\ JoinLines(GoOn(v, c)) = Append(JoinLines(v), c)
<1>. DEFINE w == GoOn(v, c)
            n == Len(v) - 1
            m == Len(w) - 1
<1>1. w \in LinesOf(Char)
  BY GoesOn
<1>2. n \in Nat /\ Len(v) = n + 1 /\ m \in Nat /\ Len(w) = m + 1
  BY <1>1, LineFacts
<1>3. \A k \in 1..n : v[k] \in Seq(Char) /\ v[k + 1] \in Seq(Char)
  BY <1>2, LineFacts
<1>4. v[1] \in Seq(Char)
  BY LineFacts
<1>5. PICK f \in [0..n -> Seq(Char)] : IsJoined(f, v) /\ JoinLines(v) = f[n]
  BY JoinRun
<1>6. PICK g \in [0..m -> Seq(Char)] : IsJoined(g, w) /\ JoinLines(w) = g[m]
  BY <1>1, JoinRun
<1>7. f[0] = v[1] /\ \A k \in 1..n : f[k] = f[k - 1] \o <<Newline>> \o v[k + 1]
  BY <1>5 DEF IsJoined
<1>8. g[0] = w[1] /\ \A k \in 1..m : g[k] = g[k - 1] \o <<Newline>> \o w[k + 1]
  BY <1>6 DEF IsJoined
<1>9. n \in 0..n /\ f[n] \in Seq(Char)
  BY <1>2, <1>5
<1>10. CASE c = Newline
  <2>1. w = Append(v, <<>>)
    BY <1>10, GoesOn
  <2>. HIDE DEF w
  <2>2. <<>> \in Seq(Char) /\ v \in Seq(Seq(Char))
    BY LineFacts
  <2>3. Len(w) = n + 2 /\ (\A k \in 1..n + 1 : w[k] = v[k]) /\ w[n + 2] = <<>>
    BY <1>2, <2>1, <2>2, TextAppend
  <2>4. m = n + 1
    BY <1>2, <2>3
  <2>. HIDE DEF n, m
  <2>5. GoOnAlike(n, f, g)
    <3>1. 1 \in 1..n + 1 /\ \A k \in 1..n : k + 1 \in 1..n + 1 /\ k \in 1..m
      BY <1>2, <2>4
    <3>2. f[0] = g[0]
      BY <1>2, <1>7, <1>8, <2>3
    <3>3. ASSUME NEW k \in 1..n, f[k - 1] = g[k - 1] PROVE f[k] = g[k]
      <4>1. f[k] = f[k - 1] \o <<Newline>> \o v[k + 1]
        BY <1>7
      <4>2. g[k] = g[k - 1] \o <<Newline>> \o w[k + 1]
        BY <1>8, <3>1
      <4>3. w[k + 1] = v[k + 1]
        BY <2>3, <3>1
      <4>. QED  BY <3>3, <4>1, <4>2, <4>3
    <3>. QED  BY <3>2, <3>3 DEF GoOnAlike
  <2>6. \A k \in 0..n : f[k] = g[k]
    <3>1. n \in Nat
      BY <1>2
    <3>. QED  BY <2>5, <3>1, SameRuns
  <2>7. g[n + 1] = g[n] \o <<Newline>> \o w[n + 2]
    <3>1. n + 1 \in 1..m /\ (n + 1) - 1 = n /\ (n + 1) + 1 = n + 2
      BY <1>2, <2>4
    <3>. QED  BY <1>8, <3>1
  <2>8. g[m] = f[n] \o <<Newline>> \o <<>>
    BY <1>9, <2>3, <2>4, <2>6, <2>7
  <2>9. \A s \in Seq(Char) : s \o <<Newline>> \o <<>> = Append(s, Newline)
    OBVIOUS
  <2>. QED  BY <1>5, <1>6, <1>9, <1>10, <2>8, <2>9 DEF w
<1>11. CASE c # Newline
  <2>1. /\ Len(w) = Len(v)
        /\ \A k \in 1..Len(v) : w[k] = IF k = Len(v) THEN Append(v[k], c) ELSE v[k]
    BY <1>11, GoesOn
  <2>. HIDE DEF w, n, m
  <2>2. m = n /\ n + 1 \in 1..Len(v) /\ w[n + 1] = Append(v[n + 1], c)
    <3>1. m = n /\ n + 1 \in 1..Len(v)
      BY <1>2, <2>1
    <3>. QED  BY <1>2, <2>1, <3>1
  <2>3. \A k \in 1..n : w[k] = v[k]
    <3>1. \A k \in 1..n : k \in 1..Len(v) /\ k # Len(v)
      BY <1>2
    <3>. QED  BY <2>1, <3>1
  <2>4. CASE n = 0
    BY <1>5, <1>6, <1>7, <1>8, <2>2, <2>4 DEF w
  <2>5. CASE n # 0
    <3>. DEFINE p == n - 1
    <3>1. p \in Nat /\ n = p + 1 /\ p \in 0..p /\ n \in 1..n /\ n - 1 = p /\ p \in 0..n
      BY <1>2, <2>5
    <3>. HIDE DEF p
    <3>2. GoOnAlike(p, f, g)
      <4>1. 1 \in 1..n /\ \A k \in 1..p : k + 1 \in 1..n /\ k \in 1..n
        BY <3>1
      <4>2. f[0] = g[0]
        BY <1>7, <1>8, <2>3, <4>1
      <4>3. ASSUME NEW k \in 1..p, f[k - 1] = g[k - 1] PROVE f[k] = g[k]
        <5>1. k \in 1..n /\ k + 1 \in 1..n
          BY <4>1
        <5>2. f[k] = f[k - 1] \o <<Newline>> \o v[k + 1]
          BY <1>7, <5>1
        <5>3. g[k] = g[k - 1] \o <<Newline>> \o w[k + 1]
          BY <1>8, <2>2, <5>1
        <5>4. w[k + 1] = v[k + 1]
          BY <2>3, <5>1
        <5>. QED  BY <4>3, <5>2, <5>3, <5>4
      <4>. QED  BY <4>2, <4>3 DEF GoOnAlike
    <3>3. \A k \in 0..p : f[k] = g[k]
      <4>1. p \in Nat
        BY <3>1
      <4>. QED  BY <3>2, <4>1, SameRuns
    <3>4. f[p] = g[p] /\ f[p] \in Seq(Char) /\ v[n + 1] \in Seq(Char)
      BY <1>3, <1>5, <3>1, <3>3
    <3>5. f[n] = f[p] \o <<Newline>> \o v[n + 1]
      BY <1>7, <3>1
    <3>6. g[n] = f[p] \o <<Newline>> \o Append(v[n + 1], c)
      BY <1>8, <2>2, <3>1, <3>4
    <3>7. \A s, t \in Seq(Char) :
             s \o <<Newline>> \o Append(t, c) = Append(s \o <<Newline>> \o t, c)
      OBVIOUS
    <3>8. g[n] = Append(f[n], c)
      BY <3>4, <3>5, <3>6, <3>7
    <3>9. JoinLines(v) = f[n] /\ JoinLines(w) = g[n]
      BY <1>5, <1>6, <2>2
    <3>. QED  BY <1>5, <1>9, <3>8, <3>9 DEF w
  <2>. QED  BY <2>4, <2>5
<1>. QED  BY <1>5, <1>9, <1>10, <1>11

(* What is split is joined again.                                          *)
LEMMA JoinSplit ==
    ASSUME NEW Char, Newline \in Char, NEW s \in Seq(Char)
    PROVE  JoinLines(SplitLines(s)) = s
<1>. DEFINE Whole(t) == SplitLines(t) \in LinesOf(Char) /\ JoinLines(SplitLines(t)) = t
            P == {t \in Seq(Char) : Whole(t)}
<1>1. Whole(<<>>)
  <2>1. <<<<>>>> \in LinesOf(Char) /\ <<>> \in Seq(Char) /\ Len(<<<<>>>>) - 1 = 0
    BY DEF LinesOf
  <2>2. PICK f : IsJoined(f, <<<<>>>>) /\ JoinLines(<<<<>>>>) = f[Len(<<<<>>>>) - 1]
    BY <2>1, JoinRun
  <2>3. JoinLines(<<<<>>>>) = <<>>
    BY <2>1, <2>2 DEF IsJoined
  <2>. QED  BY <2>1, <2>3, SplitNone
<1>2. ASSUME NEW t \in Seq(Char), NEW c \in Char, Whole(t) PROVE Whole(Append(t, c))
  <2>1. SplitLines(Append(t, c)) = GoOn(SplitLines(t), c)
    BY SplitAppend
  <2>2. GoOn(SplitLines(t), c) \in LinesOf(Char)
    BY <1>2, GoesOn
  <2>3. JoinLines(GoOn(SplitLines(t), c)) = Append(t, c)
    BY <1>2, JoinGoOn
  <2>. QED  BY <2>1, <2>2, <2>3
<1>. HIDE DEF Whole
<1>3. <<>> \in P
  BY <1>1
<1>4. \A t \in Seq(Char), c \in Char : t \in P => Append(t, c) \in P
  BY <1>2, TextAppend
<1>5. s \in P
  <2>. HIDE DEF P
  <2>. QED  BY <1>3, <1>4, BuildUp
<1>. QED  BY <1>5 DEF Whole
-----------------------------------------------------------------------------
(* Lines without some characters. *)
LEMMA SameSeq ==
    ASSUME NEW A, NEW s \in Seq(A), NEW t \in Seq(A), Len(s) = Len(t),
           \A i \in 1..Len(s) : s[i] = t[i]
    PROVE  s = t
OBVIOUS

LEMMA SplitIsLines ==
    ASSUME NEW Char, NEW s \in Seq(Char)
    PROVE  SplitLines(s) \in LinesOf(Char)
<1>1. PICK run \in [0..Len(s) -> LinesOf(Char)] : SplitLines(s) = run[Len(s)]
  BY SplitRun
<1>2. Len(s) \in 0..Len(s)
  OBVIOUS
<1>. QED  BY <1>1, <1>2

LEMMA WithoutIsText ==
    ASSUME NEW Char, NEW s \in Seq(Char), NEW cs
    PROVE  Without(s, cs) \in Seq(Char)
<1>1. PICK rest \in [0..Len(s) -> Seq(Char)] : Without(s, cs) = rest[Len(s)]
  BY WithoutRun
<1>2. Len(s) \in 0..Len(s)
  OBVIOUS
<1>. QED  BY <1>1, <1>2

WithoutIn(v, cs) == [k \in 1..Len(v) |-> Without(v[k], cs)]

LEMMA WithoutLines ==
    ASSUME NEW Char, NEW v \in LinesOf(Char), NEW cs
    PROVE  /\ WithoutIn(v, cs) \in LinesOf(Char) /\ Len(WithoutIn(v, cs)) = Len(v)
           /\ \A k \in 1..Len(v) : WithoutIn(v, cs)[k] = Without(v[k], cs)
<1>1. Len(v) \in Nat /\ Len(v) >= 1 /\ \A k \in 1..Len(v) : v[k] \in Seq(Char)
  BY LineFacts DEF LinesOf
<1>2. \A k \in 1..Len(v) : Without(v[k], cs) \in Seq(Char)
  BY <1>1, WithoutIsText
<1>3. WithoutIn(v, cs) \in Seq(Seq(Char)) /\ Len(WithoutIn(v, cs)) = Len(v)
  BY <1>1, <1>2 DEF WithoutIn
<1>. QED  BY <1>1, <1>3 DEF LinesOf, WithoutIn

LEMMA WithoutGoOn ==
    ASSUME NEW Char, Newline \in Char, NEW v \in LinesOf(Char), NEW c \in Char
    PROVE  WithoutIn(GoOn(v, c), {Return}) =
               IF c = Return THEN WithoutIn(v, {Return}) ELSE GoOn(WithoutIn(v, {Return}), c)
<1>. DEFINE cs == {Return}
            n == Len(v)
            w == GoOn(v, c)
            p == WithoutIn(v, cs)
            q == WithoutIn(w, cs)
<1>1. w \in LinesOf(Char)
  BY GoesOn
<1>2. /\ p \in LinesOf(Char) /\ Len(p) = n /\ \A k \in 1..n : p[k] = Without(v[k], cs)
  BY WithoutLines
<1>3. /\ q \in LinesOf(Char) /\ Len(q) = Len(w)
      /\ \A k \in 1..Len(w) : q[k] = Without(w[k], cs)
  BY <1>1, WithoutLines
<1>4. /\ n \in Nat /\ n >= 1 /\ v \in Seq(Seq(Char))
      /\ p \in Seq(Seq(Char)) /\ q \in Seq(Seq(Char))
      /\ \A k \in 1..n : v[k] \in Seq(Char)
  BY <1>2, <1>3, LineFacts DEF LinesOf
<1>5. GoOn(p, c) \in LinesOf(Char)
  BY <1>2, GoesOn
<1>6. Newline \notin cs
  BY DEF Newline, Return
<1>7. CASE c = Newline
  <2>1. w = Append(v, <<>>) /\ GoOn(p, c) = Append(p, <<>>)
    BY <1>2, <1>7, GoesOn
  <2>2. <<>> \in Seq(Char)
    OBVIOUS
  <2>. DEFINE r == GoOn(p, c)
  <2>. HIDE DEF w, p, q, cs, n
  <2>3. Len(w) = n + 1 /\ (\A k \in 1..n : w[k] = v[k]) /\ w[n + 1] = <<>>
    BY <1>4, <2>1, <2>2, TextAppend DEF n
  <2>4. Len(r) = n + 1 /\ (\A k \in 1..n : r[k] = p[k]) /\ r[n + 1] = <<>>
    BY <1>2, <1>4, <2>1, <2>2, TextAppend
  <2>5. \A k \in 1..n + 1 : q[k] = r[k]
    <3>1. n + 1 \in 1..n + 1 /\ \A k \in 1..n + 1 : k \in 1..n \/ k = n + 1
      BY <1>4
    <3>2. q[n + 1] = r[n + 1]
      BY <1>3, <2>3, <2>4, <3>1, WithoutNone
    <3>3. ASSUME NEW k \in 1..n PROVE q[k] = r[k]
      <4>1. k \in 1..n + 1
        BY <1>4
      <4>. QED  BY <1>2, <1>3, <2>3, <2>4, <4>1
    <3>. QED  BY <3>1, <3>2, <3>3
  <2>6. r \in Seq(Seq(Char))
    BY <1>5, LineFacts
  <2>. HIDE DEF r
  <2>7. q = r
    BY <1>3, <1>4, <2>3, <2>4, <2>5, <2>6, SameSeq
  <2>. QED  BY <1>6, <1>7, <2>7 DEF q, r, p, w, cs
<1>8. CASE c # Newline
  <2>1. /\ Len(w) = n
        /\ \A k \in 1..n : w[k] = IF k = n THEN Append(v[k], c) ELSE v[k]
    BY <1>8, GoesOn
  <2>. DEFINE r == GoOn(p, c)
  <2>2. /\ Len(r) = n
        /\ \A k \in 1..n : r[k] = IF k = n THEN Append(p[k], c) ELSE p[k]
    <3>. HIDE DEF p, n
    <3>. QED  BY <1>2, <1>8, GoesOn
  <2>3. \A k \in 1..n :
            Without(Append(v[k], c), cs) = IF c \in cs THEN Without(v[k], cs)
                                           ELSE Append(Without(v[k], cs), c)
    <3>. SUFFICES ASSUME NEW k \in 1..n
         PROVE Without(Append(v[k], c), cs) = IF c \in cs THEN Without(v[k], cs)
                                              ELSE Append(Without(v[k], cs), c)
      OBVIOUS
    <3>. DEFINE x == v[k]
    <3>1. x \in Seq(Char)
      BY <1>4
    <3>. HIDE DEF n, cs, x
    <3>2. Without(Append(x, c), cs) = IF c \in cs THEN Without(x, cs)
                                      ELSE Append(Without(x, cs), c)
      BY <3>1, WithoutAppend
    <3>. QED  BY <3>2 DEF x
  <2>4. r \in Seq(Seq(Char))
    BY <1>5, LineFacts
  <2>. HIDE DEF w, p, q, cs, r, n
  <2>5. CASE c \in cs
    <3>1. \A k \in 1..n : q[k] = p[k]
      BY <1>2, <1>3, <2>1, <2>3, <2>5
    <3>2. q = p
      BY <1>2, <1>3, <1>4, <2>1, <3>1, SameSeq
    <3>. QED  BY <2>5, <3>2 DEF q, p, w, cs
  <2>6. CASE c \notin cs
    <3>1. ASSUME NEW k \in 1..n PROVE q[k] = r[k]
      <4>1. q[k] = Without(w[k], cs) /\ p[k] = Without(v[k], cs)
        BY <1>2, <1>3, <2>1
      <4>2. CASE k = n
        <5>1. w[k] = Append(v[k], c) /\ r[k] = Append(p[k], c)
          BY <2>1, <2>2, <4>2
        <5>. QED  BY <2>3, <2>6, <4>1, <5>1
      <4>3. CASE k # n
        BY <2>1, <2>2, <4>1, <4>3
      <4>. QED  BY <4>2, <4>3
    <3>2. Len(q) = Len(r) /\ Len(q) = n
      BY <1>3, <2>1, <2>2
    <3>3. q = r
      BY <1>4, <2>4, <3>1, <3>2, SameSeq
    <3>. QED  BY <2>6, <3>3 DEF q, p, w, r, cs
  <2>. QED  BY <2>5, <2>6
<1>. QED  BY <1>7, <1>8

LEMMA SplitWithout ==
    ASSUME NEW Char, Newline \in Char, NEW s \in Seq(Char)
    PROVE  SplitLines(Without(s, {Return})) = WithoutIn(SplitLines(s), {Return})
<1>. DEFINE Same(t) == SplitLines(Without(t, {Return})) = WithoutIn(SplitLines(t), {Return})
            P == {t \in Seq(Char) : Same(t)}
<1>1. Same(<<>>)
  <2>1. SplitLines(<<>>) = <<<<>>>> /\ Without(<<>>, {Return}) = <<>>
    BY SplitNone, WithoutNone
  <2>2. WithoutIn(<<<<>>>>, {Return}) = <<Without(<<>>, {Return})>>
    <3>1. Len(<<<<>>>>) = 1 /\ \A k \in 1..1 : <<<<>>>>[k] = <<>>
      OBVIOUS
    <3>2. [k \in 1..1 |-> Without(<<>>, {Return})] = <<Without(<<>>, {Return})>>
      <4>. DEFINE a == Without(<<>>, {Return})
      <4>. HIDE DEF a
      <4>1. [k \in 1..1 |-> a] \in Seq({a}) /\ <<a>> \in Seq({a}) /\ Len(<<a>>) = 1
        OBVIOUS
      <4>2. Len([k \in 1..1 |-> a]) = 1 /\ \A k \in 1..1 : <<a>>[k] = a
        OBVIOUS
      <4>3. [k \in 1..1 |-> a] = <<a>>
        BY <4>1, <4>2, SameSeq
      <4>. QED  BY <4>3 DEF a
    <3>. QED  BY <3>1, <3>2 DEF WithoutIn
  <2>. QED  BY <2>1, <2>2
<1>2. ASSUME NEW t \in Seq(Char), NEW c \in Char, Same(t) PROVE Same(Append(t, c))
  <2>. DEFINE u == Without(t, {Return})
  <2>1. /\ u \in Seq(Char)
        /\ Without(Append(t, c), {Return}) = IF c \in {Return} THEN u ELSE Append(u, c)
    BY WithoutAppend
  <2>2. SplitLines(t) \in LinesOf(Char) /\ SplitLines(Append(t, c)) = GoOn(SplitLines(t), c)
    BY SplitAppend
  <2>3. SplitLines(Append(u, c)) = GoOn(SplitLines(u), c)
    BY <2>1, SplitAppend
  <2>4. WithoutIn(GoOn(SplitLines(t), c), {Return}) =
            IF c = Return THEN WithoutIn(SplitLines(t), {Return})
            ELSE GoOn(WithoutIn(SplitLines(t), {Return}), c)
    BY <2>2, WithoutGoOn
  <2>. HIDE DEF u
  <2>5. SplitLines(u) = WithoutIn(SplitLines(t), {Return})
    BY <1>2 DEF u
  <2>. QED  BY <2>1, <2>2, <2>3, <2>4, <2>5
<1>. HIDE DEF Same
<1>3. <<>> \in P
  BY <1>1
<1>4. \A t \in Seq(Char), c \in Char : t \in P => Append(t, c) \in P
  BY <1>2, TextAppend
<1>5. s \in P
  <2>. HIDE DEF P
  <2>. QED  BY <1>3, <1>4, BuildUp
<1>. QED  BY <1>5 DEF Same
-----------------------------------------------------------------------------
(* What is left of texts of some characters, or of others. *)
LEMMA WithoutOthers ==
    ASSUME NEW Char, NEW s \in Seq(Char), NEW cs, \A i \in 1..Len(s) : s[i] \notin cs
    PROVE  Without(s, cs) = s
<1>. DEFINE P == {t \in Seq(Char) : (\A i \in 1..Len(t) : t[i] \notin cs) => Without(t, cs) = t}
<1>1. <<>> \in P
  BY WithoutNone
<1>2. ASSUME NEW t \in Seq(Char), NEW c \in Char, t \in P PROVE Append(t, c) \in P
  <2>. DEFINE u == Append(t, c)
  <2>1. /\ u \in Seq(Char) /\ Len(t) \in Nat /\ Len(u) = Len(t) + 1
        /\ \A i \in 1..Len(t) : u[i] = t[i]
        /\ u[Len(t) + 1] = c
    BY TextAppend
  <2>2. Without(u, cs) = IF c \in cs THEN Without(t, cs) ELSE Append(Without(t, cs), c)
    BY WithoutAppend
  <2>. SUFFICES ASSUME \A i \in 1..Len(u) : u[i] \notin cs PROVE Without(u, cs) = u
    BY <2>1
  <2>. HIDE DEF u
  <2>3. \A i \in 1..Len(t) : i \in 1..Len(u)
    BY <2>1
  <2>4. Len(t) + 1 \in 1..Len(u)
    BY <2>1
  <2>5. c \notin cs /\ \A i \in 1..Len(t) : t[i] \notin cs
    BY <2>1, <2>3, <2>4
  <2>6. Without(t, cs) = t
    BY <1>2, <2>5
  <2>. QED  BY <2>2, <2>5, <2>6 DEF u
<1>3. s \in P
  <2>. HIDE DEF P
  <2>. QED  BY <1>1, <1>2, BuildUp
<1>. QED  BY <1>3

LEMMA WithoutAll ==
    ASSUME NEW Char, NEW s \in Seq(Char), NEW cs, \A i \in 1..Len(s) : s[i] \in cs
    PROVE  Without(s, cs) = <<>>
<1>. DEFINE P == {t \in Seq(Char) : (\A i \in 1..Len(t) : t[i] \in cs) => Without(t, cs) = <<>>}
<1>1. <<>> \in P
  BY WithoutNone
<1>2. ASSUME NEW t \in Seq(Char), NEW c \in Char, t \in P PROVE Append(t, c) \in P
  <2>. DEFINE u == Append(t, c)
  <2>1. /\ u \in Seq(Char) /\ Len(t) \in Nat /\ Len(u) = Len(t) + 1
        /\ \A i \in 1..Len(t) : u[i] = t[i]
        /\ u[Len(t) + 1] = c
    BY TextAppend
  <2>2. Without(u, cs) = IF c \in cs THEN Without(t, cs) ELSE Append(Without(t, cs), c)
    BY WithoutAppend
  <2>. SUFFICES ASSUME \A i \in 1..Len(u) : u[i] \in cs PROVE Without(u, cs) = <<>>
    BY <2>1
  <2>. HIDE DEF u
  <2>3. \A i \in 1..Len(t) : i \in 1..Len(u)
    BY <2>1
  <2>4. Len(t) + 1 \in 1..Len(u)
    BY <2>1
  <2>5. c \in cs /\ \A i \in 1..Len(t) : t[i] \in cs
    BY <2>1, <2>3, <2>4
  <2>6. Without(t, cs) = <<>>
    BY <1>2, <2>5
  <2>. QED  BY <2>2, <2>5, <2>6
<1>3. s \in P
  <2>. HIDE DEF P
  <2>. QED  BY <1>1, <1>2, BuildUp
<1>. QED  BY <1>3

LEMMA NoneLeft ==
    ASSUME NEW Char, NEW s \in Seq(Char), NEW cs
    PROVE  \A i \in 1..Len(Without(s, cs)) : Without(s, cs)[i] \notin cs
<1>. DEFINE Clean(w) == \A i \in 1..Len(w) : w[i] \notin cs
            P == {t \in Seq(Char) : Clean(Without(t, cs))}
<1>1. <<>> \in P
  BY WithoutNone
<1>2. ASSUME NEW t \in Seq(Char), NEW c \in Char, t \in P PROVE Append(t, c) \in P
  <2>. DEFINE w == Without(t, cs)
              u == Append(w, c)
  <2>1. /\ w \in Seq(Char)
        /\ Without(Append(t, c), cs) = IF c \in cs THEN w ELSE u
    BY WithoutAppend
  <2>2. /\ Len(w) \in Nat /\ Len(u) = Len(w) + 1
        /\ \A i \in 1..Len(w) : u[i] = w[i]
        /\ u[Len(w) + 1] = c
    BY <2>1, TextAppend
  <2>3. Append(t, c) \in Seq(Char)
    BY TextAppend
  <2>4. Clean(w)
    BY <1>2
  <2>. HIDE DEF w, u
  <2>5. ASSUME c \notin cs PROVE Clean(u)
    <3>1. \A i \in 1..Len(u) : i \in 1..Len(w) \/ i = Len(w) + 1
      BY <2>2
    <3>. QED  BY <2>2, <2>4, <2>5, <3>1
  <2>. QED  BY <2>1, <2>3, <2>4, <2>5
<1>3. s \in P
  <2>. HIDE DEF P
  <2>. QED  BY <1>1, <1>2, BuildUp
<1>. QED  BY <1>3

LEMMA ConcatAppend ==
    ASSUME NEW Char, NEW p \in Seq(Char), NEW q \in Seq(Char), NEW c \in Char
    PROVE  p \o Append(q, c) = Append(p \o q, c)
OBVIOUS

LEMMA Beginning ==
    ASSUME NEW Char, NEW s \in Seq(Char), NEW n \in 0..Len(s)
    PROVE  /\ SubSeq(s, 1, n) \in Seq(Char) /\ Len(SubSeq(s, 1, n)) = n
           /\ \A i \in 1..n : SubSeq(s, 1, n)[i] = s[i]
OBVIOUS

LEMMA WithoutConcat ==
    ASSUME NEW Char, NEW s \in Seq(Char), NEW t \in Seq(Char), NEW cs
    PROVE  Without(s \o t, cs) = Without(s, cs) \o Without(t, cs)
<1>. DEFINE Apart(u) == Without(s \o u, cs) = Without(s, cs) \o Without(u, cs)
            P == {u \in Seq(Char) : Apart(u)}
<1>0. Without(s, cs) \in Seq(Char)
  BY WithoutIsText
<1>1. <<>> \in P
  <2>. DEFINE a == Without(s, cs)
  <2>1. s \o <<>> = s /\ a \o <<>> = a
    <3>. HIDE DEF a
    <3>1. a \in Seq(Char)
      BY <1>0 DEF a
    <3>. QED  BY <3>1
  <2>2. Without(<<>>, cs) = <<>>
    BY WithoutNone
  <2>3. Apart(<<>>)
    BY <2>1, <2>2
  <2>. QED  BY <2>3
<1>2. ASSUME NEW u \in Seq(Char), NEW c \in Char, u \in P PROVE Append(u, c) \in P
  <2>. DEFINE a == Without(s, cs)
              b == Without(u, cs)
              d == s \o u
  <2>1. d \in Seq(Char) /\ s \o Append(u, c) = Append(d, c) /\ Append(u, c) \in Seq(Char)
    OBVIOUS
  <2>2. Without(d, cs) = a \o b
    BY <1>2
  <2>3. Without(Append(u, c), cs) = IF c \in cs THEN b ELSE Append(b, c)
    <3>. HIDE DEF P, d
    <3>. QED  BY WithoutAppend
  <2>4. a \in Seq(Char) /\ b \in Seq(Char)
    BY <1>0, WithoutIsText
  <2>. HIDE DEF a, b, d
  <2>5. Without(Append(d, c), cs) = IF c \in cs THEN Without(d, cs) ELSE Append(Without(d, cs), c)
    <3>. HIDE DEF P
    <3>. QED  BY <2>1, WithoutAppend
  <2>6. Append(a \o b, c) = a \o Append(b, c)
    <3>. HIDE DEF P
    <3>1. a \in Seq(Char)
      BY <2>4
    <3>2. b \in Seq(Char)
      BY <2>4
    <3>3. a \o Append(b, c) = Append(a \o b, c)
      BY <3>1, <3>2
    <3>. QED  BY <3>3
  <2>7. Without(s \o Append(u, c), cs) = a \o Without(Append(u, c), cs)
    BY <2>1, <2>2, <2>3, <2>5, <2>6
  <2>. QED  BY <2>1, <2>7 DEF a
<1>3. t \in P
  <2>. HIDE DEF P
  <2>. QED  BY <1>1, <1>2, BuildUp
<1>. QED  BY <1>3
-----------------------------------------------------------------------------
(* What is trimmed is the end that only has carriage returns.              *)
LEMMA TrimmedAt ==
    ASSUME NEW Char, NEW line \in Seq(Char), NEW n \in 0..Len(line),
           \A i \in n + 1..Len(line) : line[i] = Return,
           n > 0 => line[n] # Return
    PROVE  TrimEnd(line) = SubSeq(line, 1, n)
<1>. DEFINE kept == {i \in 1..Len(line) : line[i] # Return}
<1>1. Len(line) \in Nat /\ n \in Nat
  OBVIOUS
<1>2. \A i \in kept : i \in Nat /\ i <= n
  BY <1>1
<1>3. TrimEnd(line) =
          SubSeq(line, 1, IF kept = {} THEN 0 ELSE CHOOSE i \in kept : \A j \in kept : j <= i)
  BY DEF TrimEnd
<1>4. CASE n = 0
  <2>1. kept = {}
    BY <1>1, <1>2, <1>4
  <2>. QED  BY <1>3, <1>4, <2>1
<1>5. CASE n > 0
  <2>1. n \in kept
    BY <1>1, <1>5
  <2>. HIDE DEF kept
  <2>2. n = CHOOSE i \in kept : \A j \in kept : j <= i
    <3>. DEFINE m == CHOOSE i \in kept : \A j \in kept : j <= i
    <3>1. m \in kept /\ \A j \in kept : j <= m
      BY <1>2, <2>1
    <3>. HIDE DEF m
    <3>2. m \in Nat /\ m <= n /\ n <= m
      BY <1>2, <2>1, <3>1
    <3>3. m = n
      BY <1>1, <3>2
    <3>. QED  BY <3>3 DEF m
  <2>. QED  BY <1>3, <2>1, <2>2
<1>. QED  BY <1>1, <1>4, <1>5

LEMMA TrimmedSomewhere ==
    ASSUME NEW Char, NEW line \in Seq(Char)
    PROVE  \E n \in 0..Len(line) : TrimEnd(line) = SubSeq(line, 1, n)
<1>. DEFINE L == Len(line)
            D == {d \in 0..L : d < L => line[L - d] # Return}
<1>1. L \in Nat /\ D \in SUBSET Nat /\ L \in D
  OBVIOUS
<1>. HIDE DEF L
<1>2. PICK d \in D : \A x \in D : d <= x
  <2>. HIDE DEF D
  <2>. QED  BY <1>1, LeastNat
<1>. DEFINE n == L - d
<1>3. n \in 0..L /\ (n > 0 => line[n] # Return)
  BY <1>1, <1>2
<1>4. ASSUME NEW i \in n + 1..L PROVE line[i] = Return
  <2>1. L - i \in 0..L /\ L - i < d /\ L - (L - i) = i /\ L - i < L
    BY <1>1, <1>2, <1>3
  <2>2. L - i \notin D
    <3>1. L - i \in Nat /\ d \in Nat
      BY <1>1, <1>2, <2>1
    <3>. HIDE DEF D
    <3>. QED  BY <1>2, <2>1, <3>1
  <2>. QED  BY <2>1, <2>2
<1>. HIDE DEF n
<1>5. TrimEnd(line) = SubSeq(line, 1, n)
  BY <1>3, <1>4, TrimmedAt DEF L
<1>. QED  BY <1>3, <1>5 DEF L

EndsInReturn(line) == \A i \in 1..Len(line) : line[i] = Return => i = Len(line)

LEMMA TrimNothing ==
    ASSUME NEW Char, NEW line \in Seq(Char), \A i \in 1..Len(line) : line[i] # Return
    PROVE  TrimEnd(line) = line
<1>1. Len(line) \in 0..Len(line) /\ (Len(line) > 0 => Len(line) \in 1..Len(line))
      /\ \A i \in Len(line) + 1..Len(line) : FALSE
  OBVIOUS
<1>2. TrimEnd(line) = SubSeq(line, 1, Len(line))
  BY <1>1, TrimmedAt
<1>. QED  BY <1>2, Beginnings

LEMMA TrimReturn ==
    ASSUME NEW Char, NEW line \in Seq(Char), EndsInReturn(line)
    PROVE  TrimEnd(line) = Without(line, {Return})
<1>. DEFINE n == Len(line)
<1>1. n \in Nat
  OBVIOUS
<1>2. CASE \A i \in 1..n : line[i] # Return
  <2>1. TrimEnd(line) = line
    BY <1>2, TrimNothing
  <2>2. Without(line, {Return}) = line
    BY <1>2, WithoutOthers
  <2>. QED  BY <2>1, <2>2
<1>3. CASE \E i \in 1..n : line[i] = Return
  <2>. DEFINE m == SubSeq(line, 1, n - 1)
  <2>1. n \in 1..n /\ line[n] = Return /\ n - 1 \in 0..n
    BY <1>1, <1>3 DEF EndsInReturn
  <2>2. m \in Seq(Char) /\ Len(m) = n - 1 /\ \A i \in 1..n - 1 : m[i] = line[i]
    BY <2>1, Beginning
  <2>3. line = Append(m, Return) /\ Return \in Char
    BY <2>1, Beginnings
  <2>4. \A i \in 1..n - 1 : line[i] # Return
    BY <1>1 DEF EndsInReturn
  <2>. HIDE DEF m
  <2>5. Without(m, {Return}) = m
    BY <2>2, <2>4, WithoutOthers
  <2>6. Without(line, {Return}) = m
    BY <2>2, <2>3, <2>5, WithoutAppend
  <2>7. TrimEnd(line) = m
    <3>1. \A i \in (n - 1) + 1..n : line[i] = Return
      BY <1>1, <2>1
    <3>2. n - 1 > 0 => line[n - 1] # Return
      BY <1>1, <2>4
    <3>3. TrimEnd(line) = SubSeq(line, 1, n - 1)
      BY <2>1, <3>1, <3>2, TrimmedAt
    <3>. QED  BY <3>3 DEF m
  <2>. QED  BY <2>6, <2>7
<1>. QED  BY <1>2, <1>3
-----------------------------------------------------------------------------
(* Texts whose carriage returns are at the ends of their lines. *)
AlmostPlain(t) == \A i \in 1..Len(t) - 1 : t[i] = Return => t[i + 1] = Newline

EndsWith(t, c) == Len(t) > 0 /\ t[Len(t)] = c

LinesEndInReturn(t, v) ==
    /\ \A k \in 1..Len(v) : EndsInReturn(v[k])
    /\ EndsWith(v[Len(v)], Return) => EndsWith(t, Return)

LEMMA AlmostPlainBefore ==
    ASSUME NEW Char, NEW t \in Seq(Char), NEW c \in Char, AlmostPlain(Append(t, c))
    PROVE  /\ AlmostPlain(t)
           /\ EndsWith(t, Return) => c = Newline
           /\ EndsWith(Append(t, c), Return) <=> c = Return
<1>. DEFINE u == Append(t, c)
<1>1. /\ u \in Seq(Char) /\ Len(t) \in Nat /\ Len(u) = Len(t) + 1
      /\ \A i \in 1..Len(t) : u[i] = t[i]
      /\ u[Len(t) + 1] = c
  BY TextAppend
<1>. HIDE DEF u
<1>2. \A i \in 1..Len(t) : u[i] = Return => u[i + 1] = Newline
  BY <1>1 DEF AlmostPlain, u
<1>3. AlmostPlain(t)
  <2>. SUFFICES ASSUME NEW i \in 1..Len(t) - 1, t[i] = Return PROVE t[i + 1] = Newline
    BY DEF AlmostPlain
  <2>1. i \in 1..Len(t) /\ i + 1 \in 1..Len(t)
    BY <1>1
  <2>. QED  BY <1>1, <1>2, <2>1
<1>4. ASSUME EndsWith(t, Return) PROVE c = Newline
  <2>1. Len(t) \in 1..Len(t) /\ t[Len(t)] = Return
    BY <1>1, <1>4 DEF EndsWith
  <2>. QED  BY <1>1, <1>2, <2>1
<1>5. EndsWith(u, Return) <=> c = Return
  BY <1>1 DEF EndsWith
<1>. QED  BY <1>3, <1>4, <1>5 DEF u

LEMMA PlainLines ==
    ASSUME NEW Char, Newline \in Char, NEW s \in Seq(Char), AlmostPlain(s)
    PROVE  LinesEndInReturn(s, SplitLines(s))
<1>. DEFINE P == {t \in Seq(Char) : AlmostPlain(t) => LinesEndInReturn(t, SplitLines(t))}
<1>1. <<>> \in P
  <2>1. SplitLines(<<>>) = <<<<>>>>
    BY SplitNone
  <2>2. Len(<<>>) = 0 /\ \A k \in 1..Len(<<<<>>>>) : <<<<>>>>[k] = <<>>
    OBVIOUS
  <2>. DEFINE v == <<<<>>>>
  <2>3. Len(v) = 1 /\ v[1] = <<>>
    OBVIOUS
  <2>4. EndsInReturn(<<>>) /\ ~EndsWith(<<>>, Return)
    BY <2>2 DEF EndsInReturn, EndsWith
  <2>. HIDE DEF v
  <2>5. LinesEndInReturn(<<>>, v)
    BY <2>3, <2>4 DEF LinesEndInReturn
  <2>. QED  BY <2>1, <2>5 DEF v
<1>2. ASSUME NEW t \in Seq(Char), NEW c \in Char, t \in P PROVE Append(t, c) \in P
  <2>. DEFINE u == Append(t, c)
              v == SplitLines(t)
              w == SplitLines(u)
              n == Len(v)
  <2>. SUFFICES ASSUME AlmostPlain(u) PROVE LinesEndInReturn(u, w)
    BY TextAppend
  <2>1. /\ AlmostPlain(t)
        /\ EndsWith(t, Return) => c = Newline
        /\ EndsWith(u, Return) <=> c = Return
    BY AlmostPlainBefore
  <2>2. LinesEndInReturn(t, v)
    BY <1>2, <2>1
  <2>3. v \in LinesOf(Char) /\ w = GoOn(v, c)
    BY SplitAppend
  <2>4. n \in Nat /\ n \in 1..n /\ v \in Seq(Seq(Char)) /\ \A k \in 1..n : v[k] \in Seq(Char)
    BY <2>3, LineFacts DEF LinesOf
  <2>. HIDE DEF u, v, w
  <2>5. CASE c = Newline
    <3>1. w = Append(v, <<>>) /\ <<>> \in Seq(Char)
      BY <2>3, <2>5, GoesOn
    <3>2. Len(w) = n + 1 /\ (\A k \in 1..n : w[k] = v[k]) /\ w[n + 1] = <<>>
      BY <2>4, <3>1, TextAppend
    <3>3. EndsInReturn(<<>>) /\ ~EndsWith(<<>>, Return)
      BY DEF EndsInReturn, EndsWith
    <3>4. \A k \in 1..n + 1 : k \in 1..n \/ k = n + 1
      BY <2>4
    <3>. QED  BY <2>2, <3>2, <3>3, <3>4 DEF LinesEndInReturn
  <2>6. CASE c # Newline
    <3>. DEFINE new == Append(v[n], c)
    <3>1. /\ Len(w) = n
          /\ \A k \in 1..n : w[k] = IF k = n THEN Append(v[k], c) ELSE v[k]
      BY <2>3, <2>6, GoesOn
    <3>2. w[n] = new /\ \A k \in 1..n : k # n => w[k] = v[k]
      BY <2>4, <3>1
    <3>3. /\ Len(v[n]) \in Nat /\ Len(new) = Len(v[n]) + 1
          /\ \A i \in 1..Len(v[n]) : new[i] = v[n][i]
          /\ new[Len(v[n]) + 1] = c
      BY <2>4, TextAppend
    <3>4. EndsInReturn(v[n]) /\ ~EndsWith(v[n], Return)
      BY <2>1, <2>2, <2>4, <2>6 DEF LinesEndInReturn
    <3>. HIDE DEF new
    <3>5. EndsInReturn(new) /\ (EndsWith(new, Return) => c = Return)
      <4>1. ASSUME NEW i \in 1..Len(new), new[i] = Return PROVE i = Len(new)
        <5>. SUFFICES ASSUME i # Len(new) PROVE FALSE
          OBVIOUS
        <5>1. i \in 1..Len(v[n]) /\ v[n][i] = Return
          BY <3>3, <4>1
        <5>2. i = Len(v[n])
          BY <3>4, <5>1 DEF EndsInReturn
        <5>. QED  BY <3>4, <5>1, <5>2 DEF EndsWith
      <4>2. EndsWith(new, Return) => c = Return
        BY <3>3 DEF EndsWith
      <4>. QED  BY <4>1, <4>2 DEF EndsInReturn
    <3>6. \A k \in 1..n : EndsInReturn(w[k])
      BY <2>2, <3>2, <3>5 DEF LinesEndInReturn
    <3>7. EndsWith(w[n], Return) => EndsWith(u, Return)
      BY <2>1, <3>2, <3>5
    <3>. QED  BY <3>1, <3>6, <3>7 DEF LinesEndInReturn
  <2>. QED  BY <2>5, <2>6
<1>3. s \in P
  <2>. HIDE DEF P
  <2>. QED  BY <1>1, <1>2, BuildUp
<1>. QED  BY <1>3

(* A plain pattern has the same lines without its carriage returns.        *)
LEMMA SameGlobLines ==
    ASSUME NEW Char, Newline \in Char, NEW s \in Seq(Char), AlmostPlain(s)
    PROVE  SplitNewlineGlob(Without(s, {Return})) = SplitNewlineGlob(s)
<1>. DEFINE v == SplitLines(s)
            w == WithoutIn(v, {Return})
<1>1. v \in LinesOf(Char)
  BY SplitIsLines
<1>2. /\ w \in LinesOf(Char) /\ Len(w) = Len(v)
      /\ \A k \in 1..Len(v) : w[k] = Without(v[k], {Return})
  BY <1>1, WithoutLines
<1>3. SplitLines(Without(s, {Return})) = w
  BY SplitWithout
<1>4. DOMAIN v = 1..Len(v) /\ DOMAIN w = 1..Len(v) /\ \A k \in 1..Len(v) : v[k] \in Seq(Char)
  <2>. HIDE DEF v, w
  <2>1. v \in Seq(Seq(Char)) /\ w \in Seq(Seq(Char))
    BY <1>1, <1>2, LineFacts
  <2>2. \A k \in 1..Len(v) : v[k] \in Seq(Char)
    BY <1>1, LineFacts
  <2>. QED  BY <1>2, <2>1, <2>2
<1>5. ASSUME NEW k \in 1..Len(v) PROVE TrimEnd(w[k]) = TrimEnd(v[k])
  <2>. DEFINE line == v[k]
              rest == Without(line, {Return})
  <2>1. line \in Seq(Char) /\ EndsInReturn(line)
    BY <1>4, PlainLines DEF LinesEndInReturn
  <2>. HIDE DEF line
  <2>2. TrimEnd(line) = rest
    BY <2>1, TrimReturn
  <2>3. rest \in Seq(Char) /\ \A i \in 1..Len(rest) : rest[i] # Return
    BY <2>1, WithoutIsText, NoneLeft
  <2>. HIDE DEF rest
  <2>4. TrimEnd(rest) = rest
    BY <2>3, TrimNothing
  <2>. QED  BY <1>2, <2>2, <2>4 DEF rest, line
<1>. HIDE DEF v, w
<1>6. SplitNewlineGlob(s) = [k \in 1..Len(v) |-> TrimEnd(v[k])]
  BY <1>4 DEF SplitNewlineGlob, v
<1>7. SplitNewlineGlob(Without(s, {Return})) = [k \in 1..Len(v) |-> TrimEnd(w[k])]
  BY <1>3, <1>4 DEF SplitNewlineGlob
<1>. QED  BY <1>5, <1>6, <1>7
-----------------------------------------------------------------------------
(***************************************************************************)
(* Rules that are exported and imported again.                             *)
(***************************************************************************)
LEMMA AppendToFew ==
    ASSUME NEW c, NEW d
    PROVE  Append(<<>>, c) = <<c>> /\ Append(<<d>>, c) = <<d, c>>
<1>. DEFINE A == {c, d}
<1>1. <<>> \in Seq(A) /\ <<d>> \in Seq(A) /\ <<c>> \in Seq(A) /\ <<d, c>> \in Seq(A) /\ c \in A
  OBVIOUS
<1>2. /\ Len(<<>>) = 0 /\ Len(<<d>>) = 1 /\ <<d>>[1] = d
      /\ Len(<<c>>) = 1 /\ <<c>>[1] = c
      /\ Len(<<d, c>>) = 2 /\ <<d, c>>[1] = d /\ <<d, c>>[2] = c
  OBVIOUS
<1>. HIDE DEF A
<1>3. Append(<<>>, c) = <<c>>
  <2>1. /\ Append(<<>>, c) \in Seq(A) /\ Len(Append(<<>>, c)) = 1
        /\ Append(<<>>, c)[1] = c
    BY <1>1, <1>2, TextAppend
  <2>. QED  BY <1>1, <1>2, <2>1, SameSeq
<1>4. Append(<<d>>, c) = <<d, c>>
  <2>1. /\ Append(<<d>>, c) \in Seq(A) /\ Len(Append(<<d>>, c)) = 2
        /\ Append(<<d>>, c)[1] = d /\ Append(<<d>>, c)[2] = c
    BY <1>1, <1>2, TextAppend
  <2>2. \A i \in 1..2 : i = 1 \/ i = 2
    OBVIOUS
  <2>3. \A i \in 1..2 : Append(<<d>>, c)[i] = <<d, c>>[i]
    BY <1>2, <2>1, <2>2
  <2>. DEFINE s == Append(<<d>>, c)
              t == <<d, c>>
  <2>4. s \in Seq(A) /\ t \in Seq(A) /\ Len(s) = 2 /\ Len(t) = 2 /\ \A i \in 1..2 : s[i] = t[i]
    BY <1>1, <1>2, <2>1, <2>3
  <2>. HIDE DEF s, t
  <2>5. s = t
    BY <2>4, SameSeq
  <2>. QED  BY <2>5 DEF s, t
<1>. QED  BY <1>3, <1>4

LEMMA LittleLeft ==
    ASSUME NEW Char, Newline \in Char, NEW s \in Seq(Char), AlmostPlain(s)
    PROVE  /\ Without(s, {Return}) = <<>> => s \in {<<>>, <<Return>>}
           /\ Without(s, {Return}) = <<Newline>> =>
                  s \in {<<Newline>>, <<Return, Newline>>} \/ EndsWith(s, Return)
<1>. DEFINE Little(t) ==
                AlmostPlain(t) =>
                    /\ Without(t, {Return}) = <<>> => t \in {<<>>, <<Return>>}
                    /\ Without(t, {Return}) = <<Newline>> =>
                           t \in {<<Newline>>, <<Return, Newline>>} \/ EndsWith(t, Return)
            P == {t \in Seq(Char) : Little(t)}
<1>1. Little(<<>>)
  BY WithoutNone
<1>2. ASSUME NEW t \in Seq(Char), NEW c \in Char, Little(t) PROVE Little(Append(t, c))
  <2>. DEFINE u == Append(t, c)
              rest == Without(t, {Return})
  <2>. SUFFICES ASSUME AlmostPlain(u) PROVE Little(u)
    OBVIOUS
  <2>1. /\ AlmostPlain(t)
        /\ EndsWith(t, Return) => c = Newline
        /\ EndsWith(u, Return) <=> c = Return
    BY AlmostPlainBefore
  <2>2. /\ rest \in Seq(Char)
        /\ Without(u, {Return}) = IF c \in {Return} THEN rest ELSE Append(rest, c)
    BY WithoutAppend
  <2>3. rest = <<>> => t \in {<<>>, <<Return>>}
    BY <1>2, <2>1
  <2>. HIDE DEF rest
  <2>4. CASE c = Return
    <3>1. Without(u, {Return}) = rest /\ EndsWith(u, Return) /\ ~EndsWith(t, Return)
      BY <2>1, <2>2, <2>4 DEF Newline, Return
    <3>2. t # <<Return>>
      <4>1. EndsWith(<<Return>>, Return)
        BY DEF EndsWith
      <4>. QED  BY <3>1, <4>1
    <3>3. rest = <<>> => u = <<Return>>
      BY <2>3, <2>4, <3>2, AppendToFew
    <3>. QED  BY <3>1, <3>3
  <2>5. CASE c # Return
    <3>1. Without(u, {Return}) = Append(rest, c)
      BY <2>2, <2>5
    <3>2. Append(rest, c) # <<>>
      BY <2>2
    <3>3. ASSUME Append(rest, c) = <<Newline>> PROVE u \in {<<Newline>>, <<Return, Newline>>}
      <4>1. Len(rest) = 0 /\ c = Newline
        <5>1. /\ Len(Append(rest, c)) = Len(rest) + 1 /\ Len(rest) \in Nat
              /\ Append(rest, c)[Len(rest) + 1] = c
          BY <2>2, TextAppend
        <5>2. Len(<<Newline>>) = 1 /\ <<Newline>>[1] = Newline
          OBVIOUS
        <5>3. Len(rest) = 0
          BY <3>3, <5>1, <5>2
        <5>. QED  BY <3>3, <5>1, <5>2, <5>3
      <4>2. rest = <<>>
        BY <2>2, <4>1
      <4>3. t = <<>> \/ t = <<Return>>
        BY <2>3, <4>2
      <4>4. u = Append(t, Newline)
        BY <4>1
      <4>. HIDE DEF u
      <4>. QED  BY <4>3, <4>4, AppendToFew
    <3>. QED  BY <3>1, <3>2, <3>3
  <2>. QED  BY <2>4, <2>5
<1>. HIDE DEF Little
<1>3. s \in P
  <2>1. <<>> \in P
    BY <1>1
  <2>2. \A t \in Seq(Char), c \in Char : t \in P => Append(t, c) \in P
    BY <1>2, TextAppend
  <2>. HIDE DEF P
  <2>. QED  BY <2>1, <2>2, BuildUp
<1>. QED  BY <1>3 DEF Little

LEMMA PlainIsAlmost ==
    ASSUME NEW Char, NEW s \in Seq(Char), IsPlain(s)
    PROVE  AlmostPlain(s) /\ ~EndsWith(s, Return)
<1>1. Len(s) \in Nat /\ DOMAIN s = 1..Len(s)
  OBVIOUS
<1>2. AlmostPlain(s)
  BY <1>1 DEF IsPlain, AlmostPlain
<1>3. ~EndsWith(s, Return)
  <2>1. Len(s) > 0 => Len(s) \in DOMAIN s /\ ~(Len(s) < Len(s))
    BY <1>1
  <2>. QED  BY <2>1 DEF IsPlain, EndsWith
<1>. QED  BY <1>2, <1>3

LEMMA PlainWithout ==
    ASSUME NEW Char, Newline \in Char, NEW s \in Seq(Char), IsPlain(s)
    PROVE  /\ Without(s, {Return}) = <<>> => s = <<>>
           /\ Without(s, {Return}) \in {<<Newline>>, <<Return, Newline>>} <=>
                  s \in {<<Newline>>, <<Return, Newline>>}
<1>. DEFINE rest == Without(s, {Return})
<1>1. AlmostPlain(s) /\ ~EndsWith(s, Return)
  BY PlainIsAlmost
<1>2. /\ rest = <<>> => s \in {<<>>, <<Return>>}
      /\ rest = <<Newline>> => s \in {<<Newline>>, <<Return, Newline>>}
  BY <1>1, LittleLeft
<1>3. s # <<Return>>
  BY <1>1 DEF EndsWith
<1>4. rest # <<Return, Newline>>
  <2>1. \A i \in 1..Len(rest) : rest[i] # Return
    BY NoneLeft
  <2>. HIDE DEF rest
  <2>. QED  BY <2>1
<1>5. Newline # Return
  BY DEF Newline, Return
<1>6. ASSUME s = <<Newline>> PROVE rest = <<Newline>>
  <2>1. \A i \in 1..Len(s) : s[i] \notin {Return}
    BY <1>5, <1>6
  <2>2. Without(s, {Return}) = s
    BY <2>1, WithoutOthers
  <2>. QED  BY <1>6, <2>2
<1>7. ASSUME s = <<Return, Newline>> PROVE rest = <<Newline>>
  <2>1. <<>> \in Seq(Char) /\ <<Return>> = Append(<<>>, Return) /\ Return \in Char
        /\ s = Append(<<Return>>, Newline) /\ <<Return>> \in Seq(Char)
    <3>1. 1 \in 1..Len(s) /\ s[1] = Return
      BY <1>7
    <3>2. Return \in Char
      BY <3>1
    <3>. QED  BY <1>7, <3>2
  <2>2. Without(<<Return>>, {Return}) = <<>>
    <3>1. \A i \in 1..Len(<<Return>>) : <<Return>>[i] \in {Return}
      OBVIOUS
    <3>. QED  BY <2>1, <3>1, WithoutAll
  <2>3. Without(s, {Return}) = Append(<<>>, Newline)
    <3>1. Newline \notin {Return}
      BY <1>5
    <3>. DEFINE t == <<Return>>
    <3>2. t \in Seq(Char) /\ s = Append(t, Newline) /\ Without(t, {Return}) = <<>>
      BY <2>1, <2>2
    <3>. HIDE DEF t
    <3>3. Without(Append(t, Newline), {Return}) = Append(Without(t, {Return}), Newline)
      <4>. DEFINE cs == {Return}
      <4>1. Newline \notin cs
        BY <3>1
      <4>. HIDE DEF cs
      <4>2. Without(Append(t, Newline), cs) = Append(Without(t, cs), Newline)
        BY <3>2, <4>1, WithoutAppend
      <4>. QED  BY <4>2 DEF cs
    <3>. QED  BY <3>2, <3>3
  <2>. QED  BY <2>3
<1>. HIDE DEF rest
<1>8. rest = <<Newline>> <=> s \in {<<Newline>>, <<Return, Newline>>}
  BY <1>2, <1>6, <1>7
<1>. QED  BY <1>2, <1>3, <1>4, <1>8 DEF rest

LEMMA SameTitlesWithout ==
    ASSUME NEW Char, Newline \in Char, NEW s \in Seq(Char), IsPlain(s)
    PROVE  SameTitles(Without(s, {Return}), s)
<1>. DEFINE rest == Without(s, {Return})
<1>1. SplitNewlineGlob(rest) = SplitNewlineGlob(s)
  BY PlainIsAlmost, SameGlobLines
<1>2. rest \in {<<Newline>>, <<Return, Newline>>} <=> s \in {<<Newline>>, <<Return, Newline>>}
  BY PlainWithout
<1>. HIDE DEF rest
<1>3. \A title : CheckNewlineGlob(rest, title) <=> CheckNewlineGlob(s, title)
  BY <1>1, <1>2 DEF CheckNewlineGlob
<1>. QED  BY <1>3 DEF SameTitles, rest

LEMMA TextsComeBack ==
    ASSUME NEW Char, Newline \in Char, NEW s \in Seq(Char), IsPlain(s)
    PROVE  LET lines == SplitLines(Without(s, {Return}))
           IN  /\ JoinLines(lines) = Without(s, {Return})
               /\ lines = <<<<>>>> => s = <<>>
<1>. DEFINE rest == Without(s, {Return})
<1>1. rest \in Seq(Char) /\ <<>> \in Seq(Char)
  BY WithoutIsText
<1>2. rest = <<>> => s = <<>>
  BY PlainWithout
<1>. HIDE DEF rest
<1>3. JoinLines(SplitLines(rest)) = rest /\ JoinLines(SplitLines(<<>>)) = <<>>
  BY <1>1, JoinSplit
<1>4. SplitLines(<<>>) = <<<<>>>>
  BY SplitNone
<1>. QED  BY <1>2, <1>3, <1>4 DEF rest

LEMMA BoundComesBack ==
    ASSUME NEW n \in Nat
    PROVE  FromNumber(ToNumber(None)) = None /\ FromNumber(ToNumber(Some(n))) = Some(n)
<1>1. ToNumber(None) = -1 /\ FromNumber(-1) = None
  BY DEF ToNumber, FromNumber, None
<1>2. (CHOOSE v \in {n} : TRUE) = n
  OBVIOUS
<1>3. ToNumber(Some(n)) = n
  BY <1>2 DEF ToNumber, Some, None
<1>4. FromNumber(n) = Some(n)
  BY DEF FromNumber
<1>. QED  BY <1>1, <1>3, <1>4

LEMMA RuleComesBack ==
    ASSUME NEW filter
    PROVE  LET read == FromXml(ToXml(filter))
               title == SplitLines(Without(filter.window_title, {Return}))
               moves == filter.action \in {"Move", "UnpinAndMove"}
           IN  /\ read.window_title = IF title = <<<<>>>> THEN <<Newline>> ELSE JoinLines(title)
               /\ read.process_name = JoinLines(SplitLines(Without(filter.process_name, {Return})))
               /\ read.window_index =
                      [lower_bound |-> FromNumber(ToNumber(filter.window_index.lower_bound)),
                       upper_bound |-> FromNumber(ToNumber(filter.window_index.upper_bound))]
               /\ read.desktop_index =
                      [lower_bound |-> FromNumber(ToNumber(filter.desktop_index.lower_bound)),
                       upper_bound |-> FromNumber(ToNumber(filter.desktop_index.upper_bound))]
               /\ read.action = XmlAction(ToXml(filter))
               /\ (moves \/ filter.action = "Pin") /\ filter.target_desktop \in Nat =>
                      read.target_desktop = filter.target_desktop
BY DEF FromXml, ToXml

LEMMA ActionComesBack ==
    ASSUME NEW filter, filter.action \in FilterActions, filter.target_desktop \in Nat
    PROVE  XmlAction(ToXml(filter)) =
               IF filter.action = "Nothing" THEN "Disabled" ELSE filter.action
<1>. DEFINE xml == ToXml(filter)
            moves == filter.action \in {"Move", "UnpinAndMove"}
<1>1. /\ xml.allow_unpin = (filter.action \in {"Unpin", "UnpinAndMove"})
      /\ xml.should_pin = (filter.action = "Pin")
      /\ xml.target = IF moves \/ filter.action = "Pin" THEN filter.target_desktop ELSE -1
  BY DEF ToXml
<1>. HIDE DEF xml
<1>2. XmlAction(xml) = IF filter.action = "Nothing" THEN "Disabled" ELSE filter.action
  <2>1. CASE filter.action = "Pin"
    BY <1>1, <2>1 DEF XmlAction
  <2>2. CASE filter.action \in {"Move", "UnpinAndMove"}
    <3>1. ~xml.should_pin /\ xml.target >= 0
      <4>1. filter.action # "Pin" /\ moves
        BY <2>2
      <4>2. xml.target = filter.target_desktop
        BY <1>1, <4>1
      <4>3. ~xml.should_pin
        BY <1>1, <4>1
      <4>4. filter.target_desktop \in Nat
        OBVIOUS
      <4>. QED  BY <4>2, <4>3, <4>4
    <3>2. xml.allow_unpin <=> filter.action = "UnpinAndMove"
      BY <1>1, <2>2
    <3>. QED  BY <2>2, <3>1, <3>2 DEF XmlAction
  <2>3. CASE filter.action \in {"Unpin", "Nothing", "Disabled"}
    <3>1. ~xml.should_pin /\ ~(xml.target >= 0)
      <4>1. filter.action # "Pin" /\ ~moves
        BY <2>3
      <4>2. xml.target = -1
        BY <1>1, <4>1
      <4>3. ~xml.should_pin
        BY <1>1, <4>1
      <4>4. filter.target_desktop \in Nat
        OBVIOUS
      <4>. QED  BY <4>2, <4>3, <4>4
    <3>2. xml.allow_unpin <=> filter.action = "Unpin"
      BY <1>1, <2>3
    <3>. QED  BY <2>3, <3>1, <3>2 DEF XmlAction
  <2>. QED  BY <2>1, <2>2, <2>3 DEF FilterActions
<1>. QED  BY <1>2 DEF xml

LEMMA ActionsComeBack == XmlKeepsActions
<1>. SUFFICES ASSUME NEW action \in FilterActions, NEW lower \in Bounds, NEW upper \in Bounds,
                     NEW target \in Indexes
     PROVE  LET bounds == [lower_bound |-> lower, upper_bound |-> upper]
                read == FromXml(ToXml([DefaultFilter EXCEPT
                            !.window_index = bounds, !.desktop_index = bounds,
                            !.action = action, !.target_desktop = target]))
            IN  /\ read.window_index = bounds /\ read.desktop_index = bounds
                /\ read.action = IF action = "Nothing" THEN "Disabled" ELSE action
                /\ action \in {"Move", "UnpinAndMove", "Pin"} => read.target_desktop = target
  BY DEF XmlKeepsActions
<1>. DEFINE bounds == [lower_bound |-> lower, upper_bound |-> upper]
            filter == [DefaultFilter EXCEPT !.window_index = bounds, !.desktop_index = bounds,
                                            !.action = action, !.target_desktop = target]
            read == FromXml(ToXml(filter))
<1>1. /\ filter.window_index = bounds /\ filter.desktop_index = bounds
      /\ filter.action = action /\ filter.target_desktop = target
  BY DEF DefaultFilter
<1>. HIDE DEF filter
<1>2. FromNumber(ToNumber(lower)) = lower /\ FromNumber(ToNumber(upper)) = upper
  <2>1. \A bound \in Bounds : bound = None \/ \E n \in Nat : bound = Some(n)
    BY TextFieldsAssumption DEF Bounds
  <2>. QED  BY <2>1, BoundComesBack
<1>3. read.window_index = bounds /\ read.desktop_index = bounds
  BY <1>1, <1>2, RuleComesBack
<1>4. read.action = XmlAction(ToXml(filter))
  BY RuleComesBack
<1>5. read.action = IF action = "Nothing" THEN "Disabled" ELSE action
  BY <1>1, <1>4, TextFieldsAssumption, ActionComesBack
<1>6. action \in {"Move", "UnpinAndMove", "Pin"} => read.target_desktop = target
  <2>1. filter.target_desktop \in Nat
    BY <1>1, TextFieldsAssumption
  <2>2. (action \in {"Move", "UnpinAndMove"} \/ action = "Pin") =>
           read.target_desktop = filter.target_desktop
    <3>1. ((filter.action \in {"Move", "UnpinAndMove"} \/ filter.action = "Pin")
              /\ filter.target_desktop \in Nat) => read.target_desktop = filter.target_desktop
      BY RuleComesBack
    <3>. QED  BY <1>1, <2>1, <3>1
  <2>. QED  BY <1>1, <2>2
<1>. QED  BY <1>3, <1>5, <1>6 DEF filter

(* XmlKeepsRules holds of every text, not only of those that fit the field *)
(* of an instance.                                                         *)
LEMMA RulesComeBack ==
    ASSUME NEW Char, Newline \in Char, text \in Seq(Char)
    PROVE  XmlKeepsRules
<1>1. ASSUME IsPlain(text)
      PROVE
      LET read == FromXml(ToXml([DefaultFilter EXCEPT !.window_title = text,
                                                       !.process_name = text]))
      IN  /\ text = <<>> \/ SameTitles(read.window_title, text)
          /\ SameTitles(read.process_name, text)
  <2>. DEFINE filter == [DefaultFilter EXCEPT !.window_title = text, !.process_name = text]
              lines == SplitLines(Without(text, {Return}))
              read == FromXml(ToXml(filter))
  <2>1. filter.window_title = text /\ filter.process_name = text
    BY DEF DefaultFilter
  <2>2. JoinLines(lines) = Without(text, {Return}) /\ (lines = <<<<>>>> => text = <<>>)
    BY <1>1, TextsComeBack
  <2>. HIDE DEF filter
  <2>3. /\ read.window_title = IF lines = <<<<>>>> THEN <<Newline>> ELSE JoinLines(lines)
        /\ read.process_name = JoinLines(lines)
    BY <2>1, RuleComesBack
  <2>4. SameTitles(Without(text, {Return}), text)
    BY <1>1, SameTitlesWithout
  <2>. HIDE DEF read, lines
  <2>5. /\ text = <<>> \/ read.window_title = Without(text, {Return})
        /\ read.process_name = Without(text, {Return})
    BY <2>2, <2>3
  <2>6. /\ text = <<>> \/ SameTitles(read.window_title, text)
        /\ SameTitles(read.process_name, text)
    BY <2>4, <2>5
  <2>. QED  BY <2>6 DEF read, filter
<1>. QED  BY <1>1, ActionsComeBack DEF XmlKeepsRules
-----------------------------------------------------------------------------
(***************************************************************************)
(* Patterns and what they match.                                           *)
(***************************************************************************)
(* What is left of the title from a place on, up to the last line.         *)
RestFrom(title, b, p) == SubSeq(title, p + 1, b)

RestsFrom(title, b, S) == {RestFrom(title, b, p) : p \in S}

Least(S) == {p \in S : \A q \in S : p <= q}

(* Where a line may end that is looked for from a place on.                *)
NextEnds(title, b, line, q) ==
    {p \in q..b : p - Len(line) >= q /\ OccursAt(line, title, p - Len(line))}

LEMMA RestFacts ==
    ASSUME NEW Char, NEW title \in Seq(Char), NEW b \in 0..Len(title), NEW q \in 0..b
    PROVE  /\ RestFrom(title, b, q) \in Seq(Char) /\ Len(RestFrom(title, b, q)) = b - q
           /\ \A i \in 1..b - q : RestFrom(title, b, q)[i] = title[q + i]
BY DEF RestFrom

LEMMA PartOfRest ==
    ASSUME NEW Char, NEW title \in Seq(Char), NEW b \in 0..Len(title), NEW q \in 0..b,
           NEW i \in Nat, NEW j \in Nat, i <= j, j <= b - q
    PROVE  SubSeq(RestFrom(title, b, q), i + 1, j) = SubSeq(title, q + i + 1, q + j)
<1>. DEFINE rest == RestFrom(title, b, q)
            s == SubSeq(rest, i + 1, j)
            t == SubSeq(title, q + i + 1, q + j)
<1>1. /\ rest \in Seq(Char) /\ Len(rest) = b - q
      /\ \A k \in 1..b - q : rest[k] = title[q + k]
  BY RestFacts
<1>. HIDE DEF rest
<1>2. s \in Seq(Char) /\ Len(s) = j - i /\ \A k \in 1..j - i : s[k] = rest[i + k]
  BY <1>1
<1>3. t \in Seq(Char) /\ Len(t) = j - i /\ \A k \in 1..j - i : t[k] = title[q + i + k]
  OBVIOUS
<1>. HIDE DEF s, t
<1>4. ASSUME NEW k \in 1..j - i PROVE s[k] = t[k]
  <2>1. i + k \in 1..b - q /\ q + (i + k) = q + i + k
    OBVIOUS
  <2>. QED  BY <1>1, <1>2, <1>3, <2>1
<1>5. Len(s) = Len(t) /\ \A k \in 1..Len(s) : s[k] = t[k]
  BY <1>2, <1>3, <1>4
<1>6. s = t
  BY <1>2, <1>3, <1>5, SameSeq
<1>. QED  BY <1>6 DEF s, t, rest

LEMMA OccursInRest ==
    ASSUME NEW Char, NEW title \in Seq(Char), NEW b \in 0..Len(title), NEW q \in 0..b,
           NEW line \in Seq(Char), NEW i \in Nat
    PROVE  OccursAt(line, RestFrom(title, b, q), i) <=>
               q + i + Len(line) <= b /\ OccursAt(line, title, q + i)
<1>. DEFINE rest == RestFrom(title, b, q)
            len == Len(line)
<1>1. Len(rest) = b - q /\ len \in Nat /\ Len(title) \in Nat
  <2>1. Len(rest) = b - q
    BY RestFacts
  <2>. QED  BY <2>1
<1>2. ASSUME i + len <= b - q
      PROVE  SubSeq(rest, i + 1, i + len) = SubSeq(title, q + i + 1, q + i + len)
  <2>1. i + len \in Nat /\ i <= i + len /\ q + (i + len) = q + i + len
    BY <1>1
  <2>. HIDE DEF rest, len
  <2>2. SubSeq(rest, i + 1, i + len) = SubSeq(title, q + i + 1, q + (i + len))
    BY <1>2, <2>1, PartOfRest DEF rest
  <2>. QED  BY <2>1, <2>2
<1>. HIDE DEF rest, len
<1>3. i + len <= b - q <=> q + i + len <= b
  BY <1>1
<1>4. q + i + len <= b => q + i + len <= Len(title)
  BY <1>1
<1>. QED  BY <1>1, <1>2, <1>3, <1>4 DEF OccursAt, rest, len

LEMMA AfterInRest ==
    ASSUME NEW Char, NEW title \in Seq(Char), NEW b \in 0..Len(title), NEW q \in 0..b,
           NEW line \in Seq(Char)
    PROVE  After(RestFrom(title, b, q), line) =
               RestsFrom(title, b, Least(NextEnds(title, b, line, q)))
<1>. DEFINE rest == RestFrom(title, b, q)
            len == Len(line)
            ends == NextEnds(title, b, line, q)
            starts == {i \in 0..Len(rest) : OccursAt(line, rest, i)}
            first == {i \in starts : \A j \in starts : i <= j}
<1>1. Len(rest) = b - q /\ len \in Nat
  <2>1. len \in Nat
    OBVIOUS
  <2>2. Len(rest) = b - q
    <3>. HIDE DEF starts, first, ends, len
    <3>. QED  BY RestFacts
  <2>. QED  BY <2>1, <2>2
<1>2. \A i \in 0..b - q : i \in starts <=> q + i + len <= b /\ OccursAt(line, title, q + i)
  BY <1>1, OccursInRest
<1>3. \A i \in starts : i \in 0..b - q /\ q + i + len \in ends
  <2>. SUFFICES ASSUME NEW i \in starts PROVE i \in 0..b - q /\ q + i + len \in ends
    OBVIOUS
  <2>1. i \in 0..b - q
    BY <1>1
  <2>2. q + i + len <= b /\ OccursAt(line, title, q + i)
    BY <1>2, <2>1
  <2>3. q + i + len \in q..b /\ (q + i + len) - len = q + i /\ q + i >= q
    BY <1>1, <2>1, <2>2
  <2>. QED  BY <2>1, <2>2, <2>3 DEF NextEnds
<1>4. \A p \in ends : /\ p \in q..b /\ p - q - len \in starts
                      /\ q + (p - q - len) + len = p
  <2>. SUFFICES ASSUME NEW p \in ends
       PROVE  p \in q..b /\ p - q - len \in starts /\ q + (p - q - len) + len = p
    OBVIOUS
  <2>1. p \in q..b /\ p - len >= q /\ OccursAt(line, title, p - len)
    BY DEF NextEnds
  <2>2. /\ p - q - len \in 0..b - q /\ q + (p - q - len) = p - len
        /\ q + (p - q - len) + len = p
    BY <1>1, <2>1
  <2>. DEFINE i == p - q - len
  <2>3. i \in 0..b - q /\ q + i = p - len /\ q + i + len = p
    BY <2>2
  <2>4. q + i + len <= b
    BY <2>1, <2>3
  <2>. HIDE DEF i
  <2>5. i \in starts
    BY <1>2, <2>1, <2>3, <2>4
  <2>. QED  BY <2>1, <2>3, <2>5 DEF i
<1>. HIDE DEF starts, ends
<1>5. \A i \in first : q + i + len \in Least(ends)
  <2>. SUFFICES ASSUME NEW i \in first, NEW p \in ends PROVE q + i + len <= p
    BY <1>3 DEF Least
  <2>1. p - q - len \in starts /\ i \in starts /\ i <= p - q - len
    BY <1>4
  <2>2. i \in 0..b - q /\ p \in q..b
    BY <1>3, <1>4, <2>1
  <2>. HIDE DEF len
  <2>. QED  BY <1>1, <2>1, <2>2
<1>6. \A p \in Least(ends) : p - q - len \in first
  <2>. SUFFICES ASSUME NEW p \in Least(ends), NEW j \in starts PROVE p - q - len <= j
    BY <1>4 DEF Least
  <2>1. p \in ends /\ p <= q + j + len
    BY <1>3 DEF Least
  <2>2. p \in q..b /\ j \in 0..b - q
    BY <1>3, <1>4, <2>1
  <2>. HIDE DEF len
  <2>. QED  BY <1>1, <2>1, <2>2
<1>7. \A i \in starts : SubSeq(rest, i + len + 1, Len(rest)) = RestFrom(title, b, q + i + len)
  <2>. SUFFICES ASSUME NEW i \in starts
       PROVE SubSeq(rest, i + len + 1, Len(rest)) = RestFrom(title, b, q + i + len)
    OBVIOUS
  <2>1. i + len \in Nat /\ b - q \in Nat /\ i + len <= b - q
    <3>1. q + i + len <= b /\ i \in Nat
      BY <1>2, <1>3
    <3>. QED  BY <1>1, <3>1
  <2>2. SubSeq(RestFrom(title, b, q), (i + len) + 1, b - q) =
            SubSeq(title, q + (i + len) + 1, q + (b - q))
    <3>. DEFINE from == i + len
                to == b - q
    <3>1. from \in Nat /\ to \in Nat /\ from <= to /\ to <= b - q
      BY <2>1
    <3>. HIDE DEF from, to
    <3>2. SubSeq(RestFrom(title, b, q), from + 1, to) = SubSeq(title, q + from + 1, q + to)
      BY <3>1, PartOfRest
    <3>. QED  BY <3>2 DEF from, to
  <2>3. q + (i + len) + 1 = q + i + len + 1 /\ q + (b - q) = b
    BY <1>1, <1>3
  <2>. QED  BY <1>1, <2>2, <2>3 DEF RestFrom
<1>8. After(rest, line) = {SubSeq(rest, i + len + 1, Len(rest)) : i \in first}
  BY DEF After, starts
<1>9. first \subseteq starts
  OBVIOUS
<1>10. Least(ends) \subseteq ends
  BY DEF Least
<1>. HIDE DEF first, rest, len
<1>11. ASSUME NEW x \in After(rest, line) PROVE x \in {RestFrom(title, b, p) : p \in Least(ends)}
  <2>1. PICK i \in first : x = SubSeq(rest, i + len + 1, Len(rest))
    BY <1>8
  <2>. QED  BY <1>5, <1>7, <1>9, <2>1
<1>12. ASSUME NEW p \in Least(ends) PROVE RestFrom(title, b, p) \in After(rest, line)
  <2>1. p - q - len \in first /\ q + (p - q - len) + len = p
    BY <1>4, <1>6, <1>10
  <2>. QED  BY <1>7, <1>8, <1>9, <2>1
<1>. QED  BY <1>11, <1>12 DEF rest, ends, RestsFrom
-----------------------------------------------------------------------------
(* Places for the first lines of a pattern, and where these end.           *)
IsPlacement(place, lines, title, k) ==
    /\ place[1] = 0
    /\ \A j \in 1..k : OccursAt(lines[j], title, place[j])
    /\ \A j \in 1..k - 1 : place[j] + Len(lines[j]) <= place[j + 1]

EndsOf(lines, title, b, k) ==
    {p \in 0..b : \E place \in [1..k -> 0..Len(title)] :
        IsPlacement(place, lines, title, k) /\ p = place[k] + Len(lines[k])}

LEMMA FirstEnd ==
    ASSUME NEW Char, NEW lines \in LinesOf(Char), NEW title \in Seq(Char), NEW b \in 0..Len(title),
           OccursAt(lines[1], title, 0), Len(lines[1]) <= b
    PROVE  EndsOf(lines, title, b, 1) = {Len(lines[1])}
<1>. DEFINE f == Len(lines[1])
<1>1. f \in Nat /\ f \in 0..b
  BY LineFacts
<1>2. ASSUME NEW p \in EndsOf(lines, title, b, 1) PROVE p = f
  <2>1. PICK place : IsPlacement(place, lines, title, 1) /\ p = place[1] + Len(lines[1])
    BY DEF EndsOf
  <2>2. place[1] = 0
    BY <2>1 DEF IsPlacement
  <2>. QED  BY <1>1, <2>1, <2>2
<1>3. f \in EndsOf(lines, title, b, 1)
  <2>. DEFINE place == [j \in 1..1 |-> 0]
  <2>1. place \in [1..1 -> 0..Len(title)] /\ place[1] = 0 /\ \A j \in 1..1 : j = 1
    OBVIOUS
  <2>. HIDE DEF place
  <2>2. IsPlacement(place, lines, title, 1)
    BY <2>1 DEF IsPlacement
  <2>3. f = place[1] + Len(lines[1])
    BY <1>1, <2>1
  <2>. HIDE DEF f
  <2>. QED  BY <1>1, <2>1, <2>2, <2>3 DEF EndsOf
<1>. QED  BY <1>2, <1>3

LEMMA MoreEnds ==
    ASSUME NEW Char, NEW lines \in LinesOf(Char), NEW title \in Seq(Char), NEW b \in 0..Len(title),
           NEW k \in 1..Len(lines) - 1, NEW p
    PROVE  p \in EndsOf(lines, title, b, k + 1) <=>
               \E q \in EndsOf(lines, title, b, k) : p \in NextEnds(title, b, lines[k + 1], q)
<1>. DEFINE L == Len(title)
            len(j) == Len(lines[j])
<1>1. /\ k \in Nat /\ k + 1 \in 1..k + 1 /\ k \in 1..k /\ L \in Nat /\ b \in Nat /\ b <= L
      /\ \A j \in 1..k + 1 : j \in 1..Len(lines)
  BY LineFacts
<1>2. \A j \in 1..k + 1 : len(j) \in Nat
  BY <1>1, LineFacts
<1>3. ASSUME p \in EndsOf(lines, title, b, k + 1)
      PROVE  \E q \in EndsOf(lines, title, b, k) : p \in NextEnds(title, b, lines[k + 1], q)
  <2>1. PICK place \in [1..k + 1 -> 0..L] :
            IsPlacement(place, lines, title, k + 1) /\ p = place[k + 1] + len(k + 1)
    BY <1>3 DEF EndsOf
  <2>2. p \in 0..b
    BY <1>3 DEF EndsOf
  <2>. DEFINE r == [j \in 1..k |-> place[j]]
              q == place[k] + len(k)
  <2>3. \A j \in 1..k : j \in 1..k + 1
    BY <1>1
  <2>4. place[k + 1] \in Nat /\ place[k] \in Nat /\ len(k) \in Nat /\ len(k + 1) \in Nat
    BY <1>1, <1>2, <2>3
  <2>5. q <= place[k + 1] /\ OccursAt(lines[k + 1], title, place[k + 1])
    <3>1. k \in 1..(k + 1) - 1
      BY <1>1
    <3>. QED  BY <1>1, <2>1, <3>1 DEF IsPlacement
  <2>6. q \in 0..b /\ p \in q..b /\ p - len(k + 1) = place[k + 1] /\ p - len(k + 1) >= q
    <3>. HIDE DEF len
    <3>. QED  BY <1>1, <2>1, <2>2, <2>4, <2>5
  <2>7. r \in [1..k -> 0..L] /\ \A j \in 1..k : r[j] = place[j]
    BY <2>3
  <2>. HIDE DEF r
  <2>8. IsPlacement(r, lines, title, k)
    <3>1. r[1] = 0
      <4>1. 1 \in 1..k
        BY <1>1
      <4>. QED  BY <2>1, <2>7, <4>1 DEF IsPlacement
    <3>2. \A j \in 1..k : OccursAt(lines[j], title, r[j])
      BY <2>1, <2>3, <2>7 DEF IsPlacement
    <3>3. ASSUME NEW j \in 1..k - 1 PROVE r[j] + Len(lines[j]) <= r[j + 1]
      <4>1. j \in 1..k /\ j + 1 \in 1..k /\ j \in 1..(k + 1) - 1
        BY <1>1
      <4>. QED  BY <2>1, <2>7, <4>1 DEF IsPlacement
    <3>. QED  BY <3>1, <3>2, <3>3 DEF IsPlacement
  <2>9. q \in EndsOf(lines, title, b, k)
    BY <1>1, <2>6, <2>7, <2>8 DEF EndsOf
  <2>10. p \in NextEnds(title, b, lines[k + 1], q)
    BY <2>5, <2>6 DEF NextEnds
  <2>. QED  BY <2>9, <2>10
<1>4. ASSUME NEW q \in EndsOf(lines, title, b, k), p \in NextEnds(title, b, lines[k + 1], q)
      PROVE  p \in EndsOf(lines, title, b, k + 1)
  <2>1. PICK place \in [1..k -> 0..L] :
            IsPlacement(place, lines, title, k) /\ q = place[k] + len(k)
    BY DEF EndsOf
  <2>. DEFINE at == p - len(k + 1)
              r == [j \in 1..k + 1 |-> IF j = k + 1 THEN at ELSE place[j]]
  <2>2. q \in 0..b /\ p \in q..b /\ at >= q /\ OccursAt(lines[k + 1], title, at)
    BY <1>4 DEF EndsOf, NextEnds
  <2>3. at \in 0..L /\ p \in 0..b /\ p = at + len(k + 1)
    <3>1. len(k + 1) \in Nat
      BY <1>1, <1>2
    <3>. HIDE DEF len
    <3>. QED  BY <1>1, <2>2, <3>1
  <2>. HIDE DEF at
  <2>4. /\ r \in [1..k + 1 -> 0..L] /\ r[k + 1] = at
        /\ \A j \in 1..k : j \in 1..k + 1 /\ r[j] = place[j]
    <3>1. \A j \in 1..k + 1 : j = k + 1 \/ j \in 1..k
      BY <1>1
    <3>2. \A j \in 1..k : j \in 1..k + 1 /\ j # k + 1
      BY <1>1
    <3>. QED  BY <1>1, <2>3, <3>1, <3>2
  <2>. HIDE DEF r
  <2>5. IsPlacement(r, lines, title, k + 1)
    <3>1. r[1] = 0
      <4>1. 1 \in 1..k
        BY <1>1
      <4>. QED  BY <2>1, <2>4, <4>1 DEF IsPlacement
    <3>2. ASSUME NEW j \in 1..k + 1 PROVE OccursAt(lines[j], title, r[j])
      <4>1. j = k + 1 \/ j \in 1..k
        BY <1>1
      <4>. QED  BY <2>1, <2>2, <2>4, <4>1 DEF IsPlacement
    <3>3. ASSUME NEW j \in 1..(k + 1) - 1 PROVE r[j] + Len(lines[j]) <= r[j + 1]
      <4>1. CASE j = k
        BY <1>1, <2>1, <2>2, <2>4, <4>1
      <4>2. CASE j # k
        <5>1. j \in 1..k - 1 /\ j \in 1..k /\ j + 1 \in 1..k
          BY <1>1, <4>2
        <5>. QED  BY <2>1, <2>4, <5>1 DEF IsPlacement
      <4>. QED  BY <4>1, <4>2
    <3>. QED  BY <3>1, <3>2, <3>3 DEF IsPlacement
  <2>. QED  BY <2>3, <2>4, <2>5 DEF EndsOf
<1>. QED  BY <1>3, <1>4

NextLeastEnds(lines, title, b, k) ==
    UNION {Least(NextEnds(title, b, lines[k + 1], q)) : q \in Least(EndsOf(lines, title, b, k))}

LEMMA LeastEnds ==
    ASSUME NEW Char, NEW lines \in LinesOf(Char), NEW title \in Seq(Char), NEW b \in 0..Len(title),
           NEW k \in 1..Len(lines) - 1
    PROVE  Least(EndsOf(lines, title, b, k + 1)) = NextLeastEnds(lines, title, b, k)
<1>. DEFINE E == EndsOf(lines, title, b, k)
            F == EndsOf(lines, title, b, k + 1)
            N(q) == NextEnds(title, b, lines[k + 1], q)
            len == Len(lines[k + 1])
<1>1. E \in SUBSET Nat
  BY DEF EndsOf
<1>2. \A p : p \in F <=> \E q \in E : p \in N(q)
  BY MoreEnds
<1>3. len \in Nat
  BY LineFacts
<1>4. ASSUME NEW q \in E, NEW q0 \in Nat, q0 <= q PROVE N(q) \subseteq N(q0)
  <2>. SUFFICES ASSUME NEW p \in N(q) PROVE p \in N(q0)
    OBVIOUS
  <2>1. p \in q..b /\ p - len >= q /\ OccursAt(lines[k + 1], title, p - len)
    BY DEF NextEnds
  <2>2. p \in q0..b /\ p - len >= q0
    <3>. HIDE DEF len, E
    <3>1. q \in Nat
      BY <1>1
    <3>. QED  BY <1>3, <1>4, <2>1, <3>1
  <2>. QED  BY <2>1, <2>2 DEF NextEnds
<1>. HIDE DEF E, F, N
<1>5. CASE E = {}
  <2>1. F = {}
    BY <1>2, <1>5
  <2>2. Least({}) = {}
    BY DEF Least
  <2>. QED  BY <1>5, <2>1, <2>2 DEF E, F, N, NextLeastEnds
<1>6. CASE E # {}
  <2>1. PICK q0 \in E : \A q \in E : q0 <= q
    BY <1>1, <1>6, LeastNat
  <2>2. Least(E) = {q0}
    <3>1. \A q \in E : q <= q0 => q = q0
      BY <1>1, <2>1
    <3>. QED  BY <2>1, <3>1 DEF Least
  <2>3. F = N(q0)
    <3>1. \A q \in E : N(q) \subseteq N(q0)
      BY <1>1, <1>4, <2>1
    <3>. QED  BY <1>2, <2>1, <3>1
  <2>4. UNION {Least(N(q)) : q \in Least(E)} = Least(N(q0))
    BY <2>2
  <2>. QED  BY <2>3, <2>4 DEF E, F, N, NextLeastEnds
<1>. QED  BY <1>5, <1>6
-----------------------------------------------------------------------------
(* The loop over the lines in between. *)
StrippedEnds(lines, title) ==
    UNION {StripSuffix(rest, lines[Len(lines)]) : rest \in StripPrefix(title, lines[1])}

IsLeft(run, lines, title) ==
    /\ run[0] = StrippedEnds(lines, title)
    /\ \A k \in 1..Len(lines) - 2 : run[k] = FindNext(run[k - 1], lines[k + 1])

LEMMA SubTexts ==
    ASSUME NEW Char, NEW s \in Seq(Char), NEW m \in Nat, NEW n \in 0..Len(s)
    PROVE  SubSeq(s, m + 1, n) \in Seq(Char)
OBVIOUS

LEMMA FindNextIsTexts ==
    ASSUME NEW Char, NEW rests \in SUBSET Seq(Char), NEW line \in Seq(Char)
    PROVE  FindNext(rests, line) \in SUBSET Seq(Char)
<1>. SUFFICES ASSUME NEW rest \in rests, NEW x \in After(rest, line) PROVE x \in Seq(Char)
  BY DEF FindNext
<1>. DEFINE n == Len(rest)
<1>1. rest \in Seq(Char) /\ n \in 0..Len(rest) /\ Len(line) \in Nat
  OBVIOUS
<1>2. PICK i \in 0..n : x = SubSeq(rest, (i + Len(line)) + 1, n)
  BY DEF After
<1>3. i + Len(line) \in Nat
  BY <1>1
<1>. DEFINE m == i + Len(line)
<1>4. m \in Nat /\ x = SubSeq(rest, m + 1, n)
  BY <1>2, <1>3
<1>. HIDE DEF m, n
<1>. QED  BY <1>1, <1>4, SubTexts

LEMMA StrippedIs ==
    ASSUME NEW Char, NEW lines \in LinesOf(Char), NEW title \in Seq(Char)
    PROVE  LET first == Len(lines[1])
               b == Len(title) - Len(lines[Len(lines)])
           IN  StrippedEnds(lines, title) =
                  IF /\ first <= b
                     /\ OccursAt(lines[1], title, 0) /\ OccursAt(lines[Len(lines)], title, b)
                  THEN {RestFrom(title, b, first)} ELSE {}
<1>. DEFINE f == Len(lines[1])
            last == lines[Len(lines)]
            e == Len(last)
            L == Len(title)
            b == L - e
            rest == RestFrom(title, L, f)
<1>1. f \in Nat /\ e \in Nat /\ L \in Nat /\ last \in Seq(Char) /\ b \in Int
  BY LineFacts DEF LinesOf
<1>2. StripPrefix(title, lines[1]) = IF OccursAt(lines[1], title, 0) THEN {rest} ELSE {}
  BY DEF StripPrefix, Some, None, RestFrom
<1>3. CASE ~OccursAt(lines[1], title, 0)
  BY <1>2, <1>3 DEF StrippedEnds
<1>4. CASE OccursAt(lines[1], title, 0)
  <2>1. f \in 0..L
    BY <1>1, <1>4 DEF OccursAt
  <2>2. Len(rest) = L - f /\ rest \in Seq(Char)
    <3>1. L \in 0..Len(title)
      BY <1>1
    <3>. HIDE DEF f
    <3>. QED  BY <2>1, <3>1, RestFacts DEF L
  <2>3. StrippedEnds(lines, title) = StripSuffix(rest, last)
    BY <1>2, <1>4 DEF StrippedEnds
  <2>. DEFINE start == L - f - e
  <2>4. StripSuffix(rest, last) =
            IF start >= 0 /\ OccursAt(last, rest, start) THEN {SubSeq(rest, 1, start)} ELSE {}
    <3>1. Len(rest) - Len(last) = start
      BY <2>2
    <3>. HIDE DEF rest, last, start
    <3>. QED  BY <3>1 DEF StripSuffix, Some, None
  <2>5. start >= 0 <=> f <= b
    <3>. HIDE DEF f, e, L
    <3>. QED  BY <1>1
  <2>6. CASE ~(f <= b)
    BY <2>3, <2>4, <2>5, <2>6
  <2>7. CASE f <= b
    <3>1. start \in Nat /\ f + start = b /\ f + start + e = L /\ start <= L - f
      <4>. HIDE DEF f, e, L
      <4>. QED  BY <1>1, <2>5, <2>7
    <3>2. OccursAt(last, rest, start) <=> OccursAt(last, title, b)
      <4>1. L \in 0..Len(title)
        BY <1>1
      <4>2. OccursAt(last, rest, start) <=>
                f + start + Len(last) <= L /\ OccursAt(last, title, f + start)
        <5>. HIDE DEF f, start, last
        <5>. QED  BY <1>1, <2>1, <3>1, <4>1, OccursInRest DEF L
      <4>. HIDE DEF f, start, last, L, b, rest
      <4>3. f + start + Len(last) <= L
        BY <1>1, <3>1 DEF e
      <4>. QED  BY <3>1, <4>2, <4>3
    <3>3. SubSeq(rest, 1, start) = RestFrom(title, b, f)
      <4>1. L \in 0..Len(title) /\ 0 \in Nat /\ 0 <= start
        <5>1. L \in 0..Len(title)
          BY <1>1
        <5>. HIDE DEF start
        <5>. QED  BY <3>1, <5>1
      <4>2. SubSeq(rest, 0 + 1, start) = SubSeq(title, f + 0 + 1, f + start)
        <5>. HIDE DEF f, start
        <5>. QED  BY <2>1, <3>1, <4>1, PartOfRest DEF L
      <4>3. f + 0 + 1 = f + 1 /\ 0 + 1 = 1
        BY <1>1
      <4>. HIDE DEF f, start, L, b, rest
      <4>4. SubSeq(rest, 1, start) = SubSeq(title, f + 1, b)
        BY <3>1, <4>2, <4>3
      <4>. QED  BY <4>4 DEF RestFrom
    <3>. HIDE DEF f, start, L, b, rest, last
    <3>4. StrippedEnds(lines, title) =
              IF OccursAt(last, title, b) THEN {RestFrom(title, b, f)} ELSE {}
      BY <2>3, <2>4, <2>5, <2>7, <3>2, <3>3
    <3>. QED  BY <1>4, <2>7, <3>4 DEF f, b, L, e, last
  <2>. QED  BY <2>6, <2>7
<1>. QED  BY <1>3, <1>4

LEMMA StrippedIsTexts ==
    ASSUME NEW Char, NEW lines \in LinesOf(Char), NEW title \in Seq(Char)
    PROVE  StrippedEnds(lines, title) \in SUBSET Seq(Char)
<1>. DEFINE f == Len(lines[1])
            b == Len(title) - Len(lines[Len(lines)])
<1>1. f \in Nat /\ Len(lines[Len(lines)]) \in Nat
  BY LineFacts DEF LinesOf
<1>2. ASSUME f <= b PROVE RestFrom(title, b, f) \in Seq(Char)
  <2>1. b \in 0..Len(title) /\ f \in 0..b
    <3>. DEFINE e == Len(lines[Len(lines)])
                L == Len(title)
    <3>1. L \in Nat
      OBVIOUS
    <3>2. f \in Nat /\ e \in Nat /\ b = L - e /\ f <= b
      BY <1>1, <1>2
    <3>. HIDE DEF f, b, e, L
    <3>3. b \in 0..L /\ f \in 0..b
      BY <3>1, <3>2
    <3>. QED  BY <3>3 DEF L
  <2>. HIDE DEF f, b
  <2>. QED  BY <2>1, RestFacts
<1>3. StrippedEnds(lines, title) =
          IF f <= b /\ OccursAt(lines[1], title, 0) /\ OccursAt(lines[Len(lines)], title, b)
          THEN {RestFrom(title, b, f)} ELSE {}
  BY StrippedIs
<1>. HIDE DEF f, b
<1>. QED  BY <1>2, <1>3

LEMMA LeftRun ==
    ASSUME NEW Char, NEW lines \in LinesOf(Char), NEW title \in Seq(Char), Len(lines) >= 2
    PROVE  \E run \in [0..Len(lines) - 2 -> SUBSET Seq(Char)] :
               /\ IsLeft(run, lines, title)
               /\ LinesAreIn(lines, title) <=> run[Len(lines) - 2] # {}
<1>. DEFINE n == Len(lines) - 2
            A == SUBSET Seq(Char)
            base == StrippedEnds(lines, title)
            step == [x \in A \X (1..n) |-> FindNext(x[1], lines[x[2] + 1])]
            Rest(f) == [k \in 0..n |-> IF k = 0 THEN base ELSE FindNext(f[k - 1], lines[k + 1])]
            F == CHOOSE f : f = Rest(f)
<1>1. n \in Nat /\ base \in A /\ \A k \in 1..n : k - 1 \in 0..n /\ k # 0 /\ k \in 0..n
  BY StrippedIsTexts DEF LinesOf
<1>2. step \in [A \X (1..n) -> A]
  <2>1. \A k \in 1..n : lines[k + 1] \in Seq(Char)
    <3>1. \A k \in 1..n : k \in 1..Len(lines) - 1
      BY <1>1, LineFacts
    <3>. QED  BY <3>1, LineFacts
  <2>2. \A z \in A, k \in 1..n : FindNext(z, lines[k + 1]) \in A
    <3>. HIDE DEF n
    <3>. QED  BY <2>1, FindNextIsTexts
  <2>. HIDE DEF A, n
  <2>. QED  BY <2>2
<1>3. \A z \in A, k \in 1..n : step[<<z, k>>] = FindNext(z, lines[k + 1])
  OBVIOUS
<1>4. PICK g \in [0..n -> A] : IsRun(g, n, base, step)
  <2>. HIDE DEF base, step, A, n
  <2>. QED  BY <1>1, <1>2, Loop
<1>5. g[0] = base /\ \A k \in 1..n : g[k] = step[<<g[k - 1], k>>]
  BY <1>4 DEF IsRun
<1>6. \A k \in 1..n : g[k] = FindNext(g[k - 1], lines[k + 1])
  <2>. HIDE DEF base, step, A, n
  <2>. QED  BY <1>1, <1>3, <1>4, <1>5
<1>7. g = Rest(g)
  <2>1. \A k \in 0..n : k = 0 \/ k \in 1..n
    BY <1>1
  <2>. HIDE DEF base, step, A, n
  <2>2. \A k \in 0..n : g[k] = Rest(g)[k]
    BY <1>1, <1>5, <1>6, <2>1
  <2>. QED  BY <1>4, <2>2
<1>8. F = Rest(F)
  BY <1>7
<1>9. n \in 0..n /\ 0 \in 0..n
  BY <1>1
<1>10. LinesAreIn(lines, title) <=> F[n] # {}
  <2>1. Len(lines) # 1
    BY LineFacts
  <2>. QED  BY <2>1 DEF LinesAreIn, StrippedEnds, None
<1>. HIDE DEF base, step, A, n, F
<1>11. F[n] = g[n]
  <2>1. F[0] = g[0]
    BY <1>5, <1>8, <1>9
  <2>2. ASSUME NEW k \in 1..n, F[k - 1] = g[k - 1] PROVE F[k] = g[k]
    <3>1. Rest(F)[k] = FindNext(F[k - 1], lines[k + 1])
      BY <1>1
    <3>2. F[k] = Rest(F)[k]
      BY <1>8
    <3>. QED  BY <1>6, <2>2, <3>1, <3>2
  <2>. HIDE DEF Rest
  <2>3. GoOnAlike(n, F, g)
    BY <2>1, <2>2 DEF GoOnAlike
  <2>4. n \in Nat
    BY <1>1
  <2>5. \A k \in 0..n : F[k] = g[k]
    BY <2>3, <2>4, SameRuns
  <2>. QED  BY <1>9, <2>5
<1>12. IsLeft(g, lines, title)
  BY <1>5, <1>6 DEF IsLeft, n, base
<1>. QED  BY <1>4, <1>10, <1>11, <1>12 DEF n, A

-----------------------------------------------------------------------------
(* A placement of all lines ends at the end of the title. *)
LEMMA PlacedEnds ==
    ASSUME NEW Char, NEW lines \in LinesOf(Char), NEW title \in Seq(Char)
    PROVE  PlacedIn(lines, title) <=> Len(title) \in EndsOf(lines, title, Len(title), Len(lines))
<1>. DEFINE m == Len(lines)
            L == Len(title)
<1>1. m \in Nat /\ m >= 1 /\ L \in Nat /\ L \in 0..L /\ DOMAIN lines = 1..m
  BY DEF LinesOf
<1>. HIDE DEF m, L
<1>2. EndsOf(lines, title, L, m) =
          {p \in 0..L : \E place \in [1..m -> 0..L] :
              IsPlacement(place, lines, title, m) /\ p = place[m] + Len(lines[m])}
  BY DEF EndsOf, L
<1>3. PlacedIn(lines, title) <=>
          \E place \in [1..m -> 0..L] :
              IsPlacement(place, lines, title, m) /\ L = place[m] + Len(lines[m])
  BY <1>1 DEF PlacedIn, IsPlacement, L, m
<1>. QED  BY <1>1, <1>2, <1>3 DEF L, m

LEMMA FewerEnds ==
    ASSUME NEW Char, NEW lines \in LinesOf(Char), NEW title \in Seq(Char), NEW k \in 1..Len(lines),
           NEW b \in 0..Len(title), NEW c \in 0..Len(title)
    PROVE  \A q \in EndsOf(lines, title, c, k) : q <= b => q \in EndsOf(lines, title, b, k)
<1>. SUFFICES ASSUME NEW q \in EndsOf(lines, title, c, k), q <= b
     PROVE  q \in EndsOf(lines, title, b, k)
  OBVIOUS
<1>1. q \in 0..b
  <2>1. q \in 0..c
    BY DEF EndsOf
  <2>. QED  BY <2>1
<1>. QED  BY <1>1 DEF EndsOf

LEMMA PlacedInTwoWays ==
    ASSUME NEW Char, NEW lines \in LinesOf(Char), NEW title \in Seq(Char), Len(lines) >= 2
    PROVE  LET m == Len(lines)
               b == Len(title) - Len(lines[m])
           IN  PlacedIn(lines, title) <=>
                   /\ b >= 0 /\ OccursAt(lines[m], title, b)
                   /\ EndsOf(lines, title, b, m - 1) # {}
<1>. DEFINE m == Len(lines)
            L == Len(title)
            e == Len(lines[m])
            b == L - e
            k == m - 1
<1>1. m \in Nat /\ k \in 1..m - 1 /\ k \in 1..m /\ k + 1 = m /\ m \in 1..m
  BY DEF LinesOf
<1>2. L \in Nat /\ L \in 0..L /\ e \in Nat /\ b \in Int
  <2>1. L \in Nat
    OBVIOUS
  <2>2. lines[m] \in Seq(Char)
    BY <1>1, LineFacts
  <2>3. e \in Nat
    BY <2>2
  <2>. HIDE DEF e, L
  <2>. QED  BY <2>1, <2>3
<1>3. L \in EndsOf(lines, title, L, m) <=>
          \E q \in EndsOf(lines, title, L, k) : L \in NextEnds(title, L, lines[m], q)
  <2>. HIDE DEF k
  <2>1. L \in EndsOf(lines, title, L, k + 1) <=>
            \E q \in EndsOf(lines, title, L, k) : L \in NextEnds(title, L, lines[k + 1], q)
    BY <1>1, <1>2, MoreEnds
  <2>. QED  BY <1>1, <2>1
<1>4. EndsOf(lines, title, L, k) \subseteq Nat
  BY DEF EndsOf
<1>. HIDE DEF L, b, e, k, m
<1>5. \A q \in Nat : L \in NextEnds(title, L, lines[m], q) <=>
                         q <= b /\ b >= 0 /\ OccursAt(lines[m], title, b)
  <2>. SUFFICES ASSUME NEW q \in Nat
       PROVE  L \in NextEnds(title, L, lines[m], q) <=>
                  q <= b /\ b >= 0 /\ OccursAt(lines[m], title, b)
    OBVIOUS
  <2>1. b = L - e /\ b <= L
    BY <1>2 DEF b
  <2>2. L \in NextEnds(title, L, lines[m], q) <=>
            L \in q..L /\ b >= q /\ OccursAt(lines[m], title, b)
    BY DEF NextEnds, b, e
  <2>3. b >= q => b >= 0 /\ L \in q..L
    BY <1>2, <2>1
  <2>4. b >= q <=> q <= b
    BY <1>2
  <2>. QED  BY <2>2, <2>3, <2>4
<1>6. PlacedIn(lines, title) <=> L \in EndsOf(lines, title, L, m)
  BY PlacedEnds DEF L, m
<1>7. PlacedIn(lines, title) <=>
          \E q \in EndsOf(lines, title, L, k) : q <= b /\ b >= 0 /\ OccursAt(lines[m], title, b)
  BY <1>3, <1>4, <1>5, <1>6
<1>8. b >= 0 => b \in 0..Len(title)
  BY <1>2 DEF b, L
<1>9. L \in 0..Len(title) /\ k \in 1..Len(lines)
  BY <1>1, <1>2 DEF L, m
<1>10. b >= 0 => /\ \A q \in EndsOf(lines, title, L, k) : q <= b => q \in EndsOf(lines, title, b, k)
                 /\ \A q \in EndsOf(lines, title, b, k) : q <= L => q \in EndsOf(lines, title, L, k)
  BY <1>8, <1>9, FewerEnds
<1>11. \A q \in EndsOf(lines, title, b, k) : b >= 0 => q <= b /\ q <= L
  <2>. SUFFICES ASSUME NEW q \in EndsOf(lines, title, b, k), b >= 0 PROVE q <= b /\ q <= L
    OBVIOUS
  <2>1. q \in 0..b
    BY DEF EndsOf
  <2>2. b <= L
    BY <1>2 DEF b
  <2>. QED  BY <1>2, <2>1, <2>2
<1>12. PlacedIn(lines, title) <=>
           b >= 0 /\ OccursAt(lines[m], title, b) /\ EndsOf(lines, title, b, k) # {}
  BY <1>7, <1>10, <1>11
<1>. QED  BY <1>12 DEF b, k, L, e, m

LEMMA LeftEnds ==
    ASSUME NEW Char, NEW lines \in LinesOf(Char), NEW title \in Seq(Char), Len(lines) >= 2,
           NEW run, IsLeft(run, lines, title), NEW b \in 0..Len(title),
           b = Len(title) - Len(lines[Len(lines)]), OccursAt(lines[Len(lines)], title, b)
    PROVE  \A k \in 0..Len(lines) - 2 :
               run[k] = RestsFrom(title, b, Least(EndsOf(lines, title, b, k + 1)))
<1>. DEFINE n == Len(lines) - 2
            E(k) == EndsOf(lines, title, b, k)
            Rests(S) == RestsFrom(title, b, S)
            T == {k \in 0..n : run[k] = Rests(Least(E(k + 1)))}
            f == Len(lines[1])
<1>1. n \in Nat /\ f \in Nat /\ Len(lines) = n + 2
  BY LineFacts DEF LinesOf
<1>2. 0 \in T
  <2>1. StrippedEnds(lines, title) =
            IF f <= b /\ OccursAt(lines[1], title, 0) /\ OccursAt(lines[Len(lines)], title, b)
            THEN {RestFrom(title, b, f)} ELSE {}
    BY StrippedIs
  <2>2. run[0] = IF f <= b /\ OccursAt(lines[1], title, 0) THEN {RestFrom(title, b, f)} ELSE {}
    BY <2>1 DEF IsLeft
  <2>3. CASE f <= b /\ OccursAt(lines[1], title, 0)
    <3>1. E(1) = {f}
      BY <2>3, FirstEnd
    <3>2. Least({f}) = {f}
      BY <1>1 DEF Least
    <3>. HIDE DEF f, E
    <3>3. run[0] = Rests(Least(E(1)))
      BY <2>2, <2>3, <3>1, <3>2 DEF RestsFrom
    <3>. QED  BY <1>1, <3>3
  <2>4. CASE ~(f <= b /\ OccursAt(lines[1], title, 0))
    <3>1. ASSUME NEW p \in E(1) PROVE FALSE
      <4>1. PICK place : IsPlacement(place, lines, title, 1) /\ p = place[1] + Len(lines[1])
        BY DEF EndsOf
      <4>2. place[1] = 0 /\ OccursAt(lines[1], title, 0) /\ p \in 0..b
        BY <4>1 DEF IsPlacement, EndsOf
      <4>. HIDE DEF E
      <4>3. p = f
        BY <1>1, <4>1, <4>2
      <4>4. f <= b
        <5>1. p <= b
          BY <4>2
        <5>. QED  BY <4>3, <5>1
      <4>. QED  BY <2>4, <4>2, <4>4
    <3>. HIDE DEF f, E
    <3>2. E(1) = {}
      BY <3>1
    <3>3. Least(E(1)) = {}
      BY <3>2 DEF Least
    <3>4. run[0] = Rests(Least(E(1)))
      BY <2>2, <2>4, <3>3 DEF RestsFrom
    <3>. QED  BY <1>1, <3>4
  <2>. QED  BY <2>3, <2>4
<1>3. ASSUME NEW k \in 1..n, k - 1 \in T PROVE k \in T
  <2>1. /\ k \in 1..Len(lines) - 1 /\ k \in 1..Len(lines) - 2
        /\ k - 1 \in 0..n /\ k \in 0..n /\ (k - 1) + 1 = k
    BY <1>1
  <2>2. run[k - 1] = Rests(Least(E(k)))
    BY <1>3, <2>1
  <2>3. run[k] = FindNext(run[k - 1], lines[k + 1])
    BY <2>1 DEF IsLeft
  <2>4. lines[k + 1] \in Seq(Char)
    BY <2>1, LineFacts
  <2>. DEFINE N(p) == NextEnds(title, b, lines[k + 1], p)
  <2>5. \A p \in 0..b : After(RestFrom(title, b, p), lines[k + 1]) = Rests(Least(N(p)))
    <3>. SUFFICES ASSUME NEW p \in 0..b
         PROVE  After(RestFrom(title, b, p), lines[k + 1]) = Rests(Least(N(p)))
      OBVIOUS
    <3>. DEFINE line == lines[k + 1]
    <3>1. line \in Seq(Char)
      BY <2>4
    <3>. HIDE DEF line
    <3>2. After(RestFrom(title, b, p), line) =
              RestsFrom(title, b, Least(NextEnds(title, b, line, p)))
      BY <3>1, AfterInRest
    <3>. QED  BY <3>2 DEF line
  <2>6. Least(E(k)) \subseteq 0..b
    BY DEF Least, EndsOf
  <2>7. Least(E(k + 1)) = UNION {Least(N(p)) : p \in Least(E(k))}
    <3>. HIDE DEF n, f, T
    <3>1. k \in 1..Len(lines) - 1
      BY <2>1
    <3>2. Least(EndsOf(lines, title, b, k + 1)) = NextLeastEnds(lines, title, b, k)
      BY <3>1, LeastEnds
    <3>. QED  BY <3>2 DEF NextLeastEnds
  <2>. HIDE DEF E, N, n
  <2>8. run[k] = UNION {After(rest, lines[k + 1]) : rest \in Rests(Least(E(k)))}
    BY <2>2, <2>3 DEF FindNext, RestsFrom
  <2>9. run[k] = UNION {Rests(Least(N(p))) : p \in Least(E(k))}
    <3>. DEFINE least == Least(E(k))
                after(p) == After(RestFrom(title, b, p), lines[k + 1])
                rests(p) == Rests(Least(N(p)))
    <3>1. \A p \in least : after(p) = rests(p)
      BY <2>5, <2>6
    <3>2. run[k] = UNION {after(p) : p \in least}
      BY <2>8 DEF RestsFrom
    <3>. HIDE DEF least, after, rests
    <3>3. run[k] = UNION {rests(p) : p \in least}
      BY <3>1, <3>2
    <3>. QED  BY <3>3 DEF least, rests
  <2>10. UNION {Rests(Least(N(p))) : p \in Least(E(k))} =
             Rests(UNION {Least(N(p)) : p \in Least(E(k))})
    BY DEF RestsFrom
  <2>11. run[k] = Rests(Least(E(k + 1)))
    BY <2>7, <2>9, <2>10
  <2>. QED  BY <2>1, <2>11
<1>. HIDE DEF T
<1>4. n \in Nat
  BY <1>1
<1>. HIDE DEF n
<1>5. 0..n \subseteq T
  BY <1>2, <1>3, <1>4, CountUp
<1>6. \A k \in 0..n : run[k] = Rests(Least(E(k + 1)))
  BY <1>5 DEF T
<1>. QED  BY <1>6 DEF n

LEMMA NothingLeft ==
    ASSUME NEW Char, NEW lines \in LinesOf(Char), NEW title \in Seq(Char), Len(lines) >= 2,
           NEW run, IsLeft(run, lines, title), StrippedEnds(lines, title) = {}
    PROVE  run[Len(lines) - 2] = {}
<1>. DEFINE n == Len(lines) - 2
            T == {k \in 0..n : run[k] = {}}
<1>1. n \in Nat
  BY DEF LinesOf
<1>2. 0 \in T
  BY <1>1 DEF IsLeft
<1>3. ASSUME NEW k \in 1..n, k - 1 \in T PROVE k \in T
  <2>1. k \in 0..n /\ run[k - 1] = {}
    BY <1>1, <1>3
  <2>2. run[k] = FindNext({}, lines[k + 1])
    BY <2>1 DEF IsLeft
  <2>3. FindNext({}, lines[k + 1]) = {}
    BY DEF FindNext
  <2>. QED  BY <2>1, <2>2, <2>3
<1>. HIDE DEF n
<1>4. n \in 0..n
  BY <1>1
<1>. HIDE DEF T
<1>5. 0..n \subseteq T
  BY <1>1, <1>2, <1>3, CountUp
<1>. QED  BY <1>4, <1>5 DEF T, n

(* The lines are found iff they have places.                               *)
LEMMA GlobIsPlaced ==
    ASSUME NEW Char, NEW lines \in LinesOf(Char), NEW title \in Seq(Char)
    PROVE  LinesAreIn(lines, title) <=> PlacedIn(lines, title)
<1>1. CASE Len(lines) = 1
  <2>. DEFINE f == Len(lines[1])
              L == Len(title)
  <2>1. f \in Nat /\ L \in Nat /\ 1 \in 1..Len(lines)
    BY <1>1, LineFacts
  <2>2. LinesAreIn(lines, title) <=> StripPrefix(title, lines[1]) = {<<>>}
    BY <1>1 DEF LinesAreIn, Some
  <2>3. PlacedIn(lines, title) <=> L \in EndsOf(lines, title, L, 1)
    BY <1>1, PlacedEnds
  <2>4. CASE ~OccursAt(lines[1], title, 0)
    <3>1. StripPrefix(title, lines[1]) = {}
      BY <2>4 DEF StripPrefix, None
    <3>2. ASSUME NEW p \in EndsOf(lines, title, L, 1) PROVE FALSE
      <4>1. PICK place : IsPlacement(place, lines, title, 1)
        BY DEF EndsOf
      <4>. QED  BY <2>4, <4>1 DEF IsPlacement
    <3>. QED  BY <2>2, <2>3, <3>1, <3>2
  <2>5. CASE OccursAt(lines[1], title, 0)
    <3>1. f <= L
      BY <2>1, <2>5 DEF OccursAt
    <3>2. EndsOf(lines, title, L, 1) = {f}
      <4>1. L \in 0..Len(title)
        BY <2>1
      <4>2. f <= L
        BY <3>1
      <4>. HIDE DEF L
      <4>. QED  BY <2>5, <4>1, <4>2, FirstEnd
    <3>3. StripPrefix(title, lines[1]) = {SubSeq(title, f + 1, L)}
      BY <2>5 DEF StripPrefix, Some
    <3>4. SubSeq(title, f + 1, L) = <<>> <=> f = L
      <4>1. f \in 0..L /\ L \in 0..L
        BY <2>1, <3>1
      <4>2. RestFrom(title, L, f) \in Seq(Char) /\ Len(RestFrom(title, L, f)) = L - f
        <5>. HIDE DEF f
        <5>. QED  BY <4>1, RestFacts
      <4>3. RestFrom(title, L, f) = <<>> <=> Len(RestFrom(title, L, f)) = 0
        <5>. DEFINE r == RestFrom(title, L, f)
        <5>1. r \in Seq(Char)
          BY <4>2
        <5>. HIDE DEF r
        <5>2. r = <<>> <=> Len(r) = 0
          BY <5>1
        <5>. QED  BY <5>2 DEF r
      <4>. HIDE DEF f, L
      <4>4. L - f = 0 <=> f = L
        BY <2>1
      <4>. QED  BY <4>2, <4>3, <4>4 DEF RestFrom
    <3>. HIDE DEF f, L
    <3>5. LinesAreIn(lines, title) <=> SubSeq(title, f + 1, L) = <<>>
      BY <2>2, <3>3
    <3>6. PlacedIn(lines, title) <=> L = f
      BY <2>3, <3>2
    <3>. QED  BY <3>4, <3>5, <3>6
  <2>. QED  BY <2>4, <2>5
<1>2. CASE Len(lines) >= 2
  <2>. DEFINE m == Len(lines)
              e == Len(lines[m])
              b == Len(title) - e
              n == m - 2
              k == m - 1
              f == Len(lines[1])
  <2>1. PICK run : IsLeft(run, lines, title) /\ (LinesAreIn(lines, title) <=> run[n] # {})
    BY <1>2, LeftRun
  <2>2. PlacedIn(lines, title) <=>
            b >= 0 /\ OccursAt(lines[m], title, b) /\ EndsOf(lines, title, b, k) # {}
    BY <1>2, PlacedInTwoWays
  <2>3. n \in Nat /\ n \in 0..m - 2 /\ n + 1 = k
    BY <1>2 DEF LinesOf
  <2>4. Len(title) \in Nat /\ e \in Nat /\ f \in Nat /\ lines[m] \in Seq(Char)
    BY LineFacts DEF LinesOf
  <2>5. CASE b >= 0 /\ OccursAt(lines[m], title, b)
    <3>1. b \in 0..Len(title)
      <4>1. Len(title) \in Nat /\ e \in Nat
        BY <2>4
      <4>. DEFINE L == Len(title)
      <4>2. b = L - e /\ b >= 0
        BY <2>5
      <4>. HIDE DEF e, b, L
      <4>3. b \in 0..L
        BY <2>4, <4>2 DEF L
      <4>. QED  BY <4>3 DEF L
    <3>2. b = Len(title) - Len(lines[Len(lines)]) /\ OccursAt(lines[Len(lines)], title, b)
      BY <2>5
    <3>. HIDE DEF b
    <3>3. \A j \in 0..Len(lines) - 2 :
              run[j] = RestsFrom(title, b, Least(EndsOf(lines, title, b, j + 1)))
      BY <1>2, <2>1, <3>1, <3>2, LeftEnds
    <3>4. run[n] = RestsFrom(title, b, Least(EndsOf(lines, title, b, k)))
      <4>1. n \in 0..Len(lines) - 2 /\ n + 1 = k
        BY <2>3
      <4>. HIDE DEF n, k
      <4>. QED  BY <3>3, <4>1
    <3>. DEFINE E == EndsOf(lines, title, b, k)
    <3>5. E \in SUBSET Nat
      BY DEF EndsOf
    <3>. HIDE DEF E
    <3>6. E # {} <=> Least(E) # {}
      <4>1. CASE E = {}
        BY <4>1 DEF Least
      <4>2. CASE E # {}
        <5>1. \E x \in E : \A y \in E : x <= y
          BY <3>5, <4>2, LeastNat
        <5>. QED  BY <4>2, <5>1 DEF Least
      <4>. QED  BY <4>1, <4>2
    <3>7. run[n] # {} <=> Least(E) # {}
      BY <3>4 DEF E, RestsFrom
    <3>. HIDE DEF n, k, m
    <3>8. PlacedIn(lines, title) <=> E # {}
      BY <2>2, <2>5 DEF E
    <3>. QED  BY <2>1, <3>6, <3>7, <3>8
  <2>6. CASE ~(b >= 0 /\ OccursAt(lines[m], title, b))
    <3>1. StrippedEnds(lines, title) =
              IF f <= b /\ OccursAt(lines[1], title, 0) /\ OccursAt(lines[m], title, b)
              THEN {RestFrom(title, b, f)} ELSE {}
      BY StrippedIs
    <3>2. f <= b => b >= 0
      <4>1. f \in Nat /\ b \in Int
        <5>1. Len(title) \in Nat /\ e \in Nat
          BY <2>4
        <5>. HIDE DEF e
        <5>. QED  BY <2>4, <5>1
      <4>. HIDE DEF f, b
      <4>. QED  BY <4>1
    <3>. HIDE DEF f, b
    <3>3. StrippedEnds(lines, title) = {}
      BY <2>6, <3>1, <3>2
    <3>4. run[n] = {}
      BY <1>2, <2>1, <3>3, NothingLeft
    <3>. HIDE DEF n, k, m
    <3>. QED  BY <2>1, <2>2, <2>6, <3>4
  <2>. QED  BY <2>5, <2>6
<1>3. Len(lines) = 1 \/ Len(lines) >= 2
  <2>. DEFINE m == Len(lines)
  <2>1. m \in Nat /\ m - 1 \in Nat
    BY LineFacts
  <2>. HIDE DEF m
  <2>2. m = 1 \/ m >= 2
    BY <2>1
  <2>. QED  BY <2>2 DEF m
<1>. QED  BY <1>1, <1>2, <1>3

LEMMA GlobIsLines ==
    ASSUME NEW Char, NEW pattern \in Seq(Char)
    PROVE  SplitNewlineGlob(pattern) \in LinesOf(Char)
<1>. DEFINE lines == SplitLines(pattern)
            m == Len(lines)
<1>1. lines \in LinesOf(Char)
  BY SplitIsLines
<1>2. m \in Nat /\ m >= 1 /\ lines \in Seq(Seq(Char)) /\ DOMAIN lines = 1..m
  BY <1>1, LineFacts DEF LinesOf
<1>3. \A k \in 1..m : TrimEnd(lines[k]) \in Seq(Char)
  <2>1. \A k \in 1..m : lines[k] \in Seq(Char)
    BY <1>1, LineFacts
  <2>. HIDE DEF lines, m
  <2>2. ASSUME NEW l \in Seq(Char) PROVE TrimEnd(l) \in Seq(Char)
    <3>1. PICK n \in 0..Len(l) : TrimEnd(l) = SubSeq(l, 1, n)
      BY TrimmedSomewhere
    <3>. QED  BY <3>1, Beginning
  <2>. QED  BY <2>1, <2>2
<1>4. SplitNewlineGlob(pattern) = [k \in 1..m |-> TrimEnd(lines[k])]
  BY <1>2 DEF SplitNewlineGlob
<1>. HIDE DEF lines, m
<1>. QED  BY <1>2, <1>3, <1>4 DEF LinesOf

LEMMA EveryGlobIsSplit ==
    ASSUME NEW Char, Titles \subseteq Seq(Char), text \in Seq(Char)
    PROVE  GlobIsSplit
<1>. SUFFICES ASSUME NEW title \in Titles
     PROVE  CheckNewlineGlob(text, title) <=>
                \/ text = <<Newline>> \/ text = <<Return, Newline>>
                \/ PlacedIn(SplitNewlineGlob(text), title)
  BY DEF GlobIsSplit
<1>. DEFINE lines == SplitNewlineGlob(text)
<1>1. lines \in LinesOf(Char)
  BY GlobIsLines
<1>2. title \in Seq(Char)
  OBVIOUS
<1>3. LinesAreIn(lines, title) <=> PlacedIn(lines, title)
  <2>. HIDE DEF lines
  <2>. QED  BY <1>1, <1>2, GlobIsPlaced
<1>. QED  BY <1>3 DEF CheckNewlineGlob
-----------------------------------------------------------------------------
(***************************************************************************)
(* The field for shortcuts: DigitsReadBack for the numbers, FormatLines and*)
(* FormatEntries for the lines, FormatReadBack for the whole text.         *)
(***************************************************************************)
(* The loop of Number. *)
DigitValue(c) == CHOOSE d \in 0..9 : DigitSeq[d + 1] = c

LEMMA DigitFacts ==
    /\ \A d \in 0..9 : DigitSeq[d + 1] \in Digits /\ DigitValue(DigitSeq[d + 1]) = d
    /\ \A c \in Digits : DigitValue(c) \in Nat
<1>1. \A d, e \in 0..9 : DigitSeq[d + 1] = DigitSeq[e + 1] => d = e
  BY DEF DigitSeq
<1>2. \A d \in 0..9 : d + 1 \in DOMAIN DigitSeq
  BY DEF DigitSeq
<1>3. \A i \in DOMAIN DigitSeq : i - 1 \in 0..9 /\ (i - 1) + 1 = i
  BY DEF DigitSeq
<1>. HIDE DEF DigitSeq
<1>4. ASSUME NEW d \in 0..9 PROVE DigitSeq[d + 1] \in Digits /\ DigitValue(DigitSeq[d + 1]) = d
  <2>1. DigitSeq[d + 1] \in Digits
    BY <1>2 DEF Digits, ToSet
  <2>2. \E e \in 0..9 : DigitSeq[e + 1] = DigitSeq[d + 1]
    OBVIOUS
  <2>3. /\ DigitValue(DigitSeq[d + 1]) \in 0..9
        /\ DigitSeq[DigitValue(DigitSeq[d + 1]) + 1] = DigitSeq[d + 1]
    BY <2>2 DEF DigitValue
  <2>. QED  BY <1>1, <2>1, <2>3
<1>5. ASSUME NEW c \in Digits PROVE DigitValue(c) \in Nat
  <2>1. PICK i \in DOMAIN DigitSeq : c = DigitSeq[i]
    BY DEF Digits, ToSet
  <2>2. c = DigitSeq[(i - 1) + 1] /\ i - 1 \in 0..9
    BY <1>3, <2>1
  <2>3. DigitValue(c) = i - 1
    BY <1>4, <2>2
  <2>. QED  BY <2>2, <2>3
<1>. QED  BY <1>4, <1>5

IsNumber(run, digits) ==
    /\ run[0] = 0
    /\ \A k \in 1..Len(digits) : run[k] = 10 * run[k - 1] + DigitValue(digits[k])

LEMMA NumberRun ==
    ASSUME NEW digits \in Seq(Digits)
    PROVE  \E run \in [0..Len(digits) -> Nat] :
               IsNumber(run, digits) /\ Number(digits) = run[Len(digits)]
<1>. DEFINE n == Len(digits)
            A == Nat
            base == 0
            step == [x \in A \X (1..n) |-> 10 * x[1] + DigitValue(digits[x[2]])]
            Rest(f) == [k \in 0..n |->
                IF k = 0 THEN base ELSE 10 * f[k - 1] + DigitValue(digits[k])]
            F == CHOOSE f : f = Rest(f)
<1>1. n \in Nat /\ base \in A /\ \A k \in 1..n : k - 1 \in 0..n /\ k # 0 /\ k \in 0..n
  OBVIOUS
<1>2. step \in [A \X (1..n) -> A]
  <2>1. \A k \in 1..n : DigitValue(digits[k]) \in Nat
    <3>1. \A k \in 1..n : digits[k] \in Digits
      OBVIOUS
    <3>. QED  BY <3>1, DigitFacts
  <2>. HIDE DEF n
  <2>2. \A z \in Nat, k \in 1..n : 10 * z + DigitValue(digits[k]) \in Nat
    BY <2>1
  <2>. QED  BY <2>2
<1>3. \A z \in A, k \in 1..n : step[<<z, k>>] = 10 * z + DigitValue(digits[k])
  OBVIOUS
<1>4. PICK g \in [0..n -> A] : IsRun(g, n, base, step)
  <2>. HIDE DEF base, step, A, n
  <2>. QED  BY <1>1, <1>2, Loop
<1>5. g[0] = base /\ \A k \in 1..n : g[k] = step[<<g[k - 1], k>>]
  BY <1>4 DEF IsRun
<1>6. \A k \in 1..n : g[k] = 10 * g[k - 1] + DigitValue(digits[k])
  <2>. HIDE DEF base, step, A, n
  <2>. QED  BY <1>1, <1>3, <1>4, <1>5
<1>7. g = Rest(g)
  <2>1. \A k \in 0..n : k = 0 \/ k \in 1..n
    BY <1>1
  <2>. HIDE DEF base, step, A, n
  <2>2. \A k \in 0..n : g[k] = Rest(g)[k]
    BY <1>1, <1>5, <1>6, <2>1
  <2>. QED  BY <1>4, <2>2
<1>8. F = Rest(F)
  BY <1>7
<1>9. n \in 0..n /\ 0 \in 0..n
  BY <1>1
<1>10. Number(digits) = F[n]
  BY DEF Number, DigitValue
<1>. HIDE DEF base, step, A, n, F
<1>11. F[n] = g[n]
  <2>1. F[0] = g[0]
    BY <1>5, <1>8, <1>9
  <2>2. ASSUME NEW k \in 1..n, F[k - 1] = g[k - 1] PROVE F[k] = g[k]
    <3>1. Rest(F)[k] = 10 * F[k - 1] + DigitValue(digits[k])
      BY <1>1
    <3>2. F[k] = Rest(F)[k]
      BY <1>8
    <3>. QED  BY <1>6, <2>2, <3>1, <3>2
  <2>. HIDE DEF Rest
  <2>3. GoOnAlike(n, F, g)
    BY <2>1, <2>2 DEF GoOnAlike
  <2>4. n \in Nat
    BY <1>1
  <2>5. \A k \in 0..n : F[k] = g[k]
    BY <2>3, <2>4, SameRuns
  <2>. QED  BY <1>9, <2>5
<1>12. IsNumber(g, digits)
  BY <1>5, <1>6 DEF IsNumber, n, base
<1>. QED  BY <1>4, <1>10, <1>11, <1>12 DEF n, A

LEMMA NumberAppend ==
    ASSUME NEW d \in Seq(Digits), NEW c \in Digits
    PROVE  /\ Number(d) \in Nat
           /\ Number(Append(d, c)) = 10 * Number(d) + DigitValue(c)
<1>. DEFINE t == Append(d, c)
            n == Len(d)
<1>1. /\ t \in Seq(Digits) /\ Len(t) = n + 1 /\ n \in Nat
      /\ \A i \in 1..n : t[i] = d[i]
      /\ t[n + 1] = c
  BY TextAppend
<1>. HIDE DEF t
<1>2. PICK f \in [0..n -> Nat] : IsNumber(f, d) /\ Number(d) = f[n]
  BY NumberRun
<1>3. PICK g \in [0..Len(t) -> Nat] : IsNumber(g, t) /\ Number(t) = g[Len(t)]
  BY <1>1, NumberRun
<1>. HIDE DEF n
<1>4. GoOnAlike(n, f, g)
  <2>1. f[0] = g[0]
    BY <1>2, <1>3 DEF IsNumber
  <2>2. ASSUME NEW k \in 1..n, f[k - 1] = g[k - 1] PROVE f[k] = g[k]
    <3>1. k \in 1..Len(t) /\ t[k] = d[k]
      BY <1>1
    <3>2. f[k] = 10 * f[k - 1] + DigitValue(d[k])
      BY <1>2 DEF IsNumber, n
    <3>3. g[k] = 10 * g[k - 1] + DigitValue(t[k])
      BY <1>3, <3>1 DEF IsNumber
    <3>. QED  BY <2>2, <3>1, <3>2, <3>3
  <2>. QED  BY <2>1, <2>2 DEF GoOnAlike
<1>5. \A k \in 0..n : f[k] = g[k]
  <2>1. n \in Nat
    BY <1>1
  <2>. QED  BY <1>4, <2>1, SameRuns
<1>6. n \in 0..n /\ n + 1 \in 1..Len(t) /\ (n + 1) - 1 = n
  BY <1>1
<1>7. g[n + 1] = 10 * g[n] + DigitValue(c)
  BY <1>1, <1>3, <1>6 DEF IsNumber
<1>8. f[n] = g[n] /\ f[n] \in Nat
  BY <1>2, <1>5, <1>6
<1>. QED  BY <1>1, <1>2, <1>3, <1>7, <1>8 DEF t

LEMMA NumberOne ==
    ASSUME NEW c \in Digits
    PROVE  Number(<<c>>) = DigitValue(c)
<1>1. <<>> \in Seq(Digits) /\ Len(<<>>) = 0 /\ Append(<<>>, c) = <<c>>
  OBVIOUS
<1>2. PICK run : IsNumber(run, <<>>) /\ Number(<<>>) = run[Len(<<>>)]
  BY <1>1, NumberRun
<1>3. Number(<<>>) = 0
  BY <1>1, <1>2 DEF IsNumber
<1>4. Number(Append(<<>>, c)) = 10 * 0 + DigitValue(c)
  BY <1>1, <1>3, NumberAppend
<1>. QED  BY <1>1, <1>4, DigitFacts
-----------------------------------------------------------------------------
(* The digits of a number. *)
NextDigits(n, f) ==
    IF n < 10 THEN <<DigitSeq[n + 1]>> ELSE Append(f[n \div 10], DigitSeq[(n % 10) + 1])

LEMMA TenFacts ==
    ASSUME NEW n \in Nat
    PROVE  /\ n \div 10 \in Nat /\ n % 10 \in 0..9 /\ n = 10 * (n \div 10) + (n % 10)
           /\ n >= 10 => n \div 10 < n
<1>1. n \div 10 \in Nat /\ n % 10 \in 0..9 /\ n = 10 * (n \div 10) + (n % 10)
  <2>1. n \div 10 \in Nat
    OBVIOUS
  <2>2. n % 10 \in 0..9
    OBVIOUS
  <2>3. n = 10 * (n \div 10) + (n % 10)
    OBVIOUS
  <2>. QED  BY <2>1, <2>2, <2>3
<1>. DEFINE q == n \div 10
<1>2. q \in Nat /\ 10 * q <= n
  BY <1>1
<1>. HIDE DEF q
<1>3. n >= 10 => q < n
  BY <1>2
<1>. QED  BY <1>1, <1>3 DEF q

LEMMA DigitsTable ==
    ASSUME NEW M \in Nat
    PROVE  \E f \in [0..M -> Seq(Digits)] : \A n \in 0..M : f[n] = NextDigits(n, f)
<1>. DEFINE Table(f, m) == \A n \in 0..m : f[n] = NextDigits(n, f)
            T == {m \in 0..M : \E f \in [0..m -> Seq(Digits)] : Table(f, m)}
<1>1. \A d \in 0..9 : DigitSeq[d + 1] \in Digits
  BY DigitFacts
<1>. HIDE DEF Digits
<1>2. 0 \in T
  <2>. DEFINE f == [i \in 0..0 |-> <<DigitSeq[1]>>]
  <2>1. f \in [0..0 -> Seq(Digits)]
    <3>1. DigitSeq[0 + 1] \in Digits
      BY <1>1
    <3>. QED  BY <3>1
  <2>2. Table(f, 0)
    BY DEF NextDigits
  <2>. QED  BY <2>1, <2>2
<1>3. ASSUME NEW m \in 1..M, m - 1 \in T PROVE m \in T
  <2>1. PICK f \in [0..m - 1 -> Seq(Digits)] : Table(f, m - 1)
    BY <1>3
  <2>. DEFINE last == NextDigits(m, f)
              g == [k \in 0..m |-> IF k = m THEN last ELSE f[k]]
  <2>2. m \in Nat /\ \A k \in 0..m : (k = m \/ k \in 0..m - 1) /\ k \in Nat /\ k <= m
    OBVIOUS
  <2>3. last \in Seq(Digits)
    <3>1. CASE m < 10
      <4>1. m \in 0..9
        BY <2>2, <3>1
      <4>2. last = <<DigitSeq[m + 1]>> /\ DigitSeq[m + 1] \in Digits
        BY <1>1, <3>1, <4>1 DEF NextDigits
      <4>. QED  BY <4>2
    <3>2. CASE ~(m < 10)
      <4>1. m \div 10 \in 0..m - 1 /\ m % 10 \in 0..9
        BY <2>2, <3>2, TenFacts
      <4>2. f[m \div 10] \in Seq(Digits) /\ DigitSeq[(m % 10) + 1] \in Digits
        BY <1>1, <2>1, <4>1
      <4>3. Append(f[m \div 10], DigitSeq[(m % 10) + 1]) \in Seq(Digits)
        BY <4>2, TextAppend
      <4>. QED  BY <3>2, <4>3 DEF NextDigits
    <3>. QED  BY <3>1, <3>2
  <2>4. g \in [0..m -> Seq(Digits)]
    BY <2>2, <2>3
  <2>5. g[m] = last /\ \A k \in 0..m - 1 : g[k] = f[k]
    OBVIOUS
  <2>. HIDE DEF g
  <2>6. ASSUME NEW k \in 0..m PROVE g[k] = NextDigits(k, g)
    <3>1. CASE k < 10
      <4>1. NextDigits(k, g) = NextDigits(k, f)
        BY <3>1 DEF NextDigits
      <4>. QED  BY <2>1, <2>2, <2>5, <4>1
    <3>2. CASE ~(k < 10)
      <4>1. k \div 10 \in 0..m - 1
        BY <2>2, <3>2, TenFacts
      <4>2. NextDigits(k, g) = NextDigits(k, f)
        BY <2>5, <3>2, <4>1 DEF NextDigits
      <4>. QED  BY <2>1, <2>2, <2>5, <4>2
    <3>. QED  BY <3>1, <3>2
  <2>7. m \in 0..M
    OBVIOUS
  <2>. QED  BY <2>4, <2>6, <2>7
<1>. HIDE DEF T
<1>4. 0..M \subseteq T
  BY <1>2, <1>3, CountUp
<1>5. M \in T
  BY <1>4
<1>. QED  BY <1>5 DEF T

LEMMA DigitsOfIs ==
    /\ DOMAIN DigitsOf = 0..MaxTarget
    /\ \A n \in 0..MaxTarget : DigitsOf[n] = NextDigits(n, DigitsOf)
<1>. DEFINE Body(f) == [n \in 0..MaxTarget |->
                IF n < 10 THEN <<DigitSeq[n + 1]>>
                ELSE Append(f[n \div 10], DigitSeq[(n % 10) + 1])]
            F == CHOOSE f : f = Body(f)
<1>1. MaxTarget \in Nat
  BY FieldAssumption
<1>2. PICK f \in [0..MaxTarget -> Seq(Digits)] : \A n \in 0..MaxTarget : f[n] = NextDigits(n, f)
  BY <1>1, DigitsTable
<1>3. f = Body(f)
  <2>1. \A n \in 0..MaxTarget : f[n] = Body(f)[n]
    BY <1>2 DEF NextDigits
  <2>. QED  BY <1>2, <2>1
<1>4. F = Body(F)
  BY <1>3
<1>5. DigitsOf = F
  BY DEF DigitsOf
<1>. HIDE DEF F
<1>6. DigitsOf = Body(DigitsOf)
  BY <1>4, <1>5
<1>. QED  BY <1>6 DEF NextDigits

(* Read again, the digits of a number are that number.                     *)
LEMMA DigitsReadBack ==
    ASSUME NEW n \in 0..MaxTarget
    PROVE  DigitsOf[n] \in Seq(Digits) /\ DigitsOf[n] # <<>> /\ Number(DigitsOf[n]) = n
<1>. DEFINE Right(i) == DigitsOf[i] \in Seq(Digits) /\ DigitsOf[i] # <<>> /\ Number(DigitsOf[i]) = i
            Wrong == {i \in 0..MaxTarget : ~Right(i)}
<1>. SUFFICES ASSUME Wrong # {} PROVE FALSE
  OBVIOUS
<1>1. Wrong \in SUBSET Nat
  OBVIOUS
<1>2. PICK m \in Wrong : \A i \in Wrong : m <= i
  <2>. HIDE DEF Wrong
  <2>. QED  BY <1>1, LeastNat
<1>3. m \in 0..MaxTarget /\ m \in Nat /\ DigitsOf[m] = NextDigits(m, DigitsOf)
  BY <1>1, DigitsOfIs
<1>4. CASE m < 10
  <2>1. m \in 0..9
    BY <1>3, <1>4
  <2>2. DigitSeq[m + 1] \in Digits /\ DigitValue(DigitSeq[m + 1]) = m
    BY <2>1, DigitFacts
  <2>3. DigitsOf[m] = <<DigitSeq[m + 1]>>
    BY <1>3, <1>4 DEF NextDigits
  <2>4. Number(DigitsOf[m]) = m
    BY <2>2, <2>3, NumberOne
  <2>5. DigitsOf[m] \in Seq(Digits) /\ DigitsOf[m] # <<>>
    BY <2>2, <2>3
  <2>. QED  BY <2>4, <2>5
<1>5. CASE ~(m < 10)
  <2>. DEFINE q == m \div 10
              r == m % 10
  <2>1. q \in Nat /\ r \in 0..9 /\ m = 10 * q + r /\ q < m
    BY <1>3, <1>5, TenFacts
  <2>2. DigitsOf[m] = Append(DigitsOf[q], DigitSeq[r + 1])
    BY <1>3, <1>5 DEF NextDigits
  <2>. HIDE DEF q, r
  <2>3. q \in 0..MaxTarget /\ ~(m <= q)
    <3>1. MaxTarget \in Nat
      BY FieldAssumption
    <3>. QED  BY <1>3, <2>1, <3>1
  <2>4. Right(q)
    BY <1>2, <2>3
  <2>5. DigitSeq[r + 1] \in Digits /\ DigitValue(DigitSeq[r + 1]) = r
    BY <2>1, DigitFacts
  <2>6. Number(DigitsOf[m]) = 10 * q + r
    BY <2>2, <2>4, <2>5, NumberAppend
  <2>7. DigitsOf[m] \in Seq(Digits) /\ DigitsOf[m] # <<>>
    <3>. DEFINE d == DigitsOf[q]
                c == DigitSeq[r + 1]
    <3>1. d \in Seq(Digits) /\ c \in Digits
      BY <2>4, <2>5
    <3>. HIDE DEF d, c
    <3>2. Append(d, c) \in Seq(Digits) /\ Append(d, c) # <<>>
      BY <3>1
    <3>. QED  BY <2>2, <3>2 DEF d, c
  <2>. QED  BY <1>3, <2>1, <2>6, <2>7
<1>. QED  BY <1>4, <1>5
-----------------------------------------------------------------------------
(* What a line adds that has no newline. *)
HasNo(s, c) == \A i \in 1..Len(s) : s[i] # c

IsLonger(w, v, line) ==
    /\ Len(w) = Len(v)
    /\ \A k \in 1..Len(v) : w[k] = IF k = Len(v) THEN v[k] \o line ELSE v[k]

LEMMA HasNoAppend ==
    ASSUME NEW Char, NEW s \in Seq(Char), NEW d \in Char, NEW c
    PROVE  HasNo(Append(s, d), c) <=> HasNo(s, c) /\ d # c
<1>. DEFINE u == Append(s, d)
            n == Len(s)
<1>1. /\ n \in Nat /\ Len(u) = n + 1 /\ u[n + 1] = d /\ \A i \in 1..n : u[i] = s[i]
  BY TextAppend
<1>. HIDE DEF u, n
<1>2. \A i \in 1..n + 1 : i \in 1..n \/ i = n + 1
  BY <1>1
<1>3. n + 1 \in 1..n + 1 /\ \A i \in 1..n : i \in 1..n + 1
  BY <1>1
<1>. QED  BY <1>1, <1>2, <1>3 DEF HasNo, u, n

LEMMA SplitMore ==
    ASSUME NEW Char, NEW s \in Seq(Char), NEW line \in Seq(Char), HasNo(line, Newline)
    PROVE  IsLonger(SplitLines(s \o line), SplitLines(s), line)
<1>. DEFINE v == SplitLines(s)
            P == {t \in Seq(Char) : HasNo(t, Newline) => IsLonger(SplitLines(s \o t), v, t)}
<1>1. v \in LinesOf(Char)
  BY SplitIsLines
<1>2. Len(v) \in Nat /\ \A k \in 1..Len(v) : v[k] \in Seq(Char)
  BY <1>1, LineFacts
<1>. HIDE DEF v
<1>3. <<>> \in P
  <2>1. s \o <<>> = s
    OBVIOUS
  <2>2. \A k \in 1..Len(v) : v[k] \o <<>> = v[k]
    BY <1>2
  <2>3. IsLonger(v, v, <<>>)
    BY <2>2 DEF IsLonger
  <2>. QED  BY <2>1, <2>3 DEF v
<1>4. ASSUME NEW t \in Seq(Char), NEW c \in Char, t \in P PROVE Append(t, c) \in P
  <2>. DEFINE u == Append(t, c)
              w == SplitLines(s \o t)
              x == GoOn(w, c)
  <2>1. u \in Seq(Char) /\ s \o t \in Seq(Char)
    OBVIOUS
  <2>. HIDE DEF P
  <2>. SUFFICES ASSUME HasNo(u, Newline) PROVE IsLonger(SplitLines(s \o u), v, u)
    BY <2>1 DEF P
  <2>2. HasNo(t, Newline) /\ c # Newline
    BY HasNoAppend
  <2>3. IsLonger(w, v, t)
    BY <1>4, <2>2 DEF P
  <2>4. s \o u = Append(s \o t, c)
    BY ConcatAppend
  <2>5. SplitLines(s \o u) = x /\ w \in LinesOf(Char)
    BY <2>1, <2>4, SplitAppend
  <2>6. /\ Len(x) = Len(w)
        /\ \A k \in 1..Len(w) : x[k] = IF k = Len(w) THEN Append(w[k], c) ELSE w[k]
    <3>. HIDE DEF w
    <3>. QED  BY <2>2, <2>5, GoesOn
  <2>. HIDE DEF w, x
  <2>7. ASSUME NEW k \in 1..Len(v) PROVE x[k] = IF k = Len(v) THEN v[k] \o u ELSE v[k]
    <3>1. Len(w) = Len(v) /\ w[k] = IF k = Len(v) THEN v[k] \o t ELSE v[k]
      BY <2>3 DEF IsLonger
    <3>2. v[k] \in Seq(Char)
      BY <1>2
    <3>3. v[k] \o u = Append(v[k] \o t, c)
      <4>. DEFINE a == v[k]
      <4>1. a \in Seq(Char)
        BY <3>2
      <4>. HIDE DEF a
      <4>2. a \o Append(t, c) = Append(a \o t, c)
        BY <4>1, ConcatAppend
      <4>. QED  BY <4>2 DEF a
    <3>. HIDE DEF u
    <3>. QED  BY <2>6, <3>1, <3>3
  <2>8. Len(x) = Len(v)
    BY <2>3, <2>6 DEF IsLonger
  <2>. QED  BY <2>5, <2>7, <2>8 DEF IsLonger
<1>5. line \in P
  <2>. HIDE DEF P
  <2>. QED  BY <1>3, <1>4, BuildUp
<1>. QED  BY <1>5 DEF v
-----------------------------------------------------------------------------
(* Shortcuts as the settings have them, and the keys in the text's order.  *)
IsMap(map) ==
    /\ IsFiniteSet(DOMAIN map) /\ DOMAIN map \subseteq Seq(Letters)
    /\ map \in [DOMAIN map -> 0..MaxTarget]

FieldChar == Letters \cup Digits \cup {Newline, Return}

KeySeq(map) == SetToSeq(DOMAIN map)

LEMMA SetListed ==
    ASSUME NEW S, IsFiniteSet(S)
    PROVE  /\ SetToSeq(S) \in Seq(S)
           /\ \A i, j \in 1..Len(SetToSeq(S)) : SetToSeq(S)[i] = SetToSeq(S)[j] => i = j
           /\ \A x \in S : \E i \in 1..Len(SetToSeq(S)) : SetToSeq(S)[i] = x
<1>. DEFINE n == Cardinality(S)
            f == SetToSeq(S)
<1>1. n \in Nat /\ ExistsBijection(1..n, S)
  BY FS_CardinalityType
<1>2. \E g \in [1..n -> S] : IsInjective(g)
  BY <1>1 DEF ExistsBijection, Bijection, Injection
<1>3. f \in [1..n -> S] /\ IsInjective(f)
  BY <1>2 DEF SetToSeq
<1>. HIDE DEF f
<1>4. f \in Seq(S) /\ Len(f) = n /\ DOMAIN f = 1..n
  BY <1>1, <1>3
<1>5. f \in Injection(1..n, S)
  BY <1>3 DEF Injection
<1>6. Cardinality(1..n) = n
  <2>. HIDE DEF n
  <2>1. 1 \in Int /\ n \in Int
    BY <1>1
  <2>2. Cardinality(1..n) = IF 1 > n THEN 0 ELSE n - 1 + 1
    BY <2>1, FS_Interval
  <2>. QED  BY <1>1, <2>2
<1>7. f \in Surjection(1..n, S)
  <2>1. Cardinality(1..n) = Cardinality(S) <=> f \in Surjection(1..n, S)
    <3>. HIDE DEF n
    <3>. QED  BY <1>5, FS_Injection
  <2>. QED  BY <1>6, <2>1
<1>8. \A x \in S : \E i \in 1..n : f[i] = x
  BY <1>3, <1>7 DEF Surjection
<1>. HIDE DEF n
<1>. QED  BY <1>3, <1>4, <1>8 DEF IsInjective, f

LEMMA KeySeqFacts ==
    ASSUME NEW map, IsMap(map)
    PROVE  /\ Len(KeySeq(map)) \in Nat
           /\ \A k \in 1..Len(KeySeq(map)) :
                  /\ KeySeq(map)[k] \in DOMAIN map /\ KeySeq(map)[k] \in Seq(Letters)
                  /\ map[KeySeq(map)[k]] \in 0..MaxTarget
           /\ \A i, j \in 1..Len(KeySeq(map)) : KeySeq(map)[i] = KeySeq(map)[j] => i = j
           /\ \A key \in DOMAIN map : \E k \in 1..Len(KeySeq(map)) : KeySeq(map)[k] = key
<1>. DEFINE S == DOMAIN map
            K == SetToSeq(S)
<1>1. IsFiniteSet(S) /\ S \subseteq Seq(Letters) /\ \A key \in S : map[key] \in 0..MaxTarget
  BY DEF IsMap
<1>. HIDE DEF S
<1>2. /\ K \in Seq(S)
      /\ \A i, j \in 1..Len(K) : K[i] = K[j] => i = j
      /\ \A x \in S : \E i \in 1..Len(K) : K[i] = x
  BY <1>1, SetListed
<1>3. K = KeySeq(map)
  BY DEF KeySeq, S
<1>. HIDE DEF K
<1>4. Len(K) \in Nat /\ \A k \in 1..Len(K) : K[k] \in S
  BY <1>2
<1>. QED  BY <1>1, <1>2, <1>3, <1>4 DEF S

-----------------------------------------------------------------------------
(* The lines that Format writes. *)
Entry(map, key) == key \o DigitsOf[map[key]]

LineOf(map, key) == Without(key, {Newline, Return}) \o DigitsOf[map[key]] \o <<Return, Newline>>

LEMMA CharFacts ==
    /\ Letters \subseteq FieldChar /\ Digits \subseteq FieldChar
    /\ Newline \in FieldChar /\ Return \in FieldChar /\ Newline # Return
    /\ \A c \in Letters : c \notin Digits /\ c # Newline /\ c # Return
    /\ \A c \in Digits : c # Newline /\ c # Return
<1>1. Newline # Return
  BY DEF Newline, Return
<1>2. \A c \in Letters : c \notin Digits /\ c # Newline /\ c # Return
  BY FieldAssumption
<1>3. \A i \in DOMAIN DigitSeq : DigitSeq[i] # Newline /\ DigitSeq[i] # Return
  BY DEF DigitSeq, Newline, Return
<1>4. \A c \in Digits : c # Newline /\ c # Return
  BY <1>3 DEF Digits, ToSet
<1>. HIDE DEF Newline, Return, Digits
<1>. QED  BY <1>1, <1>2, <1>4 DEF FieldChar

LEMMA WiderSeq ==
    ASSUME NEW A, NEW B, A \subseteq B, NEW s \in Seq(A)
    PROVE  s \in Seq(B)
OBVIOUS

LEMMA EntryFacts ==
    ASSUME NEW map, IsMap(map), NEW key \in DOMAIN map
    PROVE  LET d == DigitsOf[map[key]] IN
           /\ key \in Seq(FieldChar) /\ d \in Seq(FieldChar) /\ d \in Seq(Digits) /\ d # <<>>
           /\ Number(d) = map[key]
           /\ \A i \in 1..Len(key) : key[i] \in Letters
           /\ \A i \in 1..Len(d) : d[i] \in Digits
<1>. DEFINE d == DigitsOf[map[key]]
<1>1. key \in Seq(Letters) /\ map[key] \in 0..MaxTarget
  BY DEF IsMap
<1>2. d \in Seq(Digits) /\ d # <<>> /\ Number(d) = map[key]
  BY <1>1, DigitsReadBack
<1>3. Letters \subseteq FieldChar /\ Digits \subseteq FieldChar
  BY CharFacts
<1>. HIDE DEF d, FieldChar, Digits
<1>4. key \in Seq(FieldChar) /\ d \in Seq(FieldChar)
  BY <1>1, <1>2, <1>3, WiderSeq
<1>5. \A i \in 1..Len(key) : key[i] \in Letters
  BY <1>1
<1>6. \A i \in 1..Len(d) : d[i] \in Digits
  BY <1>2
<1>. QED  BY <1>2, <1>4, <1>5, <1>6 DEF d

LEMMA TextConcat ==
    ASSUME NEW Char, NEW s \in Seq(Char), NEW t \in Seq(Char)
    PROVE  /\ s \o t \in Seq(Char) /\ Len(s \o t) = Len(s) + Len(t)
           /\ Len(s) \in Nat /\ Len(t) \in Nat
           /\ \A i \in 1..Len(s) : (s \o t)[i] = s[i]
           /\ \A i \in 1..Len(t) : (s \o t)[Len(s) + i] = t[i]
           /\ \A i \in 1..Len(s \o t) :
                  i \in 1..Len(s) \/ (i - Len(s) \in 1..Len(t) /\ i = Len(s) + (i - Len(s)))
<1>1. /\ s \o t \in Seq(Char) /\ Len(s \o t) = Len(s) + Len(t)
      /\ Len(s) \in Nat /\ Len(t) \in Nat
  OBVIOUS
<1>2. \A i \in 1..Len(s) : (s \o t)[i] = s[i]
  OBVIOUS
<1>3. \A i \in 1..Len(t) : (s \o t)[Len(s) + i] = t[i]
  OBVIOUS
<1>4. \A i \in 1..Len(s \o t) :
          i \in 1..Len(s) \/ (i - Len(s) \in 1..Len(t) /\ i = Len(s) + (i - Len(s)))
  BY <1>1
<1>. QED  BY <1>1, <1>2, <1>3, <1>4

LEMMA EntryHasNo ==
    ASSUME NEW map, IsMap(map), NEW key \in DOMAIN map
    PROVE  /\ Entry(map, key) \in Seq(FieldChar)
           /\ HasNo(Entry(map, key), Newline) /\ HasNo(Entry(map, key), Return)
           /\ Entry(map, key) # <<>>
<1>. DEFINE d == DigitsOf[map[key]]
            e == key \o d
<1>1. /\ key \in Seq(FieldChar) /\ d \in Seq(FieldChar) /\ d # <<>>
      /\ \A i \in 1..Len(key) : key[i] \in Letters
      /\ \A i \in 1..Len(d) : d[i] \in Digits
  BY EntryFacts
<1>2. e = Entry(map, key)
  BY DEF Entry
<1>. HIDE DEF d
<1>3. /\ e \in Seq(FieldChar) /\ Len(e) = Len(key) + Len(d) /\ Len(key) \in Nat /\ Len(d) \in Nat
      /\ \A i \in 1..Len(key) : e[i] = key[i]
      /\ \A i \in 1..Len(d) : e[Len(key) + i] = d[i]
      /\ \A i \in 1..Len(e) :
             i \in 1..Len(key) \/ (i - Len(key) \in 1..Len(d) /\ i = Len(key) + (i - Len(key)))
  <2>. HIDE DEF FieldChar
  <2>. QED  BY <1>1, TextConcat
<1>. HIDE DEF e
<1>4. \A i \in 1..Len(e) : e[i] \in Letters \cup Digits
  BY <1>1, <1>3
<1>5. HasNo(e, Newline) /\ HasNo(e, Return)
  BY <1>4, CharFacts DEF HasNo
<1>6. e # <<>>
  <2>1. Len(d) # 0
    BY <1>1
  <2>2. Len(e) # 0
    BY <1>3, <2>1
  <2>. QED  BY <2>2
<1>. QED  BY <1>2, <1>3, <1>5, <1>6

LEMMA LineOfIs ==
    ASSUME NEW map, IsMap(map), NEW key \in DOMAIN map
    PROVE  LineOf(map, key) = Append(Append(Entry(map, key), Return), Newline)
<1>. DEFINE d == DigitsOf[map[key]]
<1>1. key \in Seq(FieldChar) /\ d \in Seq(FieldChar) /\ \A i \in 1..Len(key) : key[i] \in Letters
  BY EntryFacts
<1>2. \A i \in 1..Len(key) : key[i] \notin {Newline, Return}
  BY <1>1, CharFacts
<1>3. Without(key, {Newline, Return}) = key
  BY <1>1, <1>2, WithoutOthers
<1>4. LineOf(map, key) = key \o d \o <<Return, Newline>> /\ Entry(map, key) = key \o d
  BY <1>3 DEF LineOf, Entry
<1>. DEFINE e == key \o d
<1>5. e \in Seq(FieldChar)
  BY <1>1, TextConcat
<1>6. Return \in FieldChar /\ Newline \in FieldChar
  BY CharFacts
<1>. HIDE DEF FieldChar, d, e, Newline, Return
<1>7. e \o <<Return, Newline>> = Append(Append(e, Return), Newline)
  BY <1>5, <1>6
<1>. QED  BY <1>4, <1>7 DEF e

IsWritten(run, map) ==
    /\ run[0] = <<>>
    /\ \A k \in 1..Len(KeySeq(map)) : run[k] = run[k - 1] \o LineOf(map, KeySeq(map)[k])

LEMMA LinesOfMap ==
    ASSUME NEW map, IsMap(map)
    PROVE  \A k \in 1..Len(KeySeq(map)) : LineOf(map, KeySeq(map)[k]) \in Seq(FieldChar)
<1>. SUFFICES ASSUME NEW k \in 1..Len(KeySeq(map))
     PROVE  LineOf(map, KeySeq(map)[k]) \in Seq(FieldChar)
  OBVIOUS
<1>. DEFINE key == KeySeq(map)[k]
            e == Entry(map, key)
<1>1. key \in DOMAIN map
  BY KeySeqFacts
<1>. HIDE DEF key
<1>2. e \in Seq(FieldChar) /\ LineOf(map, key) = Append(Append(e, Return), Newline)
  BY <1>1, EntryHasNo, LineOfIs
<1>3. Return \in FieldChar /\ Newline \in FieldChar
  BY CharFacts
<1>. HIDE DEF e, FieldChar
<1>. QED  BY <1>2, <1>3, TextAppend DEF key

LEMMA FormatRun ==
    ASSUME NEW map, IsMap(map)
    PROVE  \E run \in [0..Len(KeySeq(map)) -> Seq(FieldChar)] :
               IsWritten(run, map) /\ Format(map) = run[Len(KeySeq(map))]
<1>. DEFINE n == Len(KeySeq(map))
            A == Seq(FieldChar)
            base == <<>>
            step == [x \in A \X (1..n) |-> x[1] \o LineOf(map, KeySeq(map)[x[2]])]
            Rest(f) == [k \in 0..n |->
                IF k = 0 THEN base ELSE f[k - 1] \o LineOf(map, KeySeq(map)[k])]
            F == CHOOSE f : f = Rest(f)
<1>1. n \in Nat /\ base \in A /\ \A k \in 1..n : k - 1 \in 0..n /\ k # 0 /\ k \in 0..n
  BY KeySeqFacts
<1>2. step \in [A \X (1..n) -> A]
  <2>1. \A k \in 1..n : LineOf(map, KeySeq(map)[k]) \in Seq(FieldChar)
    BY LinesOfMap
  <2>. HIDE DEF n, FieldChar
  <2>2. \A z \in Seq(FieldChar), k \in 1..n : z \o LineOf(map, KeySeq(map)[k]) \in Seq(FieldChar)
    BY <2>1, TextConcat
  <2>. QED  BY <2>2
<1>3. \A z \in A, k \in 1..n : step[<<z, k>>] = z \o LineOf(map, KeySeq(map)[k])
  OBVIOUS
<1>4. PICK g \in [0..n -> A] : IsRun(g, n, base, step)
  <2>. HIDE DEF base, step, A, n
  <2>. QED  BY <1>1, <1>2, Loop
<1>5. g[0] = base /\ \A k \in 1..n : g[k] = step[<<g[k - 1], k>>]
  BY <1>4 DEF IsRun
<1>6. \A k \in 1..n : g[k] = g[k - 1] \o LineOf(map, KeySeq(map)[k])
  <2>. HIDE DEF base, step, A, n
  <2>. QED  BY <1>1, <1>3, <1>4, <1>5
<1>7. g = Rest(g)
  <2>1. \A k \in 0..n : k = 0 \/ k \in 1..n
    BY <1>1
  <2>. HIDE DEF base, step, A, n
  <2>2. \A k \in 0..n : g[k] = Rest(g)[k]
    BY <1>1, <1>5, <1>6, <2>1
  <2>. QED  BY <1>4, <2>2
<1>8. F = Rest(F)
  BY <1>7
<1>9. n \in 0..n /\ 0 \in 0..n
  BY <1>1
<1>10. Format(map) = F[n]
  BY DEF Format, KeySeq, LineOf
<1>. HIDE DEF base, step, A, n, F
<1>11. F[n] = g[n]
  <2>1. F[0] = g[0]
    BY <1>5, <1>8, <1>9
  <2>2. ASSUME NEW k \in 1..n, F[k - 1] = g[k - 1] PROVE F[k] = g[k]
    <3>1. Rest(F)[k] = F[k - 1] \o LineOf(map, KeySeq(map)[k])
      BY <1>1
    <3>2. F[k] = Rest(F)[k]
      BY <1>8
    <3>. QED  BY <1>6, <2>2, <3>1, <3>2
  <2>. HIDE DEF Rest
  <2>3. GoOnAlike(n, F, g)
    BY <2>1, <2>2 DEF GoOnAlike
  <2>4. n \in Nat
    BY <1>1
  <2>5. \A k \in 0..n : F[k] = g[k]
    BY <2>3, <2>4, SameRuns
  <2>. QED  BY <1>9, <2>5
<1>12. IsWritten(g, map)
  BY <1>5, <1>6 DEF IsWritten, n, base
<1>. QED  BY <1>4, <1>10, <1>11, <1>12 DEF n, A

LEMMA FormatIsText ==
    ASSUME NEW map, IsMap(map)
    PROVE  Format(map) \in Seq(FieldChar)
<1>. DEFINE n == Len(KeySeq(map))
<1>1. PICK run \in [0..n -> Seq(FieldChar)] : Format(map) = run[n]
  BY FormatRun
<1>2. n \in 0..n
  BY KeySeqFacts
<1>. QED  BY <1>1, <1>2

-----------------------------------------------------------------------------
(* What is written is a line for each key, and nothing after the last.     *)
HasLines(v, map, k) ==
    /\ Len(v) = k + 1 /\ v[k + 1] = <<>>
    /\ \A j \in 1..k : v[j] = Append(Entry(map, KeySeq(map)[j]), Return)

LEMMA OneMoreLine ==
    ASSUME NEW map, IsMap(map), NEW k \in 1..Len(KeySeq(map)), NEW s \in Seq(FieldChar),
           HasLines(SplitLines(s), map, k - 1), IsPlain(s)
    PROVE  /\ HasLines(SplitLines(s \o LineOf(map, KeySeq(map)[k])), map, k)
           /\ IsPlain(s \o LineOf(map, KeySeq(map)[k]))
<1>. DEFINE key == KeySeq(map)[k]
            e == Entry(map, key)
            line == Append(e, Return)
            v == SplitLines(s)
            t == s \o line
            w == SplitLines(t)
            u == Append(t, Newline)
<1>1. k \in Nat /\ k >= 1 /\ key \in DOMAIN map
  BY KeySeqFacts
<1>2. e \in Seq(FieldChar) /\ HasNo(e, Newline) /\ HasNo(e, Return)
  <2>. HIDE DEF key
  <2>. QED  BY <1>1, EntryHasNo
<1>3. Return \in FieldChar /\ Newline \in FieldChar /\ Newline # Return
  BY CharFacts
<1>. HIDE DEF FieldChar
<1>4. LineOf(map, key) = Append(line, Newline)
  <2>. HIDE DEF key
  <2>. QED  BY <1>1, LineOfIs
<1>5. line \in Seq(FieldChar) /\ HasNo(line, Newline)
  <2>. HIDE DEF e
  <2>1. line \in Seq(FieldChar)
    BY <1>2, <1>3, TextAppend
  <2>2. HasNo(line, Newline)
    BY <1>2, <1>3, HasNoAppend
  <2>. QED  BY <2>1, <2>2
<1>. HIDE DEF line
<1>6. t \in Seq(FieldChar) /\ s \o LineOf(map, key) = u
  BY <1>3, <1>4, <1>5, ConcatAppend, TextConcat
<1>7. IsLonger(w, v, line)
  BY <1>5, SplitMore
<1>8. v \in LinesOf(FieldChar) /\ w \in LinesOf(FieldChar)
  <2>. HIDE DEF t
  <2>. QED  BY <1>6, SplitIsLines
<1>9. SplitLines(u) = Append(w, <<>>)
  <2>. HIDE DEF t, Newline
  <2>1. SplitLines(u) = GoOn(w, Newline)
    BY <1>3, <1>6, SplitAppend
  <2>. QED  BY <2>1 DEF GoOn
<1>10. /\ Len(v) = k /\ v[k] = <<>>
       /\ \A j \in 1..k - 1 : v[j] = Append(Entry(map, KeySeq(map)[j]), Return)
  <2>1. Len(v) = (k - 1) + 1 /\ v[(k - 1) + 1] = <<>> /\ (k - 1) + 1 = k
    BY <1>1 DEF HasLines
  <2>2. \A j \in 1..k - 1 : v[j] = Append(Entry(map, KeySeq(map)[j]), Return)
    BY DEF HasLines
  <2>. HIDE DEF v
  <2>. QED  BY <2>1, <2>2
<1>. HIDE DEF v, w
<1>11. Len(w) = k /\ w[k] = line /\ \A j \in 1..k - 1 : w[j] = v[j]
  <2>1. \A j \in 1..k - 1 : j \in 1..k /\ j # k
    BY <1>1
  <2>2. k \in 1..k
    BY <1>1
  <2>3. <<>> \o line = line
    BY <1>5
  <2>. QED  BY <1>7, <1>10, <2>1, <2>2, <2>3 DEF IsLonger
<1>12. HasLines(Append(w, <<>>), map, k)
  <2>. DEFINE x == Append(w, <<>>)
  <2>1. w \in Seq(Seq(FieldChar)) /\ <<>> \in Seq(FieldChar)
    BY <1>8 DEF LinesOf
  <2>2. Len(x) = Len(w) + 1 /\ x[Len(w) + 1] = <<>> /\ \A j \in 1..Len(w) : x[j] = w[j]
    BY <2>1, TextAppend
  <2>. HIDE DEF x
  <2>3. \A j \in 1..k : j = k \/ j \in 1..k - 1
    BY <1>1
  <2>4. w[k] = Append(Entry(map, KeySeq(map)[k]), Return)
    BY <1>11 DEF line
  <2>5. \A j \in 1..k : x[j] = Append(Entry(map, KeySeq(map)[j]), Return)
    BY <1>10, <1>11, <2>2, <2>3, <2>4
  <2>6. Len(x) = k + 1 /\ x[k + 1] = <<>>
    BY <1>11, <2>2
  <2>. QED  BY <2>5, <2>6 DEF HasLines, x
<1>13. IsPlain(u)
  <2>. DEFINE n == Len(s)
              m == Len(e)
  <2>1. /\ Len(line) = m + 1 /\ m \in Nat /\ line[m + 1] = Return /\ \A i \in 1..m : line[i] = e[i]
    <3>. HIDE DEF e
    <3>. QED  BY <1>2, <1>3, TextAppend DEF line
  <2>2. /\ Len(t) = n + Len(line) /\ n \in Nat /\ (\A i \in 1..n : t[i] = s[i])
        /\ (\A i \in 1..Len(line) : t[n + i] = line[i])
        /\ \A i \in 1..Len(t) : i \in 1..n \/ (i - n \in 1..Len(line) /\ i = n + (i - n))
    BY <1>5, TextConcat
  <2>. HIDE DEF t, e, n, m
  <2>3. Len(u) = Len(t) + 1 /\ u[Len(t) + 1] = Newline /\ \A i \in 1..Len(t) : u[i] = t[i]
    BY <1>3, <1>6, TextAppend
  <2>4. u \in Seq(FieldChar) /\ DOMAIN u = 1..Len(u)
    BY <1>3, <1>6, TextAppend
  <2>. HIDE DEF u
  <2>. DEFINE len == Len(t)
  <2>5. len = n + m + 1 /\ len \in Nat
    BY <2>1, <2>2
  <2>. SUFFICES ASSUME NEW i \in 1..len + 1, u[i] = Return
       PROVE  i < len + 1 /\ u[i + 1] = Newline
    BY <2>3, <2>4 DEF IsPlain
  <2>6. i # len + 1
    BY <1>3, <2>3
  <2>7. i \in 1..len /\ t[i] = Return /\ i < len + 1
    BY <2>3, <2>5, <2>6
  <2>8. CASE i \in 1..n
    <3>1. s[i] = Return /\ i \in DOMAIN s
      BY <2>2, <2>7, <2>8 DEF n
    <3>2. i < n /\ s[i + 1] = Newline
      BY <3>1 DEF IsPlain, n
    <3>3. i + 1 \in 1..n /\ i + 1 \in 1..len
      BY <2>2, <2>5, <2>7, <2>8, <3>2
    <3>. QED  BY <2>2, <2>3, <2>7, <3>2, <3>3
  <2>9. CASE i \notin 1..n
    <3>1. i - n \in 1..m + 1 /\ i = n + (i - n)
      BY <2>1, <2>2, <2>7, <2>9
    <3>2. line[i - n] = Return
      BY <2>1, <2>2, <2>7, <3>1
    <3>3. i - n \notin 1..m
      BY <1>2, <2>1, <3>2 DEF HasNo, m
    <3>4. i = len
      BY <2>1, <2>2, <2>5, <2>7, <3>1, <3>3
    <3>. QED  BY <2>3, <2>7, <3>4
  <2>. QED  BY <2>8, <2>9
<1>. QED  BY <1>6, <1>9, <1>12, <1>13

LEMMA FormatLines ==
    ASSUME NEW map, IsMap(map)
    PROVE  HasLines(SplitLines(Format(map)), map, Len(KeySeq(map))) /\ IsPlain(Format(map))
<1>. DEFINE n == Len(KeySeq(map))
            Fine(s, k) == HasLines(SplitLines(s), map, k) /\ IsPlain(s)
<1>1. PICK run \in [0..n -> Seq(FieldChar)] : IsWritten(run, map) /\ Format(map) = run[n]
  BY FormatRun
<1>2. n \in Nat
  BY KeySeqFacts
<1>. DEFINE T == {k \in 0..n : Fine(run[k], k)}
<1>3. 0 \in T
  <2>1. run[0] = <<>>
    BY <1>1 DEF IsWritten
  <2>2. SplitLines(<<>>) = <<<<>>>>
    BY SplitNone
  <2>3. HasLines(<<<<>>>>, map, 0)
    BY DEF HasLines
  <2>4. IsPlain(<<>>)
    BY DEF IsPlain
  <2>. QED  BY <1>2, <2>1, <2>2, <2>3, <2>4
<1>4. ASSUME NEW k \in 1..n, k - 1 \in T PROVE k \in T
  <2>1. k - 1 \in 0..n /\ k \in 0..n /\ run[k - 1] \in Seq(FieldChar) /\ k \in 1..Len(KeySeq(map))
    BY <1>1, <1>4
  <2>2. run[k] = run[k - 1] \o LineOf(map, KeySeq(map)[k])
    BY <1>1, <2>1 DEF IsWritten
  <2>3. HasLines(SplitLines(run[k - 1]), map, k - 1) /\ IsPlain(run[k - 1])
    BY <1>4
  <2>. DEFINE s == run[k - 1]
  <2>4. s \in Seq(FieldChar) /\ HasLines(SplitLines(s), map, k - 1) /\ IsPlain(s)
    BY <2>1, <2>3
  <2>. HIDE DEF s
  <2>5. Fine(s \o LineOf(map, KeySeq(map)[k]), k)
    BY <2>1, <2>4, OneMoreLine
  <2>6. Fine(run[k], k)
    BY <2>2, <2>5 DEF s
  <2>. QED  BY <2>1, <2>6
<1>. HIDE DEF T, n
<1>5. 0..n \subseteq T
  BY <1>2, <1>3, <1>4, CountUp
<1>6. n \in T
  BY <1>2, <1>5
<1>. QED  BY <1>1, <1>6 DEF T, n

-----------------------------------------------------------------------------
(* What is written is read back.                                           *)
LineAt(field, k) == Without(SplitLines(field)[k], {Return})

LEMMA EntriesAre ==
    ASSUME NEW field
    PROVE  /\ DOMAIN Entries(field) = {k \in DOMAIN SplitLines(field) : LineAt(field, k) # <<>>}
           /\ \A k \in DOMAIN Entries(field) :
                  /\ Entries(field)[k].key = Without(LineAt(field, k), Digits)
                  /\ Entries(field)[k].digits =
                         Without(LineAt(field, k), ToSet(LineAt(field, k)) \ Digits)
<1>. DEFINE lines == SplitLines(field)
            all == {k \in DOMAIN lines : LineAt(field, k) # <<>>}
            entries == [k \in all |->
                           [key |-> Without(LineAt(field, k), Digits),
                            digits |-> Without(LineAt(field, k), ToSet(LineAt(field, k)) \ Digits)]]
<1>1. Entries(field) = entries
  <2>. DEFINE line == [k \in DOMAIN lines |-> Without(lines[k], {Return})]
  <2>1. \A k \in DOMAIN lines : line[k] = LineAt(field, k)
    BY DEF LineAt
  <2>2. Entries(field) =
            [k \in {k \in DOMAIN lines : line[k] # <<>>} |->
                [key |-> Without(line[k], Digits),
                 digits |-> Without(line[k], ToSet(line[k]) \ Digits)]]
    BY DEF Entries
  <2>. HIDE DEF line, lines
  <2>3. {k \in DOMAIN lines : line[k] # <<>>} = all
    BY <2>1
  <2>. QED  BY <2>1, <2>2, <2>3
<1>. QED  BY <1>1

LEMMA EntrySplits ==
    ASSUME NEW map, IsMap(map), NEW key \in DOMAIN map
    PROVE  LET e == Entry(map, key) IN
           Without(e, Digits) = key /\ Without(e, ToSet(e) \ Digits) = DigitsOf[map[key]]
<1>. DEFINE d == DigitsOf[map[key]]
            e == key \o d
            others == ToSet(e) \ Digits
<1>1. /\ key \in Seq(FieldChar) /\ d \in Seq(FieldChar)
      /\ \A i \in 1..Len(key) : key[i] \in Letters
      /\ \A i \in 1..Len(d) : d[i] \in Digits
  BY EntryFacts
<1>2. Entry(map, key) = e
  BY DEF Entry
<1>3. \A c \in Letters : c \notin Digits
  BY CharFacts
<1>. HIDE DEF d, FieldChar, Digits
<1>4. \A i \in 1..Len(key) : key[i] \in others
  <2>1. e \in Seq(FieldChar) /\ Len(e) = Len(key) + Len(d) /\ Len(key) \in Nat /\ Len(d) \in Nat
        /\ \A i \in 1..Len(key) : e[i] = key[i]
    BY <1>1, TextConcat
  <2>. HIDE DEF e
  <2>2. \A i \in 1..Len(key) : i \in DOMAIN e
    BY <2>1
  <2>3. \A i \in 1..Len(key) : key[i] \in ToSet(e)
    BY <2>1, <2>2 DEF ToSet
  <2>. QED  BY <1>1, <1>3, <2>3
<1>5. \A i \in 1..Len(d) : d[i] \notin others
  BY <1>1
<1>. HIDE DEF others
<1>6. Without(key, Digits) = key /\ Without(d, Digits) = <<>>
  BY <1>1, <1>3, WithoutOthers, WithoutAll
<1>7. Without(key, others) = <<>> /\ Without(d, others) = d
  BY <1>1, <1>4, <1>5, WithoutOthers, WithoutAll
<1>8. Without(e, Digits) = key \o <<>> /\ Without(e, others) = <<>> \o d
  <2>1. Without(key \o d, Digits) = Without(key, Digits) \o Without(d, Digits)
    BY <1>1, WithoutConcat
  <2>2. Without(key \o d, others) = Without(key, others) \o Without(d, others)
    BY <1>1, WithoutConcat
  <2>. QED  BY <1>6, <1>7, <2>1, <2>2
<1>9. key \o <<>> = key /\ <<>> \o d = d
  BY <1>1
<1>. QED  BY <1>2, <1>8, <1>9 DEF d, others

LEMMA FormatEntries ==
    ASSUME NEW map, IsMap(map)
    PROVE  LET n == Len(KeySeq(map)) IN
           /\ DOMAIN SplitLines(Format(map)) = 1..n + 1
           /\ \A k \in 1..n + 1 : HasNo(TrimEnd(SplitLines(Format(map))[k]), Return)
           /\ DOMAIN Entries(Format(map)) = 1..n
           /\ \A k \in 1..n : /\ Entries(Format(map))[k].key = KeySeq(map)[k]
                              /\ Entries(Format(map))[k].digits = DigitsOf[map[KeySeq(map)[k]]]
<1>. DEFINE n == Len(KeySeq(map))
            f == Format(map)
            v == SplitLines(f)
<1>1. HasLines(v, map, n) /\ v \in LinesOf(FieldChar)
  BY FormatLines, FormatIsText, SplitIsLines
<1>2. n \in Nat /\ \A k \in 1..n : KeySeq(map)[k] \in DOMAIN map
  BY KeySeqFacts
<1>3. DOMAIN v = 1..n + 1 /\ v[n + 1] = <<>>
      /\ \A k \in 1..n : v[k] = Append(Entry(map, KeySeq(map)[k]), Return)
  <2>1. DOMAIN v = 1..Len(v)
    BY <1>1, LineFacts
  <2>. HIDE DEF v, n
  <2>. QED  BY <1>1, <2>1 DEF HasLines
<1>. HIDE DEF v, n
<1>4. ASSUME NEW k \in 1..n
      PROVE  /\ Without(v[k], {Return}) = Entry(map, KeySeq(map)[k])
             /\ HasNo(TrimEnd(v[k]), Return)
  <2>. DEFINE key == KeySeq(map)[k]
              e == Entry(map, key)
              l == Append(e, Return)
  <2>1. key \in DOMAIN map
    BY <1>2
  <2>. HIDE DEF key
  <2>2. e \in Seq(FieldChar) /\ HasNo(e, Return)
    BY <2>1, EntryHasNo
  <2>3. Return \in FieldChar
    BY CharFacts
  <2>4. v[k] = l
    BY <1>3 DEF key
  <2>. HIDE DEF e, FieldChar
  <2>5. Without(e, {Return}) = e
    <3>1. \A i \in 1..Len(e) : e[i] \notin {Return}
      BY <2>2 DEF HasNo
    <3>. QED  BY <2>2, <3>1, WithoutOthers
  <2>6. Without(l, {Return}) = e
    <3>1. Without(l, {Return}) =
              IF Return \in {Return} THEN Without(e, {Return})
              ELSE Append(Without(e, {Return}), Return)
      BY <2>2, <2>3, WithoutAppend
    <3>. QED  BY <2>5, <3>1
  <2>7. /\ Len(l) = Len(e) + 1 /\ Len(e) \in Nat /\ l \in Seq(FieldChar)
        /\ \A i \in 1..Len(e) : l[i] = e[i]
    BY <2>2, <2>3, TextAppend
  <2>8. EndsInReturn(l)
    <3>. HIDE DEF l
    <3>1. \A i \in 1..Len(l) : i \in 1..Len(e) \/ i = Len(l)
      BY <2>7
    <3>. QED  BY <2>2, <2>7, <3>1 DEF EndsInReturn, HasNo
  <2>9. TrimEnd(l) = e
    <3>. HIDE DEF l
    <3>. QED  BY <2>6, <2>7, <2>8, TrimReturn
  <2>. HIDE DEF l
  <2>. QED  BY <2>2, <2>4, <2>6, <2>9 DEF e, key
<1>5. Without(v[n + 1], {Return}) = <<>> /\ HasNo(TrimEnd(v[n + 1]), Return)
  <2>1. <<>> \in Seq(FieldChar) /\ \A i \in 1..Len(<<>>) : <<>>[i] # Return
    OBVIOUS
  <2>2. TrimEnd(<<>>) = <<>>
    BY <2>1, TrimNothing
  <2>3. HasNo(<<>>, Return)
    BY DEF HasNo
  <2>. QED  BY <1>3, <2>2, <2>3, WithoutNone
<1>6. \A k \in 1..n + 1 : k \in 1..n \/ k = n + 1
  BY <1>2
<1>7. \A k \in 1..n : k \in 1..n + 1 /\ k # n + 1
  BY <1>2
<1>8. \A k \in 1..n + 1 : HasNo(TrimEnd(v[k]), Return)
  BY <1>4, <1>5, <1>6
<1>9. \A k \in 1..n : LineAt(f, k) = Entry(map, KeySeq(map)[k]) /\ LineAt(f, k) # <<>>
  BY <1>2, <1>4, EntryHasNo DEF LineAt, v
<1>10. LineAt(f, n + 1) = <<>>
  BY <1>5 DEF LineAt, v
<1>11. DOMAIN Entries(f) = 1..n
  <2>1. DOMAIN Entries(f) = {k \in 1..n + 1 : LineAt(f, k) # <<>>}
    BY <1>3, EntriesAre DEF v
  <2>. HIDE DEF f
  <2>. QED  BY <1>6, <1>7, <1>9, <1>10, <2>1
<1>12. ASSUME NEW k \in 1..n
       PROVE  /\ Entries(f)[k].key = KeySeq(map)[k]
              /\ Entries(f)[k].digits = DigitsOf[map[KeySeq(map)[k]]]
  <2>. DEFINE key == KeySeq(map)[k]
              e == Entry(map, key)
  <2>1. key \in DOMAIN map /\ LineAt(f, k) = e
    BY <1>2, <1>9
  <2>2. /\ Entries(f)[k].key = Without(e, Digits)
        /\ Entries(f)[k].digits = Without(e, ToSet(e) \ Digits)
    BY <1>11, <2>1, EntriesAre
  <2>. HIDE DEF key
  <2>3. Without(e, Digits) = key /\ Without(e, ToSet(e) \ Digits) = DigitsOf[map[key]]
    BY <2>1, EntrySplits
  <2>. QED  BY <2>2, <2>3 DEF key
<1>. QED  BY <1>3, <1>8, <1>11, <1>12 DEF n, v

LEMMA FormatReadBack ==
    ASSUME NEW map, IsMap(map)
    PROVE  IsValid(Format(map)) /\ Parsed(Format(map)) = map
<1>. DEFINE f == Format(map)
            n == Len(KeySeq(map))
            K == KeySeq(map)
            entries == Entries(f)
            v == SplitLines(f)
<1>1. /\ DOMAIN v = 1..n + 1
      /\ \A k \in 1..n + 1 : HasNo(TrimEnd(v[k]), Return)
      /\ DOMAIN entries = 1..n
      /\ \A k \in 1..n : entries[k].key = K[k] /\ entries[k].digits = DigitsOf[map[K[k]]]
  BY FormatEntries
<1>2. /\ n \in Nat
      /\ \A k \in 1..n : K[k] \in DOMAIN map /\ map[K[k]] \in 0..MaxTarget
      /\ \A i, j \in 1..n : K[i] = K[j] => i = j
      /\ \A key \in DOMAIN map : \E k \in 1..n : K[k] = key
  BY KeySeqFacts
<1>3. \A k \in 1..n : /\ DigitsOf[map[K[k]]] # <<>>
                      /\ Number(DigitsOf[map[K[k]]]) = map[K[k]]
  <2>. HIDE DEF K, n
  <2>. QED  BY <1>2, DigitsReadBack
<1>4. map = [key \in DOMAIN map |-> map[key]]
  BY DEF IsMap
<1>5. \A k \in 1..n + 1 : TrimEnd(v[k]) \in Seq(FieldChar)
  <2>1. v \in LinesOf(FieldChar)
    BY FormatIsText, SplitIsLines
  <2>2. /\ SplitNewlineGlob(f) \in LinesOf(FieldChar)
        /\ SplitNewlineGlob(f) = [k \in DOMAIN v |-> TrimEnd(v[k])]
    BY FormatIsText, GlobIsLines DEF SplitNewlineGlob
  <2>3. Len(SplitNewlineGlob(f)) = n + 1
    <3>1. DOMAIN SplitNewlineGlob(f) = 1..n + 1
      BY <1>1, <2>2
    <3>2. /\ DOMAIN SplitNewlineGlob(f) = 1..Len(SplitNewlineGlob(f))
          /\ Len(SplitNewlineGlob(f)) \in Nat
      BY <2>2, LineFacts
    <3>. QED  BY <1>2, <3>1, <3>2
  <2>. HIDE DEF n, v, f
  <2>4. \A k \in 1..n + 1 : SplitNewlineGlob(f)[k] \in Seq(FieldChar)
    BY <2>2, <2>3, LineFacts
  <2>. QED  BY <1>1, <2>2, <2>4
<1>. HIDE DEF K, n, entries, v
<1>6. \A k \in DOMAIN v : Return \notin ToSet(TrimEnd(v[k]))
  <2>. SUFFICES ASSUME NEW k \in 1..n + 1 PROVE Return \notin ToSet(TrimEnd(v[k]))
    BY <1>1
  <2>. DEFINE l == TrimEnd(v[k])
  <2>1. l \in Seq(FieldChar) /\ HasNo(l, Return)
    BY <1>1, <1>5
  <2>. HIDE DEF l
  <2>2. Return \notin ToSet(l)
    BY <2>1 DEF HasNo, ToSet
  <2>. QED  BY <2>2 DEF l
<1>7. \A k \in DOMAIN entries : entries[k].digits # <<>> /\ Number(entries[k].digits) <= MaxTarget
  <2>. SUFFICES ASSUME NEW k \in 1..n
       PROVE  entries[k].digits # <<>> /\ Number(entries[k].digits) <= MaxTarget
    BY <1>1
  <2>1. Number(entries[k].digits) = map[K[k]] /\ entries[k].digits # <<>>
    BY <1>1, <1>3
  <2>2. map[K[k]] <= MaxTarget
    BY <1>2, FieldAssumption
  <2>. QED  BY <2>1, <2>2
<1>8. \A j, k \in DOMAIN entries : entries[j].key = entries[k].key => j = k
  BY <1>1, <1>2
<1>9. IsValid(f)
  BY <1>6, <1>7, <1>8 DEF IsValid, v, entries
<1>10. Keys(entries) = DOMAIN map
  <2>1. Keys(entries) = {K[k] : k \in 1..n}
    BY <1>1 DEF Keys
  <2>. QED  BY <1>2, <2>1
<1>11. ASSUME NEW key \in DOMAIN map
       PROVE  Number(entries[CHOOSE k \in DOMAIN entries : entries[k].key = key].digits) = map[key]
  <2>. DEFINE place == CHOOSE k \in DOMAIN entries : entries[k].key = key
  <2>1. \E k \in DOMAIN entries : entries[k].key = key
    <3>1. PICK k \in 1..n : K[k] = key
      BY <1>2
    <3>2. k \in DOMAIN entries /\ entries[k].key = key
      BY <1>1, <3>1
    <3>. QED  BY <3>2
  <2>2. place \in DOMAIN entries /\ entries[place].key = key
    BY <2>1
  <2>. HIDE DEF place
  <2>3. K[place] = key /\ Number(entries[place].digits) = map[K[place]]
    BY <1>1, <1>3, <2>2
  <2>. QED  BY <2>3 DEF place
<1>12. Parsed(f) = [key \in Keys(entries) |->
            Number(entries[CHOOSE k \in DOMAIN entries : entries[k].key = key].digits)]
  BY DEF Parsed, entries
<1>13. Parsed(f) = map
  BY <1>4, <1>10, <1>11, <1>12
<1>. QED  BY <1>9, <1>13

-----------------------------------------------------------------------------
(* What is read are shortcuts.                                             *)
LEMMA LinesHaveNoNewline ==
    ASSUME NEW Char, NEW s \in Seq(Char)
    PROVE  \A k \in 1..Len(SplitLines(s)) : HasNo(SplitLines(s)[k], Newline)
<1>. DEFINE Good(v) == \A k \in 1..Len(v) : HasNo(v[k], Newline)
            P == {t \in Seq(Char) : Good(SplitLines(t))}
<1>1. <<>> \in P
  <2>1. SplitLines(<<>>) = <<<<>>>>
    BY SplitNone
  <2>2. \A k \in 1..Len(<<<<>>>>) : <<<<>>>>[k] = <<>>
    OBVIOUS
  <2>3. HasNo(<<>>, Newline)
    BY DEF HasNo
  <2>4. Good(<<<<>>>>)
    BY <2>2, <2>3
  <2>. QED  BY <2>1, <2>4
<1>2. ASSUME NEW t \in Seq(Char), NEW c \in Char, t \in P PROVE Append(t, c) \in P
  <2>. DEFINE v == SplitLines(t)
              w == GoOn(v, c)
  <2>1. SplitLines(Append(t, c)) = w /\ v \in LinesOf(Char) /\ Append(t, c) \in Seq(Char)
    <3>. HIDE DEF P
    <3>. QED  BY SplitAppend, TextAppend
  <2>2. Good(v)
    BY <1>2
  <2>. HIDE DEF v
  <2>3. v \in Seq(Seq(Char)) /\ Len(v) \in Nat /\ \A k \in 1..Len(v) : v[k] \in Seq(Char)
    <3>. HIDE DEF P
    <3>. QED  BY <2>1, LineFacts
  <2>4. CASE c = Newline
    <3>1. w = Append(v, <<>>) /\ <<>> \in Seq(Char)
      BY <2>4 DEF GoOn
    <3>2. /\ Len(w) = Len(v) + 1 /\ w[Len(v) + 1] = <<>>
          /\ \A k \in 1..Len(v) : w[k] = v[k]
      <4>. HIDE DEF P, w
      <4>. QED  BY <2>3, <3>1, TextAppend
    <3>. HIDE DEF w
    <3>3. \A k \in 1..Len(w) : k \in 1..Len(v) \/ k = Len(v) + 1
      BY <2>3, <3>2
    <3>4. HasNo(<<>>, Newline)
      BY DEF HasNo
    <3>5. Good(w)
      BY <2>2, <3>2, <3>3, <3>4
    <3>. QED  BY <2>1, <3>5
  <2>5. CASE c # Newline
    <3>1. /\ Len(w) = Len(v)
          /\ \A k \in 1..Len(v) : w[k] = IF k = Len(v) THEN Append(v[k], c) ELSE v[k]
      <4>. HIDE DEF P
      <4>. QED  BY <2>1, <2>5, GoesOn
    <3>. HIDE DEF w
    <3>2. ASSUME NEW k \in 1..Len(v) PROVE HasNo(w[k], Newline)
      <4>. DEFINE l == v[k]
      <4>1. l \in Seq(Char) /\ HasNo(l, Newline)
        BY <2>2, <2>3
      <4>. HIDE DEF l, P
      <4>2. HasNo(Append(l, c), Newline)
        BY <2>5, <4>1, HasNoAppend
      <4>. QED  BY <3>1, <4>1, <4>2 DEF l
    <3>3. Good(w)
      BY <3>1, <3>2
    <3>. QED  BY <2>1, <3>3
  <2>. QED  BY <2>4, <2>5
<1>3. s \in P
  <2>. HIDE DEF P
  <2>. QED  BY <1>1, <1>2, BuildUp
<1>. QED  BY <1>3

LEMMA WithoutChars ==
    ASSUME NEW Char, NEW s \in Seq(Char), NEW cs, NEW B, Char \ cs \subseteq B
    PROVE  Without(s, cs) \in Seq(B)
<1>. DEFINE w == Without(s, cs)
<1>1. w \in Seq(Char) /\ \A i \in 1..Len(w) : w[i] \notin cs
  BY WithoutIsText, NoneLeft
<1>. HIDE DEF w
<1>2. \A i \in 1..Len(w) : w[i] \in B
  BY <1>1
<1>3. w \in Seq(B)
  BY <1>1, <1>2
<1>. QED  BY <1>3 DEF w

LEMMA EntriesRead ==
    ASSUME NEW field \in Seq(FieldChar)
    PROVE  /\ IsFiniteSet(DOMAIN Entries(field))
           /\ \A k \in DOMAIN Entries(field) :
                  /\ Entries(field)[k].key \in Seq(Letters)
                  /\ Entries(field)[k].digits \in Seq(Digits)
<1>. DEFINE v == SplitLines(field)
            entries == Entries(field)
<1>1. v \in LinesOf(FieldChar) /\ \A k \in 1..Len(v) : HasNo(v[k], Newline)
  <2>. HIDE DEF FieldChar
  <2>. QED  BY SplitIsLines, LinesHaveNoNewline
<1>2. DOMAIN v = 1..Len(v) /\ Len(v) \in Nat /\ \A k \in 1..Len(v) : v[k] \in Seq(FieldChar)
  BY <1>1, LineFacts
<1>3. /\ DOMAIN entries = {k \in DOMAIN v : LineAt(field, k) # <<>>}
      /\ \A k \in DOMAIN entries :
             /\ entries[k].key = Without(LineAt(field, k), Digits)
             /\ entries[k].digits = Without(LineAt(field, k), ToSet(LineAt(field, k)) \ Digits)
  BY EntriesAre
<1>. HIDE DEF entries
<1>4. IsFiniteSet(DOMAIN entries)
  <2>. DEFINE m == Len(v)
  <2>1. 1 \in Int /\ m \in Int
    BY <1>2
  <2>2. DOMAIN entries \in SUBSET (1..m)
    BY <1>2, <1>3
  <2>. HIDE DEF m
  <2>3. IsFiniteSet(1..m)
    BY <2>1, FS_Interval
  <2>. QED  BY <2>2, <2>3, FS_Subset
<1>5. ASSUME NEW k \in DOMAIN entries
      PROVE  entries[k].key \in Seq(Letters) /\ entries[k].digits \in Seq(Digits)
  <2>. DEFINE l == v[k]
              line == LineAt(field, k)
              some == FieldChar \ {Newline}
              others == ToSet(line) \ Digits
  <2>1. l \in Seq(FieldChar) /\ HasNo(l, Newline) /\ line = Without(l, {Return})
    BY <1>1, <1>2, <1>3 DEF LineAt
  <2>2. l \in Seq(some)
    <3>. HIDE DEF l, FieldChar
    <3>1. \A i \in 1..Len(l) : l[i] \in some
      BY <2>1 DEF HasNo
    <3>. HIDE DEF some
    <3>. QED  BY <2>1, <3>1
  <2>3. some \ {Return} \subseteq Letters \cup Digits
    BY DEF FieldChar
  <2>4. line \in Seq(Letters \cup Digits)
    <3>. HIDE DEF some, l, line
    <3>. QED  BY <2>1, <2>2, <2>3, WithoutChars
  <2>5. Without(line, Digits) \in Seq(Letters)
    <3>. HIDE DEF line
    <3>1. (Letters \cup Digits) \ Digits \subseteq Letters
      OBVIOUS
    <3>. QED  BY <2>4, <3>1, WithoutChars
  <2>6. Without(line, others) \in Seq(Digits)
    <3>. HIDE DEF line
    <3>1. line \in Seq(ToSet(line))
      BY <2>4 DEF ToSet
    <3>2. ToSet(line) \ others \subseteq Digits
      OBVIOUS
    <3>. HIDE DEF others
    <3>. QED  BY <3>1, <3>2, WithoutChars
  <2>. QED  BY <1>3, <2>5, <2>6
<1>. QED  BY <1>4, <1>5 DEF entries

LEMMA ParsedIsMap ==
    ASSUME NEW field \in Seq(FieldChar), IsValid(field)
    PROVE  IsMap(Parsed(field))
<1>. DEFINE entries == Entries(field)
            D == DOMAIN entries
            keys == Keys(entries)
            place(key) == CHOOSE k \in D : entries[k].key = key
            value(key) == Number(entries[place(key)].digits)
<1>1. /\ IsFiniteSet(D)
      /\ \A k \in D : entries[k].key \in Seq(Letters) /\ entries[k].digits \in Seq(Digits)
  BY EntriesRead
<1>2. \A k \in D : Number(entries[k].digits) <= MaxTarget
  BY DEF IsValid
<1>3. Parsed(field) = [key \in keys |-> value(key)]
  BY DEF Parsed
<1>. HIDE DEF entries
<1>4. keys = {entries[k].key : k \in D}
  BY DEF Keys
<1>. HIDE DEF keys, D
<1>5. keys \subseteq Seq(Letters)
  BY <1>1, <1>4
<1>6. IsFiniteSet(keys)
  <2>. DEFINE g == [k \in D |-> entries[k].key]
  <2>1. g \in Surjection(D, keys)
    BY <1>4 DEF Surjection
  <2>. QED  BY <1>1, <2>1, FS_Surjection
<1>7. ASSUME NEW key \in keys PROVE value(key) \in 0..MaxTarget
  <2>1. place(key) \in D
    BY <1>4
  <2>. DEFINE d == entries[place(key)].digits
  <2>2. d \in Seq(Digits) /\ Number(d) <= MaxTarget
    BY <1>1, <1>2, <2>1
  <2>. HIDE DEF d
  <2>3. Number(d) \in Nat
    <3>1. PICK run \in [0..Len(d) -> Nat] : Number(d) = run[Len(d)]
      BY <2>2, NumberRun
    <3>2. Len(d) \in 0..Len(d)
      BY <2>2
    <3>. QED  BY <3>1, <3>2
  <2>4. MaxTarget \in Nat
    BY FieldAssumption
  <2>5. Number(d) \in 0..MaxTarget
    BY <2>2, <2>3, <2>4
  <2>. QED  BY <2>5 DEF d
<1>. HIDE DEF value
<1>. QED  BY <1>3, <1>5, <1>6, <1>7 DEF IsMap
-----------------------------------------------------------------------------
(* An end of the selection is never left before a newline.                 *)
IsPlace(field, place) == place \in 0..Len(field) /\ (place > 0 => field[place] # Return)

LEMMA NewSelectionFits ==
    ASSUME NEW Char, NEW field \in Seq(Char), IsPlain(field),
           NEW first \in Nat, NEW past_last \in Nat, first <= past_last
    PROVE  LET range == NewSelection(field, first, past_last) IN
           /\ range = <<range[1], range[2]>> /\ range[1] <= range[2]
           /\ IsPlace(field, range[1]) /\ IsPlace(field, range[2])
<1>. DEFINE L == Len(field)
            start == AtMost(first, L)
            end == AtMost(past_last, L)
            from == IF start = 0 THEN 0 ELSE start - 1
            around == SubSeq(field, from + 1, end)
            splits == around # <<>> /\ Head(around) = Return
            new_start == IF splits /\ start > 0 THEN start - 1 ELSE start
            new_end == IF Len(around) > 1 /\ Last(around) = Return THEN AtMost(end + 1, L)
                       ELSE IF splits /\ Len(around) = 1 THEN end - 1 ELSE end
<1>1. L \in Nat /\ \A i \in 1..L : field[i] = Return => i < L /\ field[i + 1] = Newline
  <2>1. L \in Nat /\ DOMAIN field = 1..L
    OBVIOUS
  <2>. QED  BY <2>1 DEF IsPlain
<1>2. NewSelection(field, first, past_last) = <<new_start, new_end>>
  BY DEF NewSelection
<1>3. Newline # Return
  BY CharFacts
<1>4. start \in 0..L /\ end \in 0..L /\ start <= end
  <2>. HIDE DEF L
  <2>. QED  BY <1>1 DEF AtMost
<1>. HIDE DEF L, start, end, Newline, Return
<1>5. from \in Nat /\ from <= end /\ (from = 0 \/ from = start - 1)
  BY <1>1, <1>4
<1>6. /\ Len(around) = end - from
      /\ around # <<>> <=> end - from > 0
      /\ end - from > 0 => Head(around) = field[from + 1] /\ Last(around) = field[end]
  <2>. HIDE DEF from
  <2>1. around \in Seq(Char) /\ Len(around) = end - from
        /\ \A i \in 1..end - from : around[i] = field[from + i]
    BY <1>1, <1>4, <1>5 DEF L
  <2>. HIDE DEF around
  <2>2. around # <<>> <=> end - from > 0
    BY <1>4, <1>5, <2>1
  <2>3. end - from > 0 => Head(around) = around[1] /\ Last(around) = around[end - from]
    BY <2>1, <2>2 DEF Last
  <2>4. end - from > 0 => /\ 1 \in 1..end - from /\ end - from \in 1..end - from
                          /\ from + (end - from) = end
    BY <1>4, <1>5
  <2>5. end - from > 0 => around[1] = field[from + 1] /\ around[end - from] = field[end]
    BY <2>1, <2>4
  <2>. QED  BY <2>1, <2>2, <2>3, <2>5
<1>. HIDE DEF around
<1>7. CASE start = 0
  <2>1. from = 0 /\ new_start = 0
    BY <1>7
  <2>. HIDE DEF from
  <2>2. splits <=> end > 0 /\ field[1] = Return
    BY <1>4, <1>6, <2>1
  <2>3. Len(around) = end /\ (end > 0 => Last(around) = field[end])
    BY <1>4, <1>6, <2>1
  <2>. HIDE DEF splits
  <2>4. new_end \in 0..L /\ (new_end > 0 => field[new_end] # Return)
    <3>1. CASE end > 1 /\ field[end] = Return
      <4>1. end < L /\ field[end + 1] = Newline
        BY <1>1, <1>4, <3>1
      <4>2. new_end = end + 1
        BY <1>1, <1>4, <2>3, <3>1, <4>1 DEF AtMost
      <4>. QED  BY <1>1, <1>3, <1>4, <4>1, <4>2
    <3>2. CASE ~(end > 1 /\ field[end] = Return)
      <4>1. new_end = IF splits /\ end = 1 THEN end - 1 ELSE end
        BY <1>4, <2>3, <3>2
      <4>. QED  BY <1>1, <1>4, <2>2, <3>2, <4>1
    <3>. QED  BY <3>1, <3>2
  <2>. HIDE DEF new_start, new_end
  <2>. QED  BY <1>1, <1>2, <2>1, <2>4 DEF IsPlace, L
<1>8. CASE start > 0
  <2>1. from = start - 1 /\ from + 1 = start /\ end - from > 0
    BY <1>4, <1>8
  <2>. HIDE DEF from
  <2>2. splits <=> field[start] = Return
    BY <1>4, <1>6, <2>1
  <2>3. Len(around) = end - start + 1 /\ Last(around) = field[end]
    BY <1>4, <1>6, <2>1
  <2>. HIDE DEF splits
  <2>4. new_start \in 0..L /\ (new_start > 0 => field[new_start] # Return) /\ new_start <= end
    <3>1. CASE field[start] = Return
      <4>1. new_start = start - 1
        BY <1>8, <2>2, <3>1
      <4>2. start - 1 > 0 => field[start - 1] # Return
        <5>. SUFFICES ASSUME start - 1 > 0, field[start - 1] = Return PROVE FALSE
          OBVIOUS
        <5>1. start - 1 \in 1..L /\ (start - 1) + 1 = start
          BY <1>1, <1>4
        <5>2. field[start] = Newline
          BY <1>1, <5>1
        <5>. QED  BY <1>3, <3>1, <5>2
      <4>. QED  BY <1>1, <1>4, <1>8, <4>1, <4>2
    <3>2. CASE field[start] # Return
      <4>1. new_start = start
        BY <2>2, <3>2
      <4>. QED  BY <1>1, <1>4, <3>2, <4>1
    <3>. QED  BY <3>1, <3>2
  <2>5. new_end \in 0..L /\ (new_end > 0 => field[new_end] # Return) /\ new_start <= new_end
    <3>1. CASE end > start /\ field[end] = Return
      <4>1. end < L /\ field[end + 1] = Newline
        BY <1>1, <1>4, <3>1
      <4>2. new_end = end + 1
        <5>1. Len(around) > 1
          BY <1>1, <1>4, <2>3, <3>1
        <5>2. new_end = AtMost(end + 1, L)
          BY <2>3, <3>1, <5>1
        <5>. QED  BY <1>1, <1>4, <4>1, <5>2 DEF AtMost
      <4>. HIDE DEF new_end, new_start
      <4>. QED  BY <1>1, <1>3, <1>4, <2>4, <4>1, <4>2
    <3>2. CASE end > start /\ field[end] # Return
      <4>1. new_end = end
        <5>1. Len(around) # 1
          BY <1>1, <1>4, <2>3, <3>2
        <5>. QED  BY <2>3, <3>2, <5>1
      <4>. HIDE DEF new_end, new_start
      <4>. QED  BY <1>1, <1>4, <2>4, <3>2, <4>1
    <3>3. CASE end = start
      <4>1. Len(around) = 1
        BY <1>1, <1>4, <2>3, <3>3
      <4>2. new_end = IF splits THEN end - 1 ELSE end
        BY <4>1
      <4>3. CASE splits
        <5>1. new_end = start - 1 /\ new_start = start - 1
          BY <1>8, <3>3, <4>2, <4>3
        <5>. HIDE DEF new_end, new_start
        <5>. QED  BY <1>1, <1>4, <2>4, <5>1
      <4>4. CASE ~splits
        <5>1. new_end = start /\ new_start = start
          BY <3>3, <4>2, <4>4
        <5>. HIDE DEF new_end, new_start
        <5>. QED  BY <1>1, <1>4, <2>4, <5>1
      <4>. QED  BY <4>3, <4>4
    <3>. QED  BY <1>1, <1>4, <3>1, <3>2, <3>3
  <2>. HIDE DEF new_start, new_end
  <2>. QED  BY <1>1, <1>2, <2>4, <2>5 DEF IsPlace, L
<1>. QED  BY <1>1, <1>4, <1>7, <1>8

-----------------------------------------------------------------------------
(* The field: what it has is text, what the settings have are shortcuts,   *)
(* and unless a message about the text is on its way the field shows them. *)
FieldInv ==
    /\ text \in Seq(FieldChar) /\ IsMap(shortcuts)
    /\ FieldShowsShortcuts
    /\ SelectionOffNewlines

LEMMA SetShortcutsShows ==
    ASSUME FieldInv, NEW map, IsMap(map), SetShortcuts(map)
    PROVE  /\ text' \in Seq(FieldChar)
           /\ IsValid(text') /\ Parsed(text') = map
           /\ SelectionOffNewlines'
<1>1. CASE IsValid(text) /\ Parsed(text) = map
  <2>1. UNCHANGED <<text, selection>>
    BY <1>1 DEF SetShortcuts
  <2>. QED  BY <1>1, <2>1 DEF FieldInv, SelectionOffNewlines
<1>2. CASE ~(IsValid(text) /\ Parsed(text) = map)
  <2>. DEFINE field == Format(map)
              range(f, p) == NewSelection(field, f, p)
  <2>1. text' = field
    BY <1>2 DEF SetShortcuts
  <2>2. PICK first \in 0..Len(text), past_last \in 0..Len(text) :
            first <= past_last /\ selection' = {range(first, past_last)}
    BY <1>2 DEF SetShortcuts, Some
  <2>3. field \in Seq(FieldChar) /\ IsPlain(field) /\ IsValid(field) /\ Parsed(field) = map
    BY FormatIsText, FormatLines, FormatReadBack
  <2>. DEFINE r == range(first, past_last)
  <2>4. first \in Nat /\ past_last \in Nat
    OBVIOUS
  <2>. HIDE DEF field, FieldChar
  <2>5. r[1] <= r[2] /\ IsPlace(field, r[1]) /\ IsPlace(field, r[2])
    BY <2>2, <2>3, <2>4, NewSelectionFits
  <2>. HIDE DEF r, range
  <2>6. selection' = {r}
    BY <2>2 DEF r
  <2>7. r[2] <= Len(field) /\ \A i \in {1, 2} : r[i] > 0 => field[r[i]] # Return
    <3>1. r[2] \in 0..Len(field) /\ Len(field) \in Nat
      BY <2>3, <2>5 DEF IsPlace
    <3>2. r[2] <= Len(field)
      BY <3>1
    <3>. QED  BY <2>5, <3>2 DEF IsPlace
  <2>8. SelectionOffNewlines'
    BY <2>1, <2>5, <2>6, <2>7 DEF SelectionOffNewlines
  <2>. QED  BY <2>1, <2>3, <2>8
<1>. QED  BY <1>1, <1>2

LEMMA EditIsText ==
    ASSUME FieldInv, NEW new \in Seq(FieldChar), Edit(new)
    PROVE  FieldInv'
<1>1. text' = new /\ selection' = {} /\ posted' = TRUE /\ shortcuts' = shortcuts
  BY DEF Edit, None
<1>. QED  BY <1>1 DEF FieldInv, FieldShowsShortcuts, SelectionOffNewlines

LEMMA FieldInit ==
    ASSUME InitField
    PROVE  FieldInv
<1>1. IsMap(shortcuts) /\ text = Format(shortcuts) /\ selection = {}
  BY FieldAssumption DEF InitField, IsMap, None
<1>2. /\ Format(shortcuts) \in Seq(FieldChar)
      /\ IsValid(Format(shortcuts)) /\ Parsed(Format(shortcuts)) = shortcuts
  BY <1>1, FormatIsText, FormatReadBack
<1>. QED  BY <1>1, <1>2 DEF FieldInv, FieldShowsShortcuts, SelectionOffNewlines

LEMMA FieldStep ==
    ASSUME FieldInv, [NextField]_field_vars
    PROVE  FieldInv'
<1>0. text \in Seq(FieldChar) /\ IsMap(shortcuts)
  BY DEF FieldInv
<1>1. CASE OnSettingChange
  <2>. DEFINE new == IF IsValid(text) THEN Parsed(text) ELSE shortcuts
  <2>1. posted' = FALSE /\ shortcuts' = new /\ SetShortcuts(new)
    BY <1>1 DEF OnSettingChange
  <2>2. IsMap(new)
    BY <1>0, ParsedIsMap
  <2>. HIDE DEF new
  <2>3. /\ text' \in Seq(FieldChar) /\ SelectionOffNewlines'
        /\ IsValid(text') /\ Parsed(text') = new
    BY <2>1, <2>2, SetShortcutsShows
  <2>4. IsMap(shortcuts')
    BY <2>1, <2>2
  <2>. QED  BY <2>1, <2>3, <2>4 DEF FieldInv, FieldShowsShortcuts, IsMap
<1>2. CASE OnNoticeSettings
  <2>1. PICK map \in Elsewhere : shortcuts' = map /\ SetShortcuts(map)
    BY <1>2 DEF OnNoticeSettings
  <2>2. IsMap(map)
    BY FieldAssumption DEF IsMap
  <2>3. /\ text' \in Seq(FieldChar) /\ SelectionOffNewlines'
        /\ IsValid(text') /\ Parsed(text') = map
    BY <2>1, <2>2, SetShortcutsShows
  <2>4. IsMap(shortcuts')
    BY <2>1, <2>2
  <2>. QED  BY <2>1, <2>3, <2>4 DEF FieldInv, FieldShowsShortcuts, IsMap
<1>3. CASE Type
  <2>1. PICK typed \in Keystrokes, place \in 0..Len(text) :
            Edit(SubSeq(text, 1, place) \o typed \o SubSeq(text, place + 1, Len(text)))
    BY <1>3 DEF Type
  <2>. DEFINE before == SubSeq(text, 1, place)
              after == SubSeq(text, place + 1, Len(text))
  <2>2. typed \in Seq(FieldChar)
    <3>1. \A c \in Letters \cup TypedDigits : c \in FieldChar
      BY FieldAssumption, CharFacts
    <3>2. Return \in FieldChar /\ Newline \in FieldChar
      BY CharFacts
    <3>3. typed = <<Return, Newline>> \/ \E c \in Letters \cup TypedDigits : typed = <<c>>
      BY DEF Keystrokes
    <3>. HIDE DEF FieldChar, Newline, Return
    <3>4. <<Return, Newline>> \in Seq(FieldChar)
      BY <3>2
    <3>5. \A c \in FieldChar : <<c>> \in Seq(FieldChar)
      OBVIOUS
    <3>. QED  BY <3>1, <3>3, <3>4, <3>5
  <2>3. before \in Seq(FieldChar) /\ after \in Seq(FieldChar)
    <3>1. place \in Nat /\ Len(text) \in 0..Len(text)
      BY <1>0
    <3>2. before \in Seq(FieldChar)
      BY <1>0, Beginning
    <3>3. after \in Seq(FieldChar)
      BY <1>0, <3>1, SubTexts
    <3>. QED  BY <3>2, <3>3
  <2>. HIDE DEF before, after
  <2>4. before \o typed \o after \in Seq(FieldChar)
    <3>. HIDE DEF FieldChar
    <3>1. before \o typed \in Seq(FieldChar)
      BY <2>2, <2>3, TextConcat
    <3>. QED  BY <2>3, <3>1, TextConcat
  <2>5. Edit(before \o typed \o after)
    BY <2>1 DEF before, after
  <2>. QED  BY <2>4, <2>5, EditIsText
<1>4. CASE Erase
  <2>1. PICK place \in 1..Len(text) :
            Edit(SubSeq(text, 1, place - 1) \o SubSeq(text, place + 1, Len(text)))
    BY <1>4 DEF Erase
  <2>. DEFINE before == SubSeq(text, 1, place - 1)
              after == SubSeq(text, place + 1, Len(text))
  <2>2. before \in Seq(FieldChar) /\ after \in Seq(FieldChar)
    <3>1. place \in Nat /\ place - 1 \in 0..Len(text) /\ Len(text) \in 0..Len(text)
      BY <1>0
    <3>2. before \in Seq(FieldChar)
      BY <1>0, <3>1, Beginning
    <3>3. after \in Seq(FieldChar)
      BY <1>0, <3>1, SubTexts
    <3>. QED  BY <3>2, <3>3
  <2>. HIDE DEF before, after
  <2>3. before \o after \in Seq(FieldChar)
    BY <2>2, TextConcat
  <2>4. Edit(before \o after)
    BY <2>1 DEF before, after
  <2>. QED  BY <2>3, <2>4, EditIsText
<1>5. CASE ChangeOtherSetting
  BY <1>5 DEF ChangeOtherSetting, FieldInv, IsMap, FieldShowsShortcuts, SelectionOffNewlines
<1>6. CASE UNCHANGED field_vars
  BY <1>6 DEF field_vars, FieldInv, IsMap, FieldShowsShortcuts, SelectionOffNewlines
<1>. QED  BY <1>1, <1>2, <1>3, <1>4, <1>5, <1>6 DEF NextField

(* The invariant above holds in every reachable state of the field.        *)
THEOREM FieldIsInStep == FieldSpec => []FieldInv
<1>1. InitField => FieldInv
  BY FieldInit
<1>2. FieldInv /\ [NextField]_field_vars => FieldInv'
  BY FieldStep
<1>. QED  BY <1>1, <1>2, PTL DEF FieldSpec

(* Once no message about the field is on its way, its text is valid and    *)
(* read back as exactly the shortcuts that are set, for any keys, numbers  *)
(* and texts (set_quick_switch_menu_shortcuts and its getter).             *)
THEOREM TextIsReadBack == FieldSpec => []FieldShowsShortcuts
<1>1. FieldInv => FieldShowsShortcuts
  BY DEF FieldInv
<1>. QED  BY <1>1, FieldIsInStep, PTL

(* When the program has rewritten the text the selection is in the text    *)
(* and neither of its ends is between a carriage return and its newline.   *)
THEOREM SelectionStaysOff == FieldSpec => []SelectionOffNewlines
<1>1. FieldInv => SelectionOffNewlines
  BY DEF FieldInv
<1>. QED  BY <1>1, FieldIsInStep, PTL

(* A rule's pattern, whatever was typed, matches a title iff its lines are *)
(* in the title, in their order (TextPattern.check_newline_glob).          *)
THEOREM GlobFindsEveryPlacement == FieldSpec => []GlobIsSplit
<1>1. FieldInv => GlobIsSplit
  <2>. SUFFICES ASSUME FieldInv PROVE GlobIsSplit
    OBVIOUS
  <2>1. text \in Seq(FieldChar) /\ Titles \subseteq Seq(FieldChar)
    BY TextFieldsAssumption DEF FieldInv, FieldChar
  <2>. QED  BY <2>1, EveryGlobIsSplit
<1>. QED  BY <1>1, FieldIsInStep, PTL

(* A rule that is exported to the older program's XML and imported again   *)
(* applies to the same windows and does the same to them.                  *)
THEOREM RulesSurviveXml == FieldSpec => []XmlKeepsRules
<1>1. FieldInv => XmlKeepsRules
  <2>. SUFFICES ASSUME FieldInv PROVE XmlKeepsRules
    OBVIOUS
  <2>1. text \in Seq(FieldChar) /\ Newline \in FieldChar
    BY CharFacts DEF FieldInv
  <2>. HIDE DEF FieldChar
  <2>. QED  BY <2>1, RulesComeBack
<1>. QED  BY <1>1, FieldIsInStep, PTL
=============================================================================
