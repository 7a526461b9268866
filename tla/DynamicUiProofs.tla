-------------------------- MODULE DynamicUiProofs --------------------------
(***************************************************************************)
(* DynamicUi for any numbers of desktops and any number of events: at rest *)
(* every menu is complete, in order and current.                           *)
(*                                                                         *)
(* In the middle of a rebuild neither holds.  What does: a menu is out of  *)
(* order only where a plugin is in the way that this pass over the list    *)
(* has still to visit; and what is missing from a menu, or is in the wrong *)
(* one, waits to be built again.                                           *)
(***************************************************************************)
EXTENDS DynamicUi, FiniteSetTheorems, SequenceTheorems, WellFoundedInduction, TLAPS

InPass == pc \in {"visit", "hooks"}

(* Plugins that will be built again, for their own sake or their parent's, *)
(* and those that this pass will visit as siblings.                        *)
Pending(p) ==
    \/ Contains(rebuild_ids, p)
    \/ InPass /\ affected_parents = {} /\ p = rebuild_id
    \/ pc = "hooks" /\ p = List[ix]

ToVisit(p) == InPass /\ Position(p) >= ix /\ plugins[p].parent \in affected_parents

PassInv ==
    /\ pc \in {"initial", "idle", "loop", "check", "bind", "modal", "next", "visit", "hooks", "destroyed"}
    /\ resume \in {"loop", "check"}
    /\ ix \in 1..Len(List) + 1
    /\ pc \in {"initial", "hooks"} => ix # Len(List) + 1
    /\ pc \in {"initial", "idle", "loop", "check", "bind", "modal"} => rebuild_ids = <<>>
    /\ InPass /\ affected_parents = {} => rebuild_id \in Plugins
    /\ pc = "visit" /\ affected_parents = {} => ix = 1
    /\ pc = "hooks" =>
           IF affected_parents = {} THEN List[ix] = rebuild_id
           ELSE plugins[List[ix]].parent \in affected_parents

(* What a menu holds was built into it, and what was built into it is      *)
(* missing only if it is to be built again.                                *)
HoldsInv ==
    pc # "destroyed" =>
        \A q \in Plugins :
            /\ IsInjective(menu[q])
            /\ \A p \in Range(menu[q]) : plugins[p].built /\ plugins[p].parent = q
            /\ \A p \in Plugins :
                   plugins[p].built /\ plugins[p].parent = q => Pending(p) \/ p \in Range(menu[q])

OrderInv ==
    pc # "destroyed" =>
        \A q \in Plugins : \A i, j \in DOMAIN menu[q] :
            i < j => \/ Position(menu[q][i]) < Position(menu[q][j])
                     \/ InPass /\ q \in affected_parents /\ Position(menu[q][i]) >= ix

(* Not built; the quick menu still keeps the shortcuts it was offered.     *)
IsDestroyed(d) == ~d.built /\ d.parent = None /\ d.count = 0

(* What each plugin is when it is built, and when it is not. *)
BuiltInv ==
    pc # "destroyed" =>
        /\ \A p \in Plugins :
               /\ ~plugins[p].built => IsDestroyed(plugins[p])
               /\ plugins[p].built /\ p = Root => plugins[p].parent = None
               /\ plugins[p].built /\ p \notin {Root, Quick} => plugins[p].parent = Root
               /\ plugins[p].built /\ p \in {Quick, Flat} => plugins[p].count \in Counts
        /\ plugins[Quick].built =>
               /\ plugins[Quick].parent \in {Root, Submenu}
               /\ plugins[Quick].parent = Parent(Quick) \/ Pending(Quick) \/ ToVisit(Quick)
        /\ pc # "initial" => \A p \in {Root, Top, Bottom} : plugins[p].built

(* No event is handled before everything was built once. *)
InitialInv ==
    pc = "initial" =>
        /\ ~need_rebuild
        /\ \A p \in Plugins :
               /\ Position(p) < ix =>
                      /\ plugins[p].built = ShouldBuild(p)
                      /\ p \in {Quick, Flat} /\ plugins[p].built => plugins[p].count = desktop_count
                      /\ p = Quick => plugins[p].shortcuts = shortcuts
               /\ Position(p) >= ix => plugins[p] = Destroyed

IInv == TypeOK /\ PassInv /\ HoldsInv /\ OrderInv /\ BuiltInv /\ InitialInv /\ MenuIsCurrent
-----------------------------------------------------------------------------
(* Sets of positions have a first one.                                     *)
LEMMA LeastNat ==
    ASSUME NEW T \in SUBSET Nat, T # {}
    PROVE  \E x \in T : \A y \in T : x <= y
<1>. DEFINE R == OpToRel(<, Nat)
<1>1. \A x, y \in Nat : y < x => <<y, x>> \in R
  BY DEF OpToRel
<1>2. IsWellFoundedOn(R, Nat)
  BY NatLessThanWellFounded
<1>. HIDE DEF R
<1>3. PICK x \in T : \A y \in T : ~ (<<y, x>> \in R)
  BY <1>2, WFMin
<1>4. \A y \in T : ~ (y < x)
  BY <1>1, <1>3
<1>. QED  BY <1>4

LEMMA MinFacts ==
    ASSUME NEW T \in SUBSET Nat, T # {}
    PROVE  Min(T) \in T /\ \A y \in T : Min(T) <= y
BY LeastNat DEF Min

(* The list and the positions in it are inverse to each other.             *)
LEMMA PluginFacts ==
    /\ Plugins = {Root, Top, Submenu, Quick, Flat, Bottom}
    /\ None \notin Plugins
    /\ Root # Submenu /\ Root # Quick /\ Root # Flat /\ Root # Top /\ Root # Bottom
    /\ Submenu # Quick /\ Submenu # Flat /\ Submenu # Top /\ Submenu # Bottom
    /\ Quick # Flat /\ Quick # Top /\ Quick # Bottom
    /\ Flat # Top /\ Flat # Bottom /\ Top # Bottom
<1>1. DOMAIN List = {1, 2, 3, 4, 5, 6}
  BY DEF List
<1>2. /\ List[1] = Root /\ List[2] = Top /\ List[3] = Submenu
      /\ List[4] = Quick /\ List[5] = Flat /\ List[6] = Bottom
  BY DEF List
<1>. QED  BY <1>1, <1>2 DEF Plugins, Range, None, Root, Top, Submenu, Quick, Flat, Bottom

LEMMA ListFacts ==
    /\ Len(List) = 6 /\ DOMAIN List = 1..6
    /\ \A i \in 1..6 : List[i] \in Plugins /\ Position(List[i]) = i
    /\ \A p \in Plugins : Position(p) \in 1..6 /\ List[Position(p)] = p
    /\ Position(Root) = 1 /\ Position(Submenu) = 3 /\ Position(Quick) = 4 /\ Position(Flat) = 5
<1>1. Len(List) = 6 /\ DOMAIN List = 1..6
  BY DEF List
<1>2. /\ List[1] = Root /\ List[2] = Top /\ List[3] = Submenu
      /\ List[4] = Quick /\ List[5] = Flat /\ List[6] = Bottom
  BY DEF List
<1>3. \A i \in 1..6 : List[i] \in Plugins
  BY <1>1 DEF Plugins, Range
<1>4. \A i, j \in 1..6 : List[i] = List[j] => i = j
  BY <1>2 DEF Root, Top, Submenu, Quick, Flat, Bottom
<1>5. \A i \in 1..6 : Position(List[i]) = i
  BY <1>1, <1>4 DEF Position
<1>6. \A p \in Plugins : \E i \in 1..6 : List[i] = p
  BY <1>1 DEF Plugins, Range
<1>7. \A p \in Plugins : Position(p) \in 1..6 /\ List[Position(p)] = p
  BY <1>5, <1>6
<1>8. Position(List[1]) = 1 /\ Position(List[3]) = 3 /\ Position(List[4]) = 4 /\ Position(List[5]) = 5
  BY <1>5
<1>. QED  BY <1>1, <1>2, <1>3, <1>5, <1>7, <1>8

LEMMA PositionsDiffer ==
    ASSUME NEW p \in Plugins, NEW q \in Plugins, p # q
    PROVE  Position(p) # Position(q)
BY ListFacts

(* InListOrder lists every one of the plugins, and each once.              *)
LEMMA InListOrderFacts ==
    ASSUME NEW chosen \in SUBSET Plugins
    PROVE  /\ InListOrder(chosen) \in Seq(Plugins)
           /\ IsInjective(InListOrder(chosen))
           /\ Range(InListOrder(chosen)) = chosen
           /\ InListOrder(chosen) = <<>> => chosen = {}
<1>. DEFINE n == Cardinality(chosen)
            before(p) == {q \in chosen : Position(q) <= Position(p)}
            place == [p \in chosen |-> Cardinality(before(p))]
            result == [k \in 1..n |-> CHOOSE p \in chosen : place[p] = k]
<1>1. IsFiniteSet(chosen) /\ n \in Nat
  <2>1. \A p \in chosen : Position(p) \in 1..6 /\ List[Position(p)] = p
    BY ListFacts
  <2>2. IsFiniteSet(1..6)
    BY FS_Interval, 1 \in Int, 6 \in Int
  <2>3. [p \in chosen |-> Position(p)] \in Injection(chosen, 1..6)
    BY <2>1 DEF Injection, IsInjective
  <2>4. IsFiniteSet(chosen)
    BY <2>2, <2>3, FS_Injection
  <2>. QED  BY <2>4, FS_CardinalityType
<1>2. \A p \in chosen : IsFiniteSet(before(p)) /\ place[p] \in 1..n
  <2> TAKE p \in chosen
  <2>1. before(p) \in SUBSET chosen /\ p \in before(p)
    BY ListFacts
  <2>2. IsFiniteSet(before(p)) /\ Cardinality(before(p)) <= n /\ Cardinality(before(p)) \in Nat
    BY <1>1, <2>1, FS_Subset, FS_CardinalityType
  <2>3. Cardinality(before(p)) # 0
    BY <2>1, <2>2, FS_EmptySet
  <2>. QED  BY <1>1, <2>2, <2>3
<1>3. ASSUME NEW p \in chosen, NEW q \in chosen, place[p] = place[q] PROVE p = q
  <2>1. Position(p) \in 1..6 /\ Position(q) \in 1..6
    BY ListFacts
  <2>2. before(p) \subseteq before(q) \/ before(q) \subseteq before(p)
    <3>1. \A r \in chosen : Position(r) \in 1..6
      BY ListFacts
    <3>. QED  BY <2>1, <3>1
  <2>3. before(p) = before(q)
    BY <1>2, <1>3, <2>2, FS_Subset
  <2>4. p \in before(q) /\ q \in before(p)
    BY <2>1, <2>3
  <2>5. Position(p) = Position(q)
    BY <2>1, <2>4
  <2>. QED  BY <2>5, ListFacts
<1>4. place \in Injection(chosen, 1..n)
  BY <1>2, <1>3 DEF Injection, IsInjective
<1>5. IsFiniteSet(1..n) /\ Cardinality(1..n) = n
  BY <1>1, FS_Interval
<1>6. place \in Surjection(chosen, 1..n)
  BY <1>1, <1>4, <1>5, FS_Injection
<1>7. \A k \in 1..n : \E p \in chosen : place[p] = k
  BY <1>6 DEF Surjection
<1>8. \A k \in 1..n : result[k] \in chosen /\ place[result[k]] = k
  BY <1>7
<1>. HIDE DEF n
<1>9. InListOrder(chosen) = result
  BY DEF InListOrder, n
<1>10. \A p \in chosen : result[place[p]] = p
  BY <1>2, <1>3, <1>8
<1>11. result \in Seq(Plugins) /\ DOMAIN result = 1..n
  <2>1. n \in Nat
    BY <1>1
  <2>2. result \in [1..n -> Plugins]
    BY <1>8
  <2>. HIDE DEF result
  <2>. QED  BY <2>1, <2>2
<1>. HIDE DEF result, place
<1>12. IsInjective(result)
  BY <1>8, <1>11 DEF IsInjective
<1>13. Range(result) = chosen
  BY <1>2, <1>8, <1>10, <1>11, ZenonT(30) DEF Range
<1>14. result = <<>> => chosen = {}
  BY <1>13 DEF Range
<1>. QED  BY <1>9, <1>11, <1>12, <1>13, <1>14
-----------------------------------------------------------------------------
(***************************************************************************)
(* Sequences: what is taken out, appended and put behind another.          *)
(***************************************************************************)
LEMMA RemoveAtFacts ==
    ASSUME NEW S, NEW s \in Seq(S), NEW k \in 1..Len(s)
    PROVE  /\ RemoveAt(s, k) \in Seq(S) /\ Len(RemoveAt(s, k)) = Len(s) - 1
           /\ \A i \in 1..(Len(s) - 1) : RemoveAt(s, k)[i] = s[IF i < k THEN i ELSE i + 1]
<1>. DEFINE a == SubSeq(s, 1, k - 1)
            b == SubSeq(s, k + 1, Len(s))
<1>1. /\ a \in Seq(S) /\ Len(a) = k - 1
      /\ \A i \in 1..(k - 1) : a[i] = s[i]
  BY SubSeqProperties
<1>2. /\ b \in Seq(S) /\ Len(b) = Len(s) - k
      /\ \A i \in 1..(Len(s) - k) : b[i] = s[k + i]
  BY SubSeqProperties
<1>3. RemoveAt(s, k) = a \o b
  BY DEF RemoveAt
<1>. HIDE DEF a, b
<1>4. /\ a \o b \in Seq(S) /\ Len(a \o b) = Len(s) - 1
      /\ \A i \in 1..(Len(s) - 1) : (a \o b)[i] = IF i <= k - 1 THEN a[i] ELSE b[i - (k - 1)]
  BY <1>1, <1>2, ConcatProperties
<1>5. ASSUME NEW i \in 1..(Len(s) - 1)
      PROVE  (a \o b)[i] = s[IF i < k THEN i ELSE i + 1]
  <2>1. CASE i < k
    <3>1. i \in 1..(k - 1) /\ i <= k - 1
      BY <2>1
    <3>. QED  BY <1>1, <1>4, <2>1, <3>1
  <2>2. CASE ~(i < k)
    <3>1. ~(i <= k - 1) /\ i - (k - 1) \in 1..(Len(s) - k) /\ k + (i - (k - 1)) = i + 1
      BY <2>2
    <3>. QED  BY <1>2, <1>4, <2>2, <3>1
  <2>. QED  BY <2>1, <2>2
<1>. QED  BY <1>3, <1>4, <1>5

(* Without one of its elements a sequence that holds nothing twice keeps   *)
(* the others, in their order.                                             *)
LEMMA RemoveFirstFacts ==
    ASSUME NEW S, NEW s \in Seq(S), IsInjective(s), NEW e,
           NEW r, r = RemoveFirst(s, e)
    PROVE  /\ r \in Seq(S) /\ IsInjective(r)
           /\ Range(r) = Range(s) \ {e}
           /\ \A i, j \in DOMAIN r : i < j => \E k, l \in DOMAIN s : k < l /\ s[k] = r[i] /\ s[l] = r[j]
<1>0. DOMAIN s = 1..Len(s) /\ Len(s) \in Nat
  OBVIOUS
<1>1. CASE ~ \E i \in 1..Len(s) : s[i] = e
  <2>1. r = s
    BY <1>1 DEF RemoveFirst
  <2>2. e \notin Range(s)
    BY <1>0, <1>1 DEF Range
  <2>. QED  BY <2>1, <2>2
<1>2. CASE \E i \in 1..Len(s) : s[i] = e
  <2>. DEFINE places == {i \in 1..Len(s) : s[i] = e}
              k == Min(places)
  <2>1. k \in places
    <3>1. places \in SUBSET Nat /\ places # {}
      BY <1>0, <1>2
    <3>. HIDE DEF places
    <3>. QED  BY <3>1, MinFacts
  <2>2. r = RemoveAt(s, k)
    BY <1>2 DEF RemoveFirst, SelectInSeq
  <2>3. k \in 1..Len(s) /\ s[k] = e
    BY <2>1
  <2>. HIDE DEF k
  <2>. DEFINE from(i) == IF i < k THEN i ELSE i + 1
  <2>4. /\ r \in Seq(S) /\ Len(r) = Len(s) - 1
        /\ \A i \in 1..(Len(s) - 1) : r[i] = s[from(i)]
    BY <2>2, <2>3, RemoveAtFacts
  <2>5. DOMAIN r = 1..(Len(s) - 1)
    BY <2>4
  <2>6. \A i, j \in DOMAIN r :
           /\ from(i) \in DOMAIN s /\ from(i) # k
           /\ i < j => from(i) < from(j)
           /\ from(i) = from(j) => i = j
    BY <1>0, <2>3, <2>5
  <2>7. \A l \in DOMAIN s : l # k => \E i \in DOMAIN r : from(i) = l
    <3> TAKE l \in DOMAIN s
    <3>1. CASE l < k
      BY <1>0, <2>3, <2>5, <3>1
    <3>2. CASE l > k
      <4>1. l - 1 \in DOMAIN r /\ from(l - 1) = l
        BY <1>0, <2>3, <2>5, <3>2
      <4>. QED  BY <4>1
    <3>. QED  BY <1>0, <2>3, <3>1, <3>2
  <2>. HIDE DEF from
  <2>8. \A i \in DOMAIN r : r[i] = s[from(i)]
    BY <2>4, <2>5
  <2>9. IsInjective(r)
    BY <2>6, <2>8 DEF IsInjective
  <2>10. \A l \in DOMAIN s : s[l] = e <=> l = k
    BY <1>0, <2>3 DEF IsInjective
  <2>11. Range(r) = Range(s) \ {e}
    <3>1. \A x \in Range(r) : x \in Range(s) \ {e}
      BY <2>6, <2>8, <2>10 DEF Range
    <3>2. \A x \in Range(s) \ {e} : x \in Range(r)
      BY <2>7, <2>8, <2>10 DEF Range
    <3>. QED  BY <3>1, <3>2
  <2>12. \A i, j \in DOMAIN r : i < j => \E m, l \in DOMAIN s : m < l /\ s[m] = r[i] /\ s[l] = r[j]
    BY <2>6, <2>8
  <2>. QED  BY <2>4, <2>9, <2>11, <2>12
<1>. QED  BY <1>1, <1>2

LEMMA AppendFacts ==
    ASSUME NEW S, NEW s \in Seq(S), IsInjective(s), NEW e \in S, e \notin Range(s),
           NEW r \in Seq(S), Len(r) = Len(s) + 1, r[Len(s) + 1] = e,
           \A i \in 1..Len(s) : r[i] = s[i]
    PROVE  /\ IsInjective(r)
           /\ Range(r) = Range(s) \cup {e}
           /\ \A i, j \in DOMAIN r : i < j =>
                  \/ r[j] = e /\ r[i] \in Range(s)
                  \/ i \in DOMAIN s /\ j \in DOMAIN s /\ s[i] = r[i] /\ s[j] = r[j]
<1>1. /\ r \in Seq(S) /\ Len(r) = Len(s) + 1 /\ Len(s) \in Nat
      /\ DOMAIN r = 1..(Len(s) + 1) /\ DOMAIN s = 1..Len(s)
      /\ \A i \in 1..Len(s) : r[i] = s[i]
      /\ r[Len(s) + 1] = e
  OBVIOUS
<1>2. \A i \in DOMAIN s : r[i] = s[i] /\ s[i] \in Range(s) /\ s[i] # e
  BY <1>1 DEF Range
<1>3. \A i \in DOMAIN r : i \in DOMAIN s \/ i = Len(s) + 1
  BY <1>1
<1>4. IsInjective(r)
  BY <1>1, <1>2, <1>3 DEF IsInjective
<1>5. Range(r) = Range(s) \cup {e}
  <2>1. \A x \in Range(r) : x \in Range(s) \cup {e}
    BY <1>1, <1>2, <1>3 DEF Range
  <2>2. \A i \in DOMAIN s : i \in DOMAIN r
    BY <1>1
  <2>3. \A x \in Range(s) \cup {e} : x \in Range(r)
    BY <1>1, <1>2, <2>2 DEF Range
  <2>. QED  BY <2>1, <2>3
<1>6. ASSUME NEW i \in DOMAIN r, NEW j \in DOMAIN r, i < j
      PROVE  \/ r[j] = e /\ r[i] \in Range(s)
             \/ i \in DOMAIN s /\ j \in DOMAIN s /\ s[i] = r[i] /\ s[j] = r[j]
  <2>1. i \in DOMAIN s
    BY <1>1, <1>6
  <2>. QED  BY <1>1, <1>2, <1>3, <2>1
<1>. QED  BY <1>1, <1>4, <1>5, <1>6

LEMMA ConcatFacts ==
    ASSUME NEW S, NEW s \in Seq(S), NEW t \in Seq(S), IsInjective(s), IsInjective(t),
           Range(s) \cap Range(t) = {}
    PROVE  s \o t \in Seq(S) /\ IsInjective(s \o t) /\ Range(s \o t) = Range(s) \cup Range(t)
<1>. DEFINE r == s \o t
<1>1. /\ r \in Seq(S) /\ Len(r) = Len(s) + Len(t) /\ Len(s) \in Nat /\ Len(t) \in Nat
      /\ DOMAIN r = 1..(Len(s) + Len(t)) /\ DOMAIN s = 1..Len(s) /\ DOMAIN t = 1..Len(t)
      /\ \A i \in 1..(Len(s) + Len(t)) : r[i] = IF i <= Len(s) THEN s[i] ELSE t[i - Len(s)]
  BY ConcatProperties
<1>. HIDE DEF r
<1>2. \A i \in DOMAIN r :
         \/ i \in DOMAIN s /\ r[i] = s[i]
         \/ i - Len(s) \in DOMAIN t /\ r[i] = t[i - Len(s)]
  BY <1>1
<1>3. \A i \in DOMAIN s : i \in DOMAIN r /\ r[i] = s[i]
  BY <1>1
<1>4. \A i \in DOMAIN t : i + Len(s) \in DOMAIN r /\ r[i + Len(s)] = t[i]
  BY <1>1
<1>5. Range(r) = Range(s) \cup Range(t)
  BY <1>2, <1>3, <1>4 DEF Range
<1>6. \A i, j \in DOMAIN r : r[i] = r[j] => i = j
  <2> SUFFICES ASSUME NEW i \in DOMAIN r, NEW j \in DOMAIN r, r[i] = r[j] PROVE i = j
    OBVIOUS
  <2>1. CASE i \in DOMAIN s /\ r[i] = s[i] /\ j \in DOMAIN s /\ r[j] = s[j]
    BY <2>1 DEF IsInjective
  <2>2. CASE /\ i - Len(s) \in DOMAIN t /\ r[i] = t[i - Len(s)]
             /\ j - Len(s) \in DOMAIN t /\ r[j] = t[j - Len(s)]
    <3>1. i - Len(s) = j - Len(s)
      BY <2>2 DEF IsInjective
    <3>. QED  BY <1>1, <3>1
  <2>3. CASE \/ i \in DOMAIN s /\ r[i] = s[i] /\ j - Len(s) \in DOMAIN t /\ r[j] = t[j - Len(s)]
             \/ j \in DOMAIN s /\ r[j] = s[j] /\ i - Len(s) \in DOMAIN t /\ r[i] = t[i - Len(s)]
    BY <2>3 DEF Range
  <2>. QED  BY <1>2, <2>1, <2>2, <2>3
<1>7. IsInjective(r)
  BY <1>6 DEF IsInjective
<1>. QED  BY <1>1, <1>5, <1>7 DEF r

LEMMA HeadTailFacts ==
    ASSUME NEW S, NEW s \in Seq(S), IsInjective(s), s # <<>>
    PROVE  /\ Head(s) \in S /\ Tail(s) \in Seq(S) /\ IsInjective(Tail(s))
           /\ Range(Tail(s)) = Range(s) \ {Head(s)} /\ Head(s) \in Range(s)
<1>1. /\ Head(s) \in S /\ Tail(s) \in Seq(S) /\ Len(Tail(s)) = Len(s) - 1
      /\ Len(s) \in Nat /\ Len(s) # 0 /\ Head(s) = s[1]
      /\ DOMAIN s = 1..Len(s) /\ DOMAIN Tail(s) = 1..(Len(s) - 1)
      /\ \A i \in 1..(Len(s) - 1) : Tail(s)[i] = s[i + 1]
  BY HeadTailProperties, EmptySeq
<1>. DEFINE t == Tail(s)
<1>2. \A i \in DOMAIN t : i + 1 \in DOMAIN s /\ i + 1 # 1 /\ t[i] = s[i + 1]
  BY <1>1
<1>3. \A i \in DOMAIN s : i # 1 => i - 1 \in DOMAIN t /\ t[i - 1] = s[i]
  BY <1>1
<1>4. 1 \in DOMAIN s
  BY <1>1
<1>5. DOMAIN s \subseteq Int /\ DOMAIN t \subseteq Int
  BY <1>1
<1>. HIDE DEF t
<1>6. IsInjective(t)
  BY <1>2, <1>5 DEF IsInjective
<1>7. Range(t) = Range(s) \ {s[1]}
  BY <1>2, <1>3, <1>4 DEF Range, IsInjective
<1>. QED  BY <1>1, <1>4, <1>6, <1>7 DEF t, Range

LEMMA ContainsFacts ==
    ASSUME NEW S, NEW s \in Seq(S), NEW e
    PROVE  Contains(s, e) <=> e \in Range(s)
BY DEF Contains, Range
-----------------------------------------------------------------------------
(***************************************************************************)
(* Building a plugin.                                                      *)
(***************************************************************************)
LEMMA ParentFacts ==
    ASSUME NEW p \in Plugins
    PROVE  /\ Parent(p) \in Plugins \cup {None} /\ Parent(p) # p
           /\ p = Root => Parent(p) = None
           /\ p # Root => Parent(p) \in {Root, Submenu}
           /\ p \notin {Root, Quick} => Parent(p) = Root
           /\ Parent(Quick) = IF plugins[Submenu].built THEN Submenu ELSE Root
BY PluginFacts DEF Parent

LEMMA BuiltDataFacts ==
    ASSUME TypeOK, NEW p \in Plugins
    PROVE  /\ BuiltData(p) \in PluginData /\ BuiltData(p).built
           /\ BuiltData(p).parent = Parent(p)
           /\ p \in {Quick, Flat} => BuiltData(p).count = desktop_count
           /\ p = Quick => BuiltData(p).shortcuts = shortcuts /\ NotBuilt(p).shortcuts = shortcuts
           /\ NotBuilt(p) \in PluginData /\ NotBuilt(p).built = FALSE
           /\ NotBuilt(p).parent = None /\ NotBuilt(p).count = 0
<1>1. desktop_count \in Counts /\ TakenShortcuts(p) \in Shortcuts \cup {None}
  BY DEF TypeOK, TakenShortcuts
<1>2. Parent(p) \in Plugins \cup {None}
  BY ParentFacts
<1>3. /\ BuiltData(p) \in PluginData /\ BuiltData(p).built
      /\ BuiltData(p).parent = Parent(p) /\ BuiltData(p).shortcuts = TakenShortcuts(p)
      /\ p \in {Quick, Flat} => BuiltData(p).count = desktop_count
  BY <1>1, <1>2 DEF BuiltData, PluginData
<1>4. /\ NotBuilt(p) \in PluginData /\ NotBuilt(p).built = FALSE
      /\ NotBuilt(p).parent = None /\ NotBuilt(p).count = 0
      /\ NotBuilt(p).shortcuts = TakenShortcuts(p)
  BY <1>1 DEF NotBuilt, Destroyed, PluginData
<1>. QED  BY <1>3, <1>4 DEF TakenShortcuts

(* A menu holds plugins once, and only those that were built into it.      *)
Holding ==
    \A q \in Plugins :
        /\ IsInjective(menu[q])
        /\ \A x \in Range(menu[q]) : plugins[x].built /\ plugins[x].parent = q

(* What came before what in the menu of `q`, in `before`, it still does,   *)
(* in `after`, without `p`.                                                *)
OrderKept(before, after, p) ==
    \A i, j \in DOMAIN after : i < j =>
        /\ after[i] # p
        /\ \E k, l \in DOMAIN before : k < l /\ before[k] = after[i] /\ before[l] = after[j]

LEMMA ClearedFacts ==
    ASSUME TypeOK, Holding, NEW p \in Plugins, NEW cleared,
           cleared = IF plugins[p].built THEN WithoutControls(p) ELSE menu
    PROVE  /\ cleared \in [Plugins -> Seq(Plugins)]
           /\ \A q \in Plugins :
                  /\ IsInjective(cleared[q])
                  /\ Range(cleared[q]) = IF q = p /\ plugins[p].built THEN {} ELSE Range(menu[q]) \ {p}
                  /\ OrderKept(menu[q], cleared[q], p)
<1>0. menu \in [Plugins -> Seq(Plugins)] /\ plugins \in [Plugins -> PluginData]
  BY DEF TypeOK
<1>1. /\ <<>> \in Seq(Plugins) /\ IsInjective(<<>>) /\ Range(<<>>) = {}
      /\ \A s : OrderKept(s, <<>>, p)
  BY DEF IsInjective, Range, OrderKept
<1>2. ASSUME NEW q \in Plugins, p \notin Range(menu[q])
      PROVE  OrderKept(menu[q], menu[q], p) /\ Range(menu[q]) = Range(menu[q]) \ {p}
  BY <1>2 DEF OrderKept, Range
<1>3. ASSUME NEW q \in Plugins
      PROVE  LET r == RemoveFirst(menu[q], p) IN
             /\ r \in Seq(Plugins) /\ IsInjective(r) /\ Range(r) = Range(menu[q]) \ {p}
             /\ OrderKept(menu[q], r, p)
  <2>. DEFINE r == RemoveFirst(menu[q], p)
  <2>0. menu[q] \in Seq(Plugins) /\ IsInjective(menu[q])
    BY <1>0 DEF Holding
  <2>. HIDE DEF r
  <2>1. /\ r \in Seq(Plugins) /\ IsInjective(r)
        /\ Range(r) = Range(menu[q]) \ {p}
        /\ \A i, j \in DOMAIN r : i < j =>
               \E k, l \in DOMAIN menu[q] : k < l /\ menu[q][k] = r[i] /\ menu[q][l] = r[j]
    BY <2>0, RemoveFirstFacts DEF r
  <2>2. \A i \in DOMAIN r : r[i] # p
    BY <2>1 DEF Range
  <2>3. OrderKept(menu[q], r, p)
    BY <2>1, <2>2 DEF OrderKept
  <2>. QED  BY <2>1, <2>3 DEF r
<1>4. CASE ~plugins[p].built
  <2>1. \A q \in Plugins : p \notin Range(menu[q])
    BY <1>4 DEF Holding
  <2>. QED  BY <1>0, <1>2, <1>4, <2>1 DEF Holding
<1>5. CASE plugins[p].built
  <2>1. cleared = WithoutControls(p)
    BY <1>5
  <2>2. ASSUME NEW q \in Plugins
        PROVE  /\ cleared[q] \in Seq(Plugins) /\ IsInjective(cleared[q])
               /\ Range(cleared[q]) = IF q = p THEN {} ELSE Range(menu[q]) \ {p}
               /\ OrderKept(menu[q], cleared[q], p)
    <3>1. CASE q = p
      <4>1. cleared[q] = <<>>
        BY <2>1, <3>1 DEF WithoutControls
      <4>. QED  BY <1>1, <3>1, <4>1
    <3>2. CASE q # p /\ q = plugins[p].parent
      <4>1. cleared[q] = RemoveFirst(menu[q], p)
        BY <2>1, <3>2 DEF WithoutControls
      <4>. QED  BY <1>3, <3>2, <4>1
    <3>3. CASE q # p /\ q # plugins[p].parent
      <4>1. cleared[q] = menu[q]
        BY <2>1, <3>3 DEF WithoutControls
      <4>2. p \notin Range(menu[q])
        BY <3>3 DEF Holding
      <4>. QED  BY <1>0, <1>2, <3>3, <4>1, <4>2 DEF Holding
    <3>. QED  BY <3>1, <3>2, <3>3
  <2>3. cleared = [q \in Plugins |-> cleared[q]]
    BY <2>1 DEF WithoutControls
  <2>. QED  BY <1>5, <2>2, <2>3
<1>. QED  BY <1>4, <1>5

(* After a build the menus hold what they held, without what is inside the *)
(* plugin and with the plugin behind everything else.                      *)
LEMMA BuildFacts ==
    ASSUME TypeOK, Holding, NEW p \in Plugins, Build(p)
    PROVE  /\ menu' \in [Plugins -> Seq(Plugins)]
           /\ plugins' = [plugins EXCEPT ![p] = IF ShouldBuild(p) THEN BuiltData(p) ELSE NotBuilt(p)]
           /\ plugins' \in [Plugins -> PluginData]
           /\ \A q \in Plugins :
                  /\ IsInjective(menu'[q])
                  /\ Range(menu'[q]) =
                         (IF q = p /\ plugins[p].built THEN {} ELSE Range(menu[q]) \ {p})
                         \cup (IF ShouldBuild(p) /\ q = Parent(p) THEN {p} ELSE {})
                  /\ \A i, j \in DOMAIN menu'[q] : i < j =>
                         /\ menu'[q][i] # p
                         /\ \/ /\ q = Parent(p) /\ ShouldBuild(p)
                               /\ menu'[q][j] = p /\ menu'[q][i] \in Range(menu[q])
                            \/ \E k, l \in DOMAIN menu[q] :
                                   k < l /\ menu[q][k] = menu'[q][i] /\ menu[q][l] = menu'[q][j]
<1>. DEFINE cleared == IF plugins[p].built THEN WithoutControls(p) ELSE menu
<1>0. /\ plugins' = [plugins EXCEPT ![p] = IF ShouldBuild(p) THEN BuiltData(p) ELSE NotBuilt(p)]
      /\ menu' = IF ShouldBuild(p) THEN WithControls(p, cleared) ELSE cleared
  BY DEF Build
<1>1. plugins' \in [Plugins -> PluginData]
  BY <1>0, BuiltDataFacts DEF TypeOK
<1>. HIDE DEF cleared
<1>2. /\ cleared \in [Plugins -> Seq(Plugins)]
      /\ \A q \in Plugins :
             /\ IsInjective(cleared[q])
             /\ Range(cleared[q]) = IF q = p /\ plugins[p].built THEN {} ELSE Range(menu[q]) \ {p}
             /\ OrderKept(menu[q], cleared[q], p)
  BY ClearedFacts DEF cleared
<1>. DEFINE new(q) == IF ShouldBuild(p) /\ q = Parent(p) THEN {p} ELSE {}
            Good(q) ==
               /\ menu'[q] \in Seq(Plugins) /\ IsInjective(menu'[q])
               /\ Range(menu'[q]) = Range(cleared[q]) \cup new(q)
               /\ \A i, j \in DOMAIN menu'[q] : i < j =>
                         /\ menu'[q][i] # p
                         /\ \/ /\ q = Parent(p) /\ ShouldBuild(p)
                               /\ menu'[q][j] = p /\ menu'[q][i] \in Range(menu[q])
                            \/ \E k, l \in DOMAIN menu[q] :
                                   k < l /\ menu[q][k] = menu'[q][i] /\ menu[q][l] = menu'[q][j]
<1>3. ASSUME NEW q \in Plugins, menu'[q] = cleared[q], new(q) = {}
      PROVE  Good(q)
  BY <1>2, <1>3 DEF OrderKept
<1>4. ASSUME NEW q \in Plugins, ShouldBuild(p), q = Parent(p), menu'[q] = Append(cleared[q], p)
      PROVE  Good(q)
  <2>1. cleared[q] \in Seq(Plugins) /\ IsInjective(cleared[q]) /\ p \notin Range(cleared[q])
    BY <1>2
  <2>2. Range(cleared[q]) \subseteq Range(menu[q]) \ {p}
    BY <1>2
  <2>. DEFINE s == cleared[q]
              r == menu'[q]
  <2>. HIDE DEF s, r
  <2>3. /\ s \in Seq(Plugins) /\ IsInjective(s) /\ p \notin Range(s)
        /\ r \in Seq(Plugins) /\ Len(r) = Len(s) + 1 /\ r[Len(s) + 1] = p
        /\ \A i \in 1..Len(s) : r[i] = s[i]
    BY <1>4, <2>1 DEF s, r
  <2>4. /\ IsInjective(r) /\ Range(r) = Range(s) \cup {p}
        /\ \A i, j \in DOMAIN r : i < j =>
                  \/ r[j] = p /\ r[i] \in Range(s)
                  \/ i \in DOMAIN s /\ j \in DOMAIN s /\ s[i] = r[i] /\ s[j] = r[j]
    BY <2>3, AppendFacts
  <2>5. \A i, j \in DOMAIN s : i < j =>
            /\ s[i] # p
            /\ \E k, l \in DOMAIN menu[q] : k < l /\ menu[q][k] = s[i] /\ menu[q][l] = s[j]
    BY <1>2 DEF OrderKept, s
  <2>6. ASSUME NEW i \in DOMAIN r, NEW j \in DOMAIN r, i < j
        PROVE  /\ r[i] # p
               /\ \/ r[j] = p /\ r[i] \in Range(menu[q])
                  \/ \E k, l \in DOMAIN menu[q] :
                         k < l /\ menu[q][k] = r[i] /\ menu[q][l] = r[j]
    <3>1. CASE r[j] = p /\ r[i] \in Range(s)
      BY <2>2, <3>1 DEF s
    <3>2. CASE /\ i \in DOMAIN s /\ j \in DOMAIN s
               /\ s[i] = r[i] /\ s[j] = r[j]
      <4>1. /\ s[i] # p
            /\ \E k, l \in DOMAIN menu[q] : k < l /\ menu[q][k] = s[i] /\ menu[q][l] = s[j]
        BY <2>5, <2>6, <3>2
      <4>. QED  BY <3>2, <4>1
    <3>. QED  BY <2>6, <2>4, <3>1, <3>2
  <2>7. new(q) = {p}
    BY <1>4
  <2>. QED  BY <1>4, <2>3, <2>6, <2>7, <2>4 DEF s, r
<1>5. ASSUME NEW q \in Plugins PROVE Good(q)
  <2>1. CASE ~(ShouldBuild(p) /\ q = Parent(p))
    <3>1. menu'[q] = cleared[q]
      BY <1>0, <1>2, <2>1 DEF WithControls
    <3>2. new(q) = {}
      BY <2>1
    <3>. HIDE DEF new
    <3>. QED  BY <1>3, <3>1, <3>2
  <2>2. CASE ShouldBuild(p) /\ q = Parent(p)
    <3>1. menu'[q] = Append(cleared[q], p)
      BY <1>0, <2>2 DEF WithControls
    <3>. QED  BY <1>4, <2>2, <3>1
  <2>. QED  BY <2>1, <2>2
<1>6. menu' = [q \in Plugins |-> menu'[q]]
  BY <1>0, <1>2 DEF WithControls
<1>7. menu' \in [Plugins -> Seq(Plugins)]
  BY <1>5, <1>6
<1>. QED  BY <1>0, <1>1, <1>2, <1>5, <1>7, ZenonT(30)
-----------------------------------------------------------------------------
(***************************************************************************)
(* The invariant.                                                          *)
(***************************************************************************)
LEMMA InitInv == Init => IInv
<1> SUFFICES ASSUME Init PROVE IInv
  OBVIOUS
<1>. USE DEF Init
<1>1. /\ plugins = [p \in Plugins |-> Destroyed] /\ menu = [p \in Plugins |-> <<>>]
      /\ pc = "initial" /\ ix = 1
  OBVIOUS
<1>2. \A p \in Plugins : /\ plugins[p] = Destroyed /\ ~plugins[p].built /\ menu[p] = <<>>
                         /\ IsDestroyed(plugins[p])
  BY DEF Destroyed, IsDestroyed
<1>3. TypeOK
  <2>1. Destroyed \in PluginData
    BY DEF Destroyed, PluginData
  <2>2. IsInjective(rebuild_ids)
    BY DEF IsInjective
  <2>3. plugins \in [Plugins -> PluginData] /\ menu \in [Plugins -> Seq(Plugins)]
    BY <1>1, <2>1
  <2>4. event_queue \in Seq(Events) /\ rebuild_ids \in Seq(Plugins)
    OBVIOUS
  <2>5. /\ quick_switch_menu \in Modes /\ shortcuts \in Shortcuts
        /\ desktop_count \in Counts /\ need_rebuild \in BOOLEAN
        /\ action \in Events \cup {NoEvent} /\ affected_parents \subseteq Plugins
    OBVIOUS
  <2>. QED  BY <2>2, <2>3, <2>4, <2>5, Zenon DEF TypeOK
<1>4. PassInv
  BY ListFacts DEF PassInv, InPass
<1>5. HoldsInv /\ OrderInv
  BY <1>2 DEF HoldsInv, OrderInv, IsInjective, Range
<1>6. BuiltInv
  BY <1>2, PluginFacts DEF BuiltInv
<1>7. InitialInv
  <2>1. \A p \in Plugins : ~(Position(p) < ix)
    BY ListFacts
  <2>. QED  BY <1>2, <2>1 DEF InitialInv
<1>. QED  BY <1>3, <1>4, <1>5, <1>6, <1>7 DEF IInv, MenuIsCurrent

LEMMA EventFacts ==
    ASSUME TypeOK, NEW e \in Events \cup {NoEvent}, Handle(e)
    PROVE  /\ quick_switch_menu' \in Modes /\ shortcuts' \in Shortcuts
           /\ desktop_count' \in Counts /\ need_rebuild' \in BOOLEAN
<1>1. /\ e.kind = "mode" => e.mode \in Modes
      /\ e.kind = "count" => e.count \in Counts
      /\ e.kind = "shortcuts" => e.shortcuts \in Shortcuts
  BY DEF Events, NoEvent, ModeEvent, CountEvent, ShortcutsEvent
<1>. QED  BY <1>1 DEF TypeOK, Handle

(* Steps in which nothing is built and nothing is to be built, before or   *)
(* after them.                                                             *)
Resting == {"idle", "loop", "modal", "bind"}

LEMMA QuietStep ==
    ASSUME IInv, pc \in Resting, pc' \in {"loop", "check", "modal"}, UNCHANGED <<built, pass>>,
           quick_switch_menu' \in Modes, shortcuts' \in Shortcuts,
           desktop_count' \in Counts, need_rebuild' \in BOOLEAN,
           event_queue' \in Seq(Events), action' \in Events \cup {NoEvent},
           resume' \in {"loop", "check"}
    PROVE  IInv'
<1>0. /\ plugins' = plugins /\ menu' = menu /\ rebuild_ids' = rebuild_ids
      /\ rebuild_id' = rebuild_id /\ ix' = ix /\ affected_parents' = affected_parents
  BY DEF built, pass
<1>1. TypeOK'
  BY <1>0 DEF IInv, TypeOK
<1>2. ~InPass /\ ~InPass'
  BY DEF InPass, Resting
<1>3. PassInv'
  BY <1>0, <1>2 DEF IInv, PassInv, Resting, InPass
<1>4. \A p \in Plugins : Pending(p)' <=> Pending(p)
  BY <1>0, <1>2 DEF Pending, Resting
<1>5. HoldsInv'
  BY <1>0, <1>4 DEF IInv, HoldsInv, Resting
<1>6. OrderInv'
  BY <1>0, <1>2 DEF IInv, OrderInv, Resting
<1>7. BuiltInv'
  <2>1. Parent(Quick)' = Parent(Quick)
    BY <1>0 DEF Parent
  <2>2. ToVisit(Quick)' <=> ToVisit(Quick)
    BY <1>2 DEF ToVisit
  <2>. QED  BY <1>0, <1>4, <2>1, <2>2, PluginFacts DEF IInv, BuiltInv, Resting
<1>8. InitialInv' /\ MenuIsCurrent'
  BY DEF InitialInv, MenuIsCurrent
<1>. QED  BY <1>1, <1>3, <1>5, <1>6, <1>7, <1>8 DEF IInv

(* Events that are queued, and what only the history of events tells.      *)
LEMMA NoStep ==
    ASSUME IInv, event_queue' \in Seq(Events),
           UNCHANGED <<data, built, pass, action, pc, resume>>
    PROVE  IInv'
<1>0. /\ plugins' = plugins /\ menu' = menu /\ rebuild_ids' = rebuild_ids
      /\ rebuild_id' = rebuild_id /\ ix' = ix /\ affected_parents' = affected_parents
      /\ quick_switch_menu' = quick_switch_menu /\ desktop_count' = desktop_count
      /\ shortcuts' = shortcuts /\ need_rebuild' = need_rebuild /\ action' = action /\ pc' = pc /\ resume' = resume
  BY DEF built, pass, data, settings
<1>1. TypeOK'
  BY <1>0 DEF IInv, TypeOK
<1>2. PassInv'
  BY <1>0 DEF IInv, PassInv, InPass
<1>3. \A p \in Plugins : Pending(p)' <=> Pending(p)
  BY <1>0 DEF Pending, InPass
<1>4. HoldsInv'
  BY <1>0, <1>3 DEF IInv, HoldsInv
<1>5. OrderInv'
  BY <1>0 DEF IInv, OrderInv, InPass
<1>6. BuiltInv'
  <2>1. Parent(Quick)' = Parent(Quick)
    BY <1>0 DEF Parent
  <2>2. ToVisit(Quick)' <=> ToVisit(Quick)
    BY <1>0 DEF ToVisit, InPass
  <2>. QED  BY <1>0, <1>3, <2>1, <2>2, PluginFacts DEF IInv, BuiltInv
<1>7. InitialInv' /\ MenuIsCurrent'
  BY <1>0 DEF IInv, InitialInv, MenuIsCurrent, ShouldBuild
<1>. QED  BY <1>1, <1>2, <1>4, <1>5, <1>6, <1>7 DEF IInv

LEMMA EventSteps ==
    ASSUME IInv,
           \/ \E e \in Events : Arrive(e) \/ Delay(e) \/ NestedArrive(e)
           \/ NestedQueued \/ RunQueued \/ RunAction \/ CloseMenu \/ Bind
    PROVE  IInv'
<1>0. TypeOK /\ PassInv
  BY DEF IInv
<1>1. ASSUME NEW e \in Events, Arrive(e) PROVE IInv'
  <2>1. /\ pc \in Resting /\ pc' = "loop" /\ UNCHANGED <<built, pass>>
        /\ UNCHANGED <<data, event_queue, resume>> /\ action' = e
    BY <1>1 DEF Arrive, Resting
  <2>. QED  BY <1>0, <2>1, QuietStep DEF TypeOK, PassInv, data, settings
<1>2. ASSUME NEW e \in Events, Delay(e) PROVE IInv'
  <2>1. event_queue' \in Seq(Events) /\ UNCHANGED <<data, built, pass, action, pc, resume>>
    BY <1>0, <1>2 DEF Delay, TypeOK
  <2>. QED  BY <2>1, NoStep
<1>3. ASSUME NEW e \in Events, NestedArrive(e) PROVE IInv'
  <2>1. /\ pc \in Resting /\ pc' = "modal" /\ UNCHANGED <<built, pass>>
        /\ UNCHANGED <<event_queue, action, resume>> /\ Handle(e)
    BY <1>3 DEF NestedArrive, Handle, Resting
  <2>. QED  BY <1>0, <2>1, EventFacts, QuietStep DEF TypeOK, PassInv
<1>4. ASSUME event_queue # <<>>
      PROVE  Head(event_queue) \in Events /\ Tail(event_queue) \in Seq(Events)
  BY <1>0, <1>4, HeadTailProperties DEF TypeOK
<1>5. CASE NestedQueued
  <2>1. /\ pc \in Resting /\ pc' = "modal" /\ UNCHANGED <<built, pass>>
        /\ UNCHANGED <<action, resume>> /\ Handle(Head(event_queue))
        /\ event_queue # <<>> /\ event_queue' = Tail(event_queue)
    BY <1>5 DEF NestedQueued, Handle, Resting
  <2>. QED  BY <1>0, <1>4, <2>1, EventFacts, QuietStep DEF TypeOK, PassInv
<1>6. CASE RunQueued
  <2>1. /\ pc \in Resting /\ pc' \in {"loop", "modal"} /\ UNCHANGED <<built, pass>>
        /\ action' = action /\ resume' = "loop" /\ Handle(Head(event_queue))
        /\ event_queue # <<>> /\ event_queue' = Tail(event_queue)
    BY <1>6 DEF RunQueued, Run, Handle, Resting
  <2>. QED  BY <1>0, <1>4, <2>1, EventFacts, QuietStep DEF TypeOK, PassInv
<1>7. CASE RunAction
  <2>1. /\ pc \in Resting /\ pc' \in {"check", "modal"} /\ UNCHANGED <<built, pass, event_queue>>
        /\ action' = NoEvent /\ resume' \in {"loop", "check"}
        /\ Handle(action) \/ UNCHANGED data
    BY <1>0, <1>7 DEF RunAction, Run, Handle, Resting, PassInv
  <2>2. /\ quick_switch_menu' \in Modes /\ shortcuts' \in Shortcuts
        /\ desktop_count' \in Counts /\ need_rebuild' \in BOOLEAN
    BY <1>0, <2>1, EventFacts DEF TypeOK, data, settings
  <2>. QED  BY <1>0, <2>1, <2>2, QuietStep DEF TypeOK
<1>8. CASE CloseMenu
  <2>1. /\ pc \in Resting /\ pc' \in {"loop", "check"} /\ UNCHANGED <<built, pass>>
        /\ UNCHANGED <<data, event_queue, action, resume>>
    BY <1>0, <1>8 DEF CloseMenu, Resting, PassInv
  <2>. QED  BY <1>0, <2>1, QuietStep DEF TypeOK, PassInv, data, settings
<1>9. CASE Bind
  <2>1. /\ pc \in Resting /\ pc' = "loop" /\ UNCHANGED <<built, pass>>
        /\ UNCHANGED <<data, event_queue, action, resume>>
    BY <1>9 DEF Bind, Resting, RebuildOnly
  <2>. QED  BY <1>0, <2>1, QuietStep DEF TypeOK, PassInv, data, settings
<1>. QED  BY <1>1, <1>2, <1>3, <1>5, <1>6, <1>7, <1>8, <1>9

LEMMA DestroyStep ==
    ASSUME IInv, Destroy
    PROVE  IInv'
<1>1. /\ pc' = "destroyed" /\ UNCHANGED <<data, pass>> /\ RebuildOnly
      /\ plugins' = [p \in Plugins |-> [plugins[p] EXCEPT !.built = FALSE]]
      /\ menu' = [p \in Plugins |-> <<>>]
  BY DEF Destroy
<1>2. plugins' \in [Plugins -> PluginData]
  <2>1. \A p \in Plugins : [plugins[p] EXCEPT !.built = FALSE] \in PluginData
    BY DEF IInv, TypeOK, PluginData
  <2>. QED  BY <1>1, <2>1
<1>3. TypeOK'
  BY <1>1, <1>2 DEF IInv, TypeOK, data, settings, pass, RebuildOnly
<1>4. PassInv'
  BY <1>1 DEF IInv, PassInv, pass, InPass, RebuildOnly
<1>. QED  BY <1>1, <1>3, <1>4
          DEF IInv, HoldsInv, OrderInv, BuiltInv, InitialInv, MenuIsCurrent
-----------------------------------------------------------------------------
(***************************************************************************)
(* Looking for plugins to rebuild.                                         *)
(***************************************************************************)
LEMMA CheckStep ==
    ASSUME IInv, Check
    PROVE  IInv'
<1>. DEFINE found == {p \in Plugins : Invalid(p)}
<1>1. /\ rebuild_ids' = InListOrder(found)
      /\ pc = "check" /\ pc' = IF rebuild_ids' = <<>> THEN "idle" ELSE "next"
      /\ RebuildOnly /\ UNCHANGED <<data, built, rebuild_id, ix, affected_parents>>
  BY DEF Check
<1>2. /\ plugins' = plugins /\ menu' = menu /\ rebuild_ids = <<>>
      /\ rebuild_id' = rebuild_id /\ ix' = ix /\ affected_parents' = affected_parents
      /\ quick_switch_menu' = quick_switch_menu /\ desktop_count' = desktop_count
      /\ shortcuts' = shortcuts /\ need_rebuild' = need_rebuild /\ resume' = resume
  BY <1>1 DEF built, data, settings, RebuildOnly, IInv, PassInv
<1>3. /\ rebuild_ids' \in Seq(Plugins) /\ IsInjective(rebuild_ids')
      /\ rebuild_ids' = <<>> => found = {}
  <2>. HIDE DEF found
  <2>1. found \in SUBSET Plugins
    BY DEF found
  <2>. QED  BY <1>1, <2>1, InListOrderFacts
<1>. HIDE DEF found
<1>4. TypeOK'
  BY <1>1, <1>2, <1>3 DEF IInv, TypeOK, RebuildOnly
<1>5. PassInv'
  BY <1>1, <1>2 DEF IInv, PassInv, InPass
<1>6. ~InPass /\ ~InPass' /\ \A p \in Plugins : ~Pending(p)
  BY <1>1, <1>2 DEF InPass, Pending, Contains
<1>7. HoldsInv'
  BY <1>1, <1>2, <1>6 DEF IInv, HoldsInv
<1>8. OrderInv'
  BY <1>1, <1>2, <1>6 DEF IInv, OrderInv
<1>9. /\ ~ToVisit(Quick) /\ Parent(Quick)' = Parent(Quick)
      /\ plugins[Quick].built => plugins[Quick].parent = Parent(Quick)
  BY <1>1, <1>2, <1>6, PluginFacts DEF IInv, BuiltInv, ToVisit, Parent
<1>10. BuiltInv'
  BY <1>1, <1>2, <1>9 DEF IInv, BuiltInv
<1>11. InitialInv'
  BY <1>1 DEF InitialInv
<1>12. ASSUME pc' = "idle" PROVE MenuIsCurrent'
  <2>1. \A p \in Plugins : ~Invalid(p)
    BY <1>1, <1>3, <1>12 DEF found
  <2>2. ~need_rebuild
    BY <2>1, PluginFacts DEF Invalid
  <2>3. desktop_count # 0 /\ desktop_count \in Counts /\ 0 \notin Counts
    BY CountAssumption DEF IInv, TypeOK
  <2>4. plugins[Submenu].built = (quick_switch_menu = "SubMenu")
    <3>1. Submenu \in Plugins /\ ~Invalid(Submenu)
      BY <2>1, PluginFacts
    <3>. QED  BY <3>1 DEF Invalid
  <2>5. ASSUME NEW p \in {Quick, Flat}
        PROVE  plugins[p].built = ShouldBuild(p) /\ (plugins[p].built => plugins[p].count = desktop_count)
    <3>1. plugins[p].count = Wanted(p)
      BY <2>1, PluginFacts DEF Invalid
    <3>2. p \in Plugins /\ plugins[p].built \in BOOLEAN
      BY PluginFacts DEF IInv, TypeOK, PluginData
    <3>3. plugins[p].built => plugins[p].count \in Counts
      BY <1>1, <3>2 DEF IInv, BuiltInv
    <3>4. ~plugins[p].built => plugins[p].count = 0
      BY <1>1, <3>2 DEF IInv, BuiltInv, IsDestroyed
    <3>5. ShouldBuild(p) <=> Wanted(p) # 0
      BY <2>3, PluginFacts DEF ShouldBuild, Wanted
    <3>6. Wanted(p) \in {0, desktop_count}
      BY DEF Wanted
    <3>7. ShouldBuild(p) \in BOOLEAN
      BY PluginFacts DEF ShouldBuild
    <3>. QED  BY <2>3, <3>1, <3>2, <3>3, <3>4, <3>5, <3>6, <3>7
  <2>6. \A p \in {Root, Top, Bottom} : plugins[p].built = TRUE /\ ShouldBuild(p) = TRUE
    <3>1. \A p \in {Root, Top, Bottom} : p \in Plugins /\ plugins[p].built
      BY <1>1, PluginFacts DEF IInv, BuiltInv
    <3>2. \A p \in Plugins : plugins[p].built \in BOOLEAN
      BY DEF IInv, TypeOK, PluginData
    <3>. QED  BY <3>1, <3>2, PluginFacts DEF ShouldBuild
  <2>7. ShouldBuild(Submenu) = (quick_switch_menu = "SubMenu")
    BY PluginFacts DEF ShouldBuild
  <2>8. \A p \in Plugins : plugins[p].built = ShouldBuild(p)
    BY <2>4, <2>5, <2>6, <2>7, PluginFacts
  <2>9. \A p \in Plugins : ShouldBuild(p)' = ShouldBuild(p)
    BY <1>2 DEF ShouldBuild
  <2>10. plugins[Quick].built =>
             plugins[Quick].parent = IF quick_switch_menu = "SubMenu" THEN Submenu ELSE Root
    BY <1>9, <2>4, ParentFacts, PluginFacts
  <2>11. plugins[Quick].shortcuts = shortcuts
    BY <2>1, PluginFacts DEF Invalid
  <2>. QED  BY <1>2, <2>2, <2>5, <2>8, <2>9, <2>10, <2>11 DEF MenuIsCurrent
<1>13. MenuIsCurrent'
  BY <1>12 DEF MenuIsCurrent
<1>. QED  BY <1>4, <1>5, <1>7, <1>8, <1>10, <1>11, <1>13 DEF IInv

LEMMA NextPassStep ==
    ASSUME IInv, NextPass
    PROVE  IInv'
<1>1. /\ pc = "next" /\ affected_parents' = {} /\ RebuildOnly /\ UNCHANGED <<data, built>>
      /\ \/ /\ rebuild_ids = <<>> /\ pc' = "bind" /\ rebuild_ids' = rebuild_ids
            /\ rebuild_id' = rebuild_id /\ ix' = ix
         \/ /\ rebuild_ids # <<>> /\ pc' = "visit" /\ rebuild_ids' = Tail(rebuild_ids)
            /\ rebuild_id' = Head(rebuild_ids) /\ ix' = 1
  BY DEF NextPass
<1>2. /\ plugins' = plugins /\ menu' = menu /\ quick_switch_menu' = quick_switch_menu
      /\ shortcuts' = shortcuts /\ desktop_count' = desktop_count
      /\ need_rebuild' = need_rebuild /\ resume' = resume
  BY <1>1 DEF built, data, settings, RebuildOnly
<1>3. rebuild_ids \in Seq(Plugins) /\ IsInjective(rebuild_ids)
  BY DEF IInv, TypeOK
<1>4. rebuild_ids # <<>> =>
          /\ Head(rebuild_ids) \in Plugins
          /\ Tail(rebuild_ids) \in Seq(Plugins) /\ IsInjective(Tail(rebuild_ids))
          /\ Range(Tail(rebuild_ids)) = Range(rebuild_ids) \ {Head(rebuild_ids)}
  BY <1>3, HeadTailFacts
<1>5. TypeOK'
  BY <1>1, <1>2, <1>3, <1>4 DEF IInv, TypeOK, RebuildOnly
<1>6. PassInv'
  BY <1>1, <1>2, <1>4, ListFacts DEF IInv, PassInv, InPass
<1>7. ASSUME NEW p \in Plugins, Pending(p) PROVE Pending(p)'
  <2>1. p \in Range(rebuild_ids)
    BY <1>1, <1>3, <1>7, ContainsFacts DEF Pending, InPass
  <2>2. rebuild_ids # <<>>
    BY <2>1 DEF Range
  <2>3. p = rebuild_id' \/ p \in Range(rebuild_ids')
    BY <1>1, <1>4, <2>1, <2>2
  <2>4. rebuild_ids' \in Seq(Plugins) /\ InPass'
    BY <1>1, <1>4, <2>2 DEF InPass
  <2>. QED  BY <1>1, <2>3, <2>4, ContainsFacts DEF Pending
<1>8. HoldsInv'
  BY <1>1, <1>2, <1>7 DEF IInv, HoldsInv
<1>9. OrderInv'
  BY <1>1, <1>2 DEF IInv, OrderInv, InPass
<1>10. BuiltInv'
  <2>1. ~ToVisit(Quick) /\ Parent(Quick)' = Parent(Quick)
    BY <1>1, <1>2 DEF ToVisit, InPass, Parent
  <2>. QED  BY <1>1, <1>2, <1>7, <2>1, PluginFacts DEF IInv, BuiltInv
<1>. QED  BY <1>1, <1>5, <1>6, <1>8, <1>9, <1>10 DEF IInv, InitialInv, MenuIsCurrent

LEMMA TakeOutStep ==
    ASSUME IInv, TakeOut
    PROVE  IInv'
<1>. DEFINE found == {i \in DOMAIN List : i >= ix /\ ToRebuild(List[i])}
<1>1. /\ pc = "visit" /\ RebuildOnly /\ UNCHANGED <<data, built, rebuild_id, affected_parents>>
      /\ \/ found = {} /\ pc' = "next" /\ ix' = ix /\ rebuild_ids' = rebuild_ids
         \/ /\ found # {} /\ pc' = "hooks" /\ ix' = Min(found)
            /\ rebuild_ids' = RemoveFirst(rebuild_ids, List[ix'])
  BY DEF TakeOut
<1>2. /\ plugins' = plugins /\ menu' = menu /\ quick_switch_menu' = quick_switch_menu
      /\ shortcuts' = shortcuts /\ desktop_count' = desktop_count
      /\ need_rebuild' = need_rebuild /\ resume' = resume
      /\ rebuild_id' = rebuild_id /\ affected_parents' = affected_parents
  BY <1>1 DEF built, data, settings, RebuildOnly
<1>3. /\ rebuild_ids \in Seq(Plugins) /\ IsInjective(rebuild_ids) /\ ix \in Nat
  BY ListFacts DEF IInv, TypeOK, PassInv
<1>4. found # {} => ix' \in found /\ ix' \in 1..6 /\ \A i \in found : ix' <= i
  <2>1. found \subseteq 1..6 /\ found \in SUBSET Nat
    BY ListFacts
  <2>2. found # {} => ix' = Min(found)
    BY <1>1
  <2>. HIDE DEF found
  <2>3. found # {} => Min(found) \in found /\ \A i \in found : Min(found) <= i
    BY <2>1, MinFacts
  <2>. QED  BY <2>1, <2>2, <2>3
<1>5. \A p \in Plugins : Position(p) >= ix /\ ToRebuild(p) => Position(p) \in found
  BY ListFacts
<1>6. found # {} => ToRebuild(List[ix'])
  BY <1>4
<1>7. found = {} => affected_parents # {}
  <2> SUFFICES ASSUME affected_parents = {} PROVE found # {}
    OBVIOUS
  <2>1. ix = 1 /\ rebuild_id \in Plugins
    BY <1>1 DEF IInv, PassInv, InPass
  <2>2. Position(rebuild_id) >= ix /\ ToRebuild(rebuild_id)
    BY <2>1, ListFacts DEF ToRebuild
  <2>. QED  BY <1>5, <2>1, <2>2
<1>. HIDE DEF found
<1>8. /\ rebuild_ids' \in Seq(Plugins) /\ IsInjective(rebuild_ids')
      /\ \A p \in Range(rebuild_ids) : p \in Range(rebuild_ids') \/ (pc' = "hooks" /\ p = List[ix'])
  BY <1>1, <1>3, RemoveFirstFacts
<1>9. TypeOK'
  BY <1>1, <1>2, <1>8 DEF IInv, TypeOK, RebuildOnly
<1>10. PassInv'
  BY <1>1, <1>2, <1>4, <1>6, ListFacts DEF IInv, PassInv, InPass, ToRebuild
<1>11. ASSUME NEW p \in Plugins, Pending(p) PROVE Pending(p)'
  <2>1. p \in Range(rebuild_ids) \/ (affected_parents = {} /\ p = rebuild_id)
    BY <1>1, <1>3, <1>11, ContainsFacts DEF Pending
  <2>2. CASE p \in Range(rebuild_ids')
    BY <1>8, <2>2, ContainsFacts DEF Pending
  <2>3. CASE pc' = "hooks" /\ p = List[ix']
    BY <2>3 DEF Pending
  <2>4. CASE affected_parents = {} /\ p = rebuild_id
    <3>1. InPass'
      BY <1>1, <1>7, <2>4 DEF InPass
    <3>. QED  BY <1>2, <2>4, <3>1 DEF Pending
  <2>. QED  BY <1>8, <2>1, <2>2, <2>3, <2>4
<1>12. HoldsInv'
  BY <1>1, <1>2, <1>11 DEF IInv, HoldsInv
(* A plugin that this pass would still visit is not skipped.               *)
<1>13. ASSUME NEW p \in Plugins, plugins[p].parent \in affected_parents, Position(p) >= ix
       PROVE  found # {} /\ Position(p) >= ix'
  <2>1. ToRebuild(p)
    BY <1>13 DEF ToRebuild
  <2>2. Position(p) \in found
    BY <1>5, <1>13, <2>1
  <2>. QED  BY <1>4, <2>2, ListFacts
<1>14. OrderInv'
  <2> SUFFICES ASSUME NEW q \in Plugins, NEW i \in DOMAIN menu[q], NEW j \in DOMAIN menu[q], i < j,
                      q \in affected_parents, Position(menu[q][i]) >= ix
               PROVE  InPass' /\ Position(menu[q][i]) >= ix'
    BY <1>1, <1>2 DEF IInv, OrderInv
  <2>1. menu[q][i] \in Plugins /\ plugins[menu[q][i]].parent = q
    BY <1>1 DEF IInv, TypeOK, HoldsInv, Range
  <2>2. found # {} /\ Position(menu[q][i]) >= ix'
    BY <1>13, <2>1
  <2>. QED  BY <1>1, <2>2 DEF InPass
<1>15. BuiltInv'
  <2>1. Parent(Quick)' = Parent(Quick)
    BY <1>2 DEF Parent
  <2>2. ASSUME ToVisit(Quick) PROVE ToVisit(Quick)'
    <3>1. Quick \in Plugins /\ plugins[Quick].parent \in affected_parents /\ Position(Quick) >= ix
      BY <2>2, PluginFacts DEF ToVisit
    <3>2. found # {} /\ Position(Quick) >= ix'
      BY <1>13, <3>1
    <3>. QED  BY <1>1, <1>2, <3>1, <3>2 DEF ToVisit, InPass
  <2>. QED  BY <1>1, <1>2, <1>11, <2>1, <2>2, PluginFacts DEF IInv, BuiltInv
<1>. QED  BY <1>1, <1>9, <1>10, <1>12, <1>14, <1>15 DEF IInv, InitialInv, MenuIsCurrent
-----------------------------------------------------------------------------
(***************************************************************************)
(* Builds.                                                                 *)
(***************************************************************************)

(* What both kinds of builds have in common.                               *)
LEMMA AfterBuild ==
    ASSUME IInv, pc # "destroyed", NEW p \in Plugins, Build(p)
    PROVE  /\ TypeOK /\ Holding /\ Holding'
           /\ quick_switch_menu' = quick_switch_menu /\ desktop_count' = desktop_count
           /\ shortcuts' = shortcuts
           /\ \A x \in Plugins : x # p => plugins'[x] = plugins[x]
           /\ plugins'[p] = IF ShouldBuild(p) THEN BuiltData(p) ELSE NotBuilt(p)
           /\ plugins'[p].built = ShouldBuild(p)
           /\ plugins'[p].parent = IF ShouldBuild(p) THEN Parent(p) ELSE None
           /\ \A x \in Plugins :
                  /\ ~plugins'[x].built => IsDestroyed(plugins'[x])
                  /\ plugins'[x].built /\ x = Root => plugins'[x].parent = None
                  /\ plugins'[x].built /\ x \notin {Root, Quick} => plugins'[x].parent = Root
                  /\ plugins'[x].built /\ x \in {Quick, Flat} => plugins'[x].count \in Counts
           /\ p \in {Quick, Flat} /\ plugins'[p].built => plugins'[p].count = desktop_count
           /\ p = Quick => plugins'[p].shortcuts = shortcuts
           /\ p # Submenu => Parent(Quick)' = Parent(Quick)
<1>1. TypeOK /\ Holding
  BY DEF IInv, HoldsInv, Holding
<1>2. /\ menu' \in [Plugins -> Seq(Plugins)]
      /\ plugins' = [plugins EXCEPT ![p] = IF ShouldBuild(p) THEN BuiltData(p) ELSE NotBuilt(p)]
      /\ plugins \in [Plugins -> PluginData]
      /\ \A q \in Plugins :
             /\ IsInjective(menu'[q])
             /\ Range(menu'[q]) =
                    (IF q = p /\ plugins[p].built THEN {} ELSE Range(menu[q]) \ {p})
                    \cup (IF ShouldBuild(p) /\ q = Parent(p) THEN {p} ELSE {})
  BY <1>1, BuildFacts DEF TypeOK
<1>3. /\ \A x \in Plugins : x # p => plugins'[x] = plugins[x]
      /\ plugins'[p] = IF ShouldBuild(p) THEN BuiltData(p) ELSE NotBuilt(p)
  BY <1>2
<1>4. ShouldBuild(p) \in BOOLEAN
  BY PluginFacts DEF ShouldBuild
<1>5. /\ plugins'[p].built = ShouldBuild(p)
      /\ plugins'[p].parent = IF ShouldBuild(p) THEN Parent(p) ELSE None
      /\ p \in {Quick, Flat} /\ plugins'[p].built => plugins'[p].count = desktop_count
      /\ p = Quick => plugins'[p].shortcuts = shortcuts
      /\ ~ShouldBuild(p) => IsDestroyed(plugins'[p])
  <2>1. CASE ShouldBuild(p)
    <3>1. plugins'[p] = BuiltData(p)
      BY <1>3, <2>1
    <3>. QED  BY <1>1, <1>4, <2>1, <3>1, BuiltDataFacts
  <2>2. CASE ~ShouldBuild(p)
    <3>1. plugins'[p] = NotBuilt(p)
      BY <1>3, <2>2
    <3>2. /\ NotBuilt(p).built = FALSE /\ NotBuilt(p).parent = None
          /\ IsDestroyed(NotBuilt(p))
          /\ p = Quick => NotBuilt(p).shortcuts = shortcuts
      BY <1>1, BuiltDataFacts DEF IsDestroyed
    <3>3. ShouldBuild(p) = FALSE
      BY <1>4, <2>2
    <3>. QED  BY <2>2, <3>1, <3>2, <3>3
  <2>. QED  BY <2>1, <2>2
<1>6. /\ quick_switch_menu' = quick_switch_menu /\ shortcuts' = shortcuts
      /\ desktop_count' = desktop_count
  BY DEF Build, settings
<1>7. Holding'
  <2> SUFFICES ASSUME NEW q \in Plugins, NEW x \in Range(menu'[q])
               PROVE  plugins'[x].built /\ plugins'[x].parent = q
    BY <1>2 DEF Holding
  <2>1. CASE x \in Range(menu[q]) \ {p}
    <3>1. x \in Plugins
      BY <1>1, <2>1 DEF TypeOK, Range
    <3>. QED  BY <1>1, <1>3, <2>1, <3>1 DEF Holding
  <2>2. CASE ShouldBuild(p) /\ q = Parent(p) /\ x = p
    BY <1>5, <2>2
  <2>. QED  BY <1>2, <2>1, <2>2
<1>8. ASSUME NEW x \in Plugins
      PROVE  /\ ~plugins'[x].built => IsDestroyed(plugins'[x])
             /\ plugins'[x].built /\ x = Root => plugins'[x].parent = None
             /\ plugins'[x].built /\ x \notin {Root, Quick} => plugins'[x].parent = Root
             /\ plugins'[x].built /\ x \in {Quick, Flat} => plugins'[x].count \in Counts
  <2>1. CASE x # p
    BY <1>3, <2>1 DEF IInv, BuiltInv
  <2>2. CASE x = p
    BY <1>1, <1>3, <1>4, <1>5, <2>2, ParentFacts DEF TypeOK
  <2>. QED  BY <2>1, <2>2
<1>9. p # Submenu => Parent(Quick)' = Parent(Quick)
  BY <1>3, ParentFacts, PluginFacts DEF Parent
<1>. QED  BY <1>1, <1>3, <1>5, <1>6, <1>7, <1>8, <1>9

LEMMA InitialBuildStep ==
    ASSUME IInv, InitialBuild
    PROVE  IInv'
<1>. DEFINE p == List[ix]
<1>1. /\ pc = "initial" /\ Build(p) /\ RebuildOnly
      /\ UNCHANGED <<rebuild_ids, rebuild_id, affected_parents>>
      /\ IF ix = Len(List) THEN pc' = "idle" /\ ix' = 1 ELSE ix' = ix + 1 /\ pc' = pc
  BY DEF InitialBuild
<1>2. ix \in 1..6 /\ p \in Plugins /\ Position(p) = ix /\ Len(List) = 6 /\ rebuild_ids = <<>>
  BY <1>1, ListFacts DEF IInv, PassInv
<1>3. TypeOK /\ Holding /\ PassInv /\ OrderInv /\ InitialInv /\ BuiltInv
  BY <1>1 DEF IInv, HoldsInv, Holding
<1>. HIDE DEF p
<1>4. /\ Holding'
      /\ quick_switch_menu' = quick_switch_menu /\ desktop_count' = desktop_count
      /\ shortcuts' = shortcuts
      /\ \A x \in Plugins : x # p => plugins'[x] = plugins[x]
      /\ plugins'[p] = IF ShouldBuild(p) THEN BuiltData(p) ELSE NotBuilt(p)
      /\ plugins'[p].built = ShouldBuild(p)
      /\ plugins'[p].parent = IF ShouldBuild(p) THEN Parent(p) ELSE None
      /\ \A x \in Plugins :
             /\ ~plugins'[x].built => IsDestroyed(plugins'[x])
             /\ plugins'[x].built /\ x = Root => plugins'[x].parent = None
             /\ plugins'[x].built /\ x \notin {Root, Quick} => plugins'[x].parent = Root
             /\ plugins'[x].built /\ x \in {Quick, Flat} => plugins'[x].count \in Counts
      /\ p \in {Quick, Flat} /\ plugins'[p].built => plugins'[p].count = desktop_count
      /\ p = Quick => plugins'[p].shortcuts = shortcuts
      /\ p # Submenu => Parent(Quick)' = Parent(Quick)
  BY <1>1, <1>2, AfterBuild
<1>5. /\ menu' \in [Plugins -> Seq(Plugins)]
      /\ plugins' = [plugins EXCEPT ![p] = IF ShouldBuild(p) THEN BuiltData(p) ELSE NotBuilt(p)]
      /\ plugins' \in [Plugins -> PluginData]
      /\ \A q \in Plugins :
             /\ IsInjective(menu'[q])
             /\ Range(menu'[q]) =
                    (IF q = p /\ plugins[p].built THEN {} ELSE Range(menu[q]) \ {p})
                    \cup (IF ShouldBuild(p) /\ q = Parent(p) THEN {p} ELSE {})
             /\ \A i, j \in DOMAIN menu'[q] : i < j =>
                    /\ menu'[q][i] # p
                    /\ \/ /\ q = Parent(p) /\ ShouldBuild(p)
                          /\ menu'[q][j] = p /\ menu'[q][i] \in Range(menu[q])
                       \/ \E k, l \in DOMAIN menu[q] :
                              k < l /\ menu[q][k] = menu'[q][i] /\ menu[q][l] = menu'[q][j]
  BY <1>1, <1>2, <1>3, BuildFacts
<1>6. ~plugins[p].built
  BY <1>1, <1>2, <1>3 DEF InitialInv, Destroyed
<1>7. \A x \in Plugins : plugins[x].built => Position(x) < ix
  <2>1. \A x \in Plugins : Position(x) >= ix => ~plugins[x].built
    BY <1>1, <1>3 DEF InitialInv, Destroyed
  <2>. QED  BY <1>2, <2>1, ListFacts
<1>8. TypeOK'
  BY <1>1, <1>3, <1>4, <1>5 DEF TypeOK, RebuildOnly, Build
<1>9. PassInv'
  BY <1>1, <1>2, <1>3 DEF PassInv, InPass, RebuildOnly
<1>10. ~InPass /\ ~InPass' /\ \A x \in Plugins : ~Pending(x)
  BY <1>1, <1>2 DEF InPass, Pending, Contains
<1>11. HoldsInv'
  <2> SUFFICES ASSUME NEW q \in Plugins, NEW x \in Plugins, plugins'[x].built, plugins'[x].parent = q
               PROVE  x \in Range(menu'[q])
    BY <1>4 DEF HoldsInv, Holding
  <2>1. CASE x = p
    BY <1>4, <1>5, <2>1, PluginFacts
  <2>2. CASE x # p
    <3>1. x \in Range(menu[q])
      BY <1>1, <1>4, <1>10, <2>2 DEF IInv, HoldsInv
    <3>. QED  BY <1>5, <1>6, <2>2, <3>1
  <2>. QED  BY <2>1, <2>2
<1>12. OrderInv'
  <2> SUFFICES ASSUME NEW q \in Plugins, NEW i \in DOMAIN menu'[q], NEW j \in DOMAIN menu'[q], i < j
               PROVE  Position(menu'[q][i]) < Position(menu'[q][j])
    BY DEF OrderInv
  <2>1. CASE menu'[q][j] = p /\ menu'[q][i] \in Range(menu[q])
    <3>1. menu'[q][i] \in Plugins /\ plugins[menu'[q][i]].built
      BY <1>3, <2>1 DEF Holding, TypeOK, Range
    <3>. QED  BY <1>2, <1>7, <2>1, <3>1
  <2>2. CASE \E k, l \in DOMAIN menu[q] :
                 k < l /\ menu[q][k] = menu'[q][i] /\ menu[q][l] = menu'[q][j]
    BY <1>1, <1>3, <1>10, <2>2 DEF OrderInv
  <2>. QED  BY <1>5, <2>1, <2>2
<1>13. plugins'[Quick].built => plugins'[Quick].parent = Parent(Quick)'
  <2>1. CASE p = Quick
    BY <1>4, <2>1, PluginFacts
  <2>2. CASE p # Quick
    <3>1. plugins[Quick].built => plugins[Quick].parent = Parent(Quick)
      BY <1>1, <1>3, <1>10, PluginFacts DEF BuiltInv, ToVisit
    <3>2. p = Submenu => ~plugins[Quick].built
      BY <1>2, <1>7, ListFacts, PluginFacts
    <3>. QED  BY <1>4, <2>2, <3>1, <3>2, PluginFacts
  <2>. QED  BY <2>1, <2>2
<1>14. \A x \in Plugins : ShouldBuild(x)' = ShouldBuild(x)
  BY <1>4 DEF ShouldBuild
<1>15. \A x \in Plugins : x = p \/ Position(x) < ix \/ Position(x) >= ix + 1
  BY <1>2, ListFacts, PositionsDiffer
<1>16. \A x \in Plugins :
           /\ Position(x) < ix + 1 =>
                  /\ plugins'[x].built = ShouldBuild(x)'
                  /\ x \in {Quick, Flat} /\ plugins'[x].built => plugins'[x].count = desktop_count'
                  /\ x = Quick => plugins'[x].shortcuts = shortcuts'
           /\ Position(x) >= ix + 1 => plugins'[x] = Destroyed
  <2> TAKE x \in Plugins
  <2>1. CASE x = p
    BY <1>2, <1>4, <1>14, <2>1
  <2>2. CASE x # p
    <3>1. /\ Position(x) < ix + 1 => Position(x) < ix
          /\ Position(x) >= ix + 1 => Position(x) >= ix
      BY <1>2, <1>15, <2>2, ListFacts
    <3>. QED  BY <1>1, <1>3, <1>4, <1>14, <2>2, <3>1 DEF InitialInv
  <2>. QED  BY <2>1, <2>2
<1>17. ~need_rebuild'
  BY <1>1, <1>3 DEF InitialInv, Build
<1>18. InitialInv'
  BY <1>1, <1>16, <1>17 DEF InitialInv
<1>19. ASSUME pc' # "initial"
       PROVE  \A x \in Plugins :
                  /\ plugins'[x].built = ShouldBuild(x)'
                  /\ x \in {Quick, Flat} /\ plugins'[x].built => plugins'[x].count = desktop_count'
                  /\ x = Quick => plugins'[x].shortcuts = shortcuts'
  <2>1. ix = 6
    BY <1>1, <1>2, <1>19
  <2>. QED  BY <1>16, <2>1, ListFacts
<1>20. BuiltInv'
  <2>1. pc' # "initial" => \A x \in {Root, Top, Bottom} : plugins'[x].built
    BY <1>14, <1>19, PluginFacts DEF ShouldBuild
  <2>2. plugins'[Quick].built => plugins'[Quick].parent \in {Root, Submenu}
    BY <1>13, ParentFacts, PluginFacts DEF Parent
  <2>. QED  BY <1>4, <1>13, <2>1, <2>2 DEF BuiltInv
<1>21. MenuIsCurrent'
  <2> SUFFICES ASSUME pc' = "idle" PROVE MenuIsCurrent'
    BY DEF MenuIsCurrent
  <2>1. \A x \in Plugins :
            /\ plugins'[x].built = ShouldBuild(x)'
            /\ x \in {Quick, Flat} /\ plugins'[x].built => plugins'[x].count = desktop_count'
            /\ x = Quick => plugins'[x].shortcuts = shortcuts'
    BY <1>19
  <2>2. plugins'[Quick].built =>
            plugins'[Quick].parent = IF quick_switch_menu' = "SubMenu" THEN Submenu ELSE Root
    BY <1>13, <2>1, PluginFacts DEF Parent, ShouldBuild
  <2>. QED  BY <1>17, <2>1, <2>2, PluginFacts DEF MenuIsCurrent
<1>. QED  BY <1>8, <1>9, <1>11, <1>12, <1>18, <1>20, <1>21 DEF IInv
-----------------------------------------------------------------------------
LEMMA PutBackStep ==
    ASSUME IInv, PutBack
    PROVE  IInv'
<1>. DEFINE p == List[ix]
            inside == {q \in Plugins : plugins'[q].parent = p /\ ~Contains(rebuild_ids, q)}
<1>1. /\ pc = "hooks" /\ Build(p) /\ RebuildOnly /\ rebuild_id' = rebuild_id
      /\ affected_parents' = affected_parents \cup ({plugins'[p].parent} \ {None})
      /\ rebuild_ids' = rebuild_ids \o InListOrder(inside)
      /\ pc' = IF affected_parents' = {} THEN "next" ELSE "visit"
      /\ ix' = ix + 1
  BY DEF PutBack, Children
<1>2. ix \in 1..6 /\ p \in Plugins /\ Position(p) = ix /\ Len(List) = 6
  BY <1>1, ListFacts DEF IInv, PassInv
<1>3. TypeOK /\ Holding /\ PassInv /\ OrderInv /\ BuiltInv
  BY <1>1 DEF IInv, HoldsInv, Holding
<1>. HIDE DEF p
<1>4. /\ Holding'
      /\ quick_switch_menu' = quick_switch_menu /\ desktop_count' = desktop_count
      /\ shortcuts' = shortcuts
      /\ \A x \in Plugins : x # p => plugins'[x] = plugins[x]
      /\ plugins'[p] = IF ShouldBuild(p) THEN BuiltData(p) ELSE NotBuilt(p)
      /\ plugins'[p].built = ShouldBuild(p)
      /\ plugins'[p].parent = IF ShouldBuild(p) THEN Parent(p) ELSE None
      /\ \A x \in Plugins :
             /\ ~plugins'[x].built => IsDestroyed(plugins'[x])
             /\ plugins'[x].built /\ x = Root => plugins'[x].parent = None
             /\ plugins'[x].built /\ x \notin {Root, Quick} => plugins'[x].parent = Root
             /\ plugins'[x].built /\ x \in {Quick, Flat} => plugins'[x].count \in Counts
      /\ p # Submenu => Parent(Quick)' = Parent(Quick)
  BY <1>1, <1>2, AfterBuild
<1>5. /\ menu' \in [Plugins -> Seq(Plugins)]
      /\ plugins' = [plugins EXCEPT ![p] = IF ShouldBuild(p) THEN BuiltData(p) ELSE NotBuilt(p)]
      /\ plugins' \in [Plugins -> PluginData]
      /\ \A q \in Plugins :
             /\ IsInjective(menu'[q])
             /\ Range(menu'[q]) =
                    (IF q = p /\ plugins[p].built THEN {} ELSE Range(menu[q]) \ {p})
                    \cup (IF ShouldBuild(p) /\ q = Parent(p) THEN {p} ELSE {})
             /\ \A i, j \in DOMAIN menu'[q] : i < j =>
                    /\ menu'[q][i] # p
                    /\ \/ /\ q = Parent(p) /\ ShouldBuild(p)
                          /\ menu'[q][j] = p /\ menu'[q][i] \in Range(menu[q])
                       \/ \E k, l \in DOMAIN menu[q] :
                              k < l /\ menu[q][k] = menu'[q][i] /\ menu[q][l] = menu'[q][j]
  BY <1>1, <1>2, <1>3, BuildFacts
(* Everything inside the plugin waits to be built again.                   *)
<1>6. /\ rebuild_ids' \in Seq(Plugins) /\ IsInjective(rebuild_ids')
      /\ Range(rebuild_ids') = Range(rebuild_ids) \cup inside
  <2>1. /\ InListOrder(inside) \in Seq(Plugins) /\ IsInjective(InListOrder(inside))
        /\ Range(InListOrder(inside)) = inside
    <3>1. inside \in SUBSET Plugins
      OBVIOUS
    <3>. HIDE DEF inside
    <3>. QED  BY <3>1, InListOrderFacts
  <2>2. rebuild_ids \in Seq(Plugins) /\ IsInjective(rebuild_ids)
    BY <1>3 DEF TypeOK
  <2>3. Range(rebuild_ids) \cap inside = {}
    BY <2>2, ContainsFacts
  <2>. HIDE DEF inside
  <2>. QED  BY <1>1, <2>1, <2>2, <2>3, ConcatFacts
<1>7. \A x \in Plugins : x \in Range(rebuild_ids') => Pending(x)'
  BY <1>6, ContainsFacts DEF Pending
<1>8. \A x \in Plugins : plugins'[x].parent = p => Pending(x)'
  <2> SUFFICES ASSUME NEW x \in Plugins, plugins'[x].parent = p PROVE x \in Range(rebuild_ids')
    BY <1>7
  <2>. QED  BY <1>3, <1>6, ContainsFacts DEF TypeOK
<1>. HIDE DEF inside
<1>9. ASSUME NEW x \in Plugins, x # p, Pending(x) PROVE Pending(x)'
  <2>1. ~(affected_parents = {} /\ x = rebuild_id)
    BY <1>1, <1>3, <1>9 DEF PassInv, p
  <2>2. x \in Range(rebuild_ids)
    BY <1>3, <1>9, <2>1, ContainsFacts DEF Pending, TypeOK, p
  <2>. QED  BY <1>6, <1>7, <2>2
<1>10. ASSUME NEW q \in affected_parents
       PROVE  q \in affected_parents' /\ InPass' /\ InPass
  BY <1>1 DEF InPass
<1>11. /\ plugins'[p].parent \in Plugins => plugins'[p].parent \in affected_parents' /\ InPass'
       /\ affected_parents' \subseteq Plugins
  <2>1. plugins'[p].parent \in Plugins \cup {None}
    BY <1>2, <1>4, ParentFacts
  <2>2. affected_parents \subseteq Plugins
    BY <1>3 DEF TypeOK
  <2>. QED  BY <1>1, <2>1, <2>2, PluginFacts DEF InPass
<1>12. TypeOK'
  BY <1>1, <1>3, <1>4, <1>5, <1>6, <1>11 DEF TypeOK, RebuildOnly, Build
<1>13. PassInv'
  BY <1>1, <1>2, <1>3 DEF PassInv, InPass, RebuildOnly
<1>14. HoldsInv'
  <2> SUFFICES ASSUME NEW q \in Plugins, NEW x \in Plugins, plugins'[x].built, plugins'[x].parent = q,
                      ~Pending(x)'
               PROVE  x \in Range(menu'[q])
    BY <1>4 DEF HoldsInv, Holding
  <2>1. CASE x = p
    BY <1>4, <1>5, <2>1, PluginFacts
  <2>2. CASE x # p
    <3>1. x \in Range(menu[q])
      BY <1>1, <1>4, <1>9, <2>2 DEF IInv, HoldsInv
    <3>2. q # p
      BY <1>8
    <3>. QED  BY <1>5, <2>2, <3>1, <3>2
  <2>. QED  BY <2>1, <2>2
(* The plugin comes last in its menu: what comes before it in vain is a    *)
(* later sibling, that this pass goes on to.                               *)
<1>15. OrderInv'
  <2> SUFFICES ASSUME NEW q \in Plugins, NEW i \in DOMAIN menu'[q], NEW j \in DOMAIN menu'[q], i < j
               PROVE  \/ Position(menu'[q][i]) < Position(menu'[q][j])
                      \/ InPass' /\ q \in affected_parents' /\ Position(menu'[q][i]) >= ix'
    BY DEF OrderInv
  <2>1. CASE /\ q = Parent(p) /\ ShouldBuild(p)
             /\ menu'[q][j] = p /\ menu'[q][i] \in Range(menu[q])
    <3>1. menu'[q][i] \in Plugins /\ menu'[q][i] # p
      BY <1>3, <1>5, <2>1 DEF TypeOK, Range
    <3>2. q \in affected_parents' /\ InPass'
      BY <1>4, <1>11, <2>1
    <3>3. Position(menu'[q][i]) < ix \/ Position(menu'[q][i]) >= ix + 1
      BY <1>2, <3>1, PositionsDiffer, ListFacts
    <3>. QED  BY <1>1, <1>2, <2>1, <3>2, <3>3
  <2>2. CASE \E k, l \in DOMAIN menu[q] :
                 k < l /\ menu[q][k] = menu'[q][i] /\ menu[q][l] = menu'[q][j]
    <3>1. \/ Position(menu'[q][i]) < Position(menu'[q][j])
          \/ q \in affected_parents /\ Position(menu'[q][i]) >= ix
      BY <1>1, <1>3, <2>2 DEF OrderInv
    <3>2. menu'[q][i] \in Plugins /\ menu'[q][i] # p
      BY <1>5
    <3>3. Position(menu'[q][i]) >= ix => Position(menu'[q][i]) >= ix + 1
      BY <1>2, <3>2, PositionsDiffer, ListFacts
    <3>. QED  BY <1>1, <1>10, <3>1, <3>3
  <2>. QED  BY <1>5, <2>1, <2>2
<1>16. plugins'[Quick].built =>
           /\ plugins'[Quick].parent \in {Root, Submenu}
           /\ plugins'[Quick].parent = Parent(Quick)' \/ Pending(Quick)' \/ ToVisit(Quick)'
  <2> SUFFICES ASSUME plugins'[Quick].built
               PROVE  /\ plugins'[Quick].parent \in {Root, Submenu}
                      /\ plugins'[Quick].parent = Parent(Quick)' \/ Pending(Quick)' \/ ToVisit(Quick)'
    OBVIOUS
  <2>0. Quick \in Plugins /\ Position(Quick) = 4 /\ Position(Submenu) = 3
    BY PluginFacts, ListFacts
  <2>1. CASE p = Quick
    BY <1>4, <2>1, ParentFacts, PluginFacts
  <2>2. CASE p # Quick
    <3>1. /\ plugins'[Quick] = plugins[Quick]
          /\ plugins[Quick].parent \in {Root, Submenu}
          /\ plugins[Quick].parent = Parent(Quick) \/ Pending(Quick) \/ ToVisit(Quick)
      BY <1>1, <1>3, <1>4, <2>0, <2>2 DEF BuiltInv
    <3>2. Pending(Quick) => Pending(Quick)'
      BY <1>9, <2>0, <2>2
    <3>3. ToVisit(Quick) => ToVisit(Quick)'
      <4>1. Position(Quick) >= ix => Position(Quick) >= ix'
        BY <1>1, <1>2, <2>0, <2>2, PositionsDiffer
      <4>. QED  BY <1>10, <3>1, <4>1 DEF ToVisit
    <3>4. CASE p # Submenu
      BY <1>4, <3>1, <3>2, <3>3, <3>4
    <3>5. CASE p = Submenu
      <4>1. plugins[Quick].parent = Submenu => Pending(Quick)'
        BY <1>8, <2>0, <3>1, <3>5
      <4>2. CASE plugins[Quick].parent = Root /\ plugins'[Submenu].built
        <5>1. plugins'[Submenu].parent = Root
          BY <1>4, <4>2, PluginFacts
        <5>2. Root \in affected_parents' /\ InPass'
          BY <1>11, <3>5, <5>1, PluginFacts
        <5>3. Position(Quick) >= ix'
          BY <1>1, <1>2, <2>0, <3>5
        <5>. QED  BY <3>1, <4>2, <5>2, <5>3 DEF ToVisit
      <4>3. CASE plugins[Quick].parent = Root /\ ~plugins'[Submenu].built
        BY <3>1, <4>3, PluginFacts DEF Parent
      <4>. QED  BY <3>1, <4>1, <4>2, <4>3
    <3>. QED  BY <3>4, <3>5
  <2>. QED  BY <2>1, <2>2
<1>17. ASSUME NEW x \in {Root, Top, Bottom} PROVE plugins'[x].built
  <2>1. x \in Plugins /\ plugins[x].built
    BY <1>1, <1>3, PluginFacts DEF BuiltInv
  <2>2. ShouldBuild(x)
    BY PluginFacts DEF ShouldBuild
  <2>. QED  BY <1>4, <2>1, <2>2
<1>18. BuiltInv'
  BY <1>4, <1>16, <1>17 DEF BuiltInv
<1>. QED  BY <1>1, <1>12, <1>13, <1>14, <1>15, <1>18 DEF IInv, InitialInv, MenuIsCurrent
-----------------------------------------------------------------------------
THEOREM Invariant == Spec => []IInv
<1>1. IInv /\ [Next]_vars => IInv'
  <2> SUFFICES ASSUME IInv, [Next]_vars PROVE IInv'
    OBVIOUS
  <2>1. CASE UNCHANGED vars
    <3>1. event_queue' \in Seq(Events) /\ UNCHANGED <<data, built, pass, action, pc, resume>>
      BY <2>1 DEF vars, data, settings, built, pass, IInv, TypeOK
    <3>. QED  BY <3>1, NoStep
  <2>2. CASE Next
    BY <2>2, EventSteps, CheckStep, NextPassStep, TakeOutStep, InitialBuildStep, PutBackStep,
       DestroyStep DEF Next, Step
  <2>. QED  BY <2>1, <2>2
<1>. QED  BY <1>1, InitInv, PTL DEF Spec

(* Every variable has its type, and no plugin is queued twice.             *)
THEOREM Types == Spec => []TypeOK
<1>1. IInv => TypeOK
  BY DEF IInv
<1>. QED  BY <1>1, Invariant, PTL

(* At rest every menu holds the plugins built into it, all of them and     *)
(* once, in the order of the list.                                         *)
THEOREM MenusInOrder == Spec => []MenuInOrder
<1>1. IInv => MenuInOrder
  <2> SUFFICES ASSUME IInv, pc = "idle", NEW q \in Plugins
               PROVE  /\ Range(menu[q]) = {p \in Plugins : plugins[p].built /\ plugins[p].parent = q}
                      /\ \A i, j \in DOMAIN menu[q] :
                             i < j => Position(menu[q][i]) < Position(menu[q][j])
    BY DEF MenuInOrder
  <2>1. ~InPass /\ \A p \in Plugins : ~Pending(p)
    BY DEF IInv, PassInv, InPass, Pending, Contains
  <2>2. Range(menu[q]) \subseteq Plugins
    BY DEF IInv, TypeOK, Range
  <2>3. Range(menu[q]) = {p \in Plugins : plugins[p].built /\ plugins[p].parent = q}
    BY <2>1, <2>2 DEF IInv, HoldsInv
  <2>4. \A i, j \in DOMAIN menu[q] : i < j => Position(menu[q][i]) < Position(menu[q][j])
    BY <2>1 DEF IInv, OrderInv
  <2>. QED  BY <2>3, <2>4
<1>. QED  BY <1>1, Invariant, PTL

(* At rest the menu shows the present settings, the quick menu's shortcuts *)
(* among them, and the present number of desktops.                         *)
THEOREM MenusCurrent == Spec => []MenuIsCurrent
<1>1. IInv => MenuIsCurrent
  BY DEF IInv
<1>. QED  BY <1>1, Invariant, PTL
=============================================================================
