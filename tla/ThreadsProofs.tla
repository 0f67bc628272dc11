---------------------------- MODULE ThreadsProofs ----------------------------
(***************************************************************************)
(* What threads hand to each other and change under each other's feet: the *)
(* doubly linked list with the walk of the timer's thread along it, the    *)
(* message task, the status of the engine with the aiding data that wait   *)
(* for it, the sessions of the network's requests, and the heap that the   *)
(* threads of the timers keep them in.                                     *)
(***************************************************************************)
EXTENDS SubscriberList, MsgTask, LocEngNi, LocHeap, SequenceTheorems, FiniteSetTheorems, WellFoundedInduction, TLAPS

-----------------------------------------------------------------------------
(* The list, for any finite set of elements.  IsList relates a list, with  *)
(* its head, its tail and its links, to the sequence of its elements, the  *)
(* oldest first.  Each operation on the list is shown to be one on the     *)
(* sequence.                                                               *)

IsList(l, q) ==
  /\ l \in Lists /\ q \in Seq(Elements)
  /\ \A i, j \in DOMAIN q : q[i] = q[j] => i = j
  /\ l.p_tail = IF q = <<>> THEN Null ELSE q[1]
  /\ l.p_head = IF q = <<>> THEN Null ELSE q[Len(q)]
  /\ \A i \in DOMAIN q : l.prev[q[i]] = IF i = Len(q) THEN Null ELSE q[i + 1]
  /\ \A i \in DOMAIN q : l.next[q[i]] = IF i = 1 THEN Null ELSE q[i - 1]

\* The other way round.
Turned(q) == [i \in 1..Len(q) |-> q[Len(q) + 1 - i]]

\* Without the element at place k.
Without(q, k) == [i \in 1..(Len(q) - 1) |-> IF i < k THEN q[i] ELSE q[i + 1]]

Ways == UNION {[1..n -> Elements] : n \in 0..Cardinality(Elements)}

\* The condition of the CHOOSE in Walk.
IsWay(way, start, links) ==
  /\ start = IF way = <<>> THEN Null ELSE way[1]
  /\ \A i \in 2..Len(way) : way[i] = links[way[i - 1]]
  /\ \A i, j \in DOMAIN way : way[i] = way[j] => i = j
  /\ way # <<>> => links[way[Len(way)]] \in {Null} \cup {way[i] : i \in DOMAIN way}

\* A set of numbers that is not empty has a least member.
LEMMA LeastNumber ==
  ASSUME NEW T \in SUBSET Nat, T # {}
  PROVE  \E m \in T : \A k \in T : m <= k
<1> DEFINE UpTo(m) == {k \in T : k <= m}
<1> DEFINE Parts == {UpTo(m) : m \in T}
<1>1. Parts \subseteq FiniteSubsetsOf(Nat)
  <2> SUFFICES ASSUME NEW m \in T PROVE UpTo(m) \in SUBSET Nat /\ IsFiniteSet(UpTo(m))
    BY DEF FiniteSubsetsOf
  <2>1. UpTo(m) \in SUBSET Nat /\ m \in Nat /\ \A k \in UpTo(m) : k <= m
    OBVIOUS
  <2> QED
    BY <2>1, FS_BoundedSetOfNaturals
<1>2. Parts # {}
  OBVIOUS
<1>3. \E D \in Parts : \A E \in Parts : <<E, D>> \notin StrictSubsetOrdering(Nat)
  BY <1>1, <1>2, FS_StrictSubsetOrderingWellFounded, WFMin
<1>4. PICK m \in T : \A k \in T : <<UpTo(k), UpTo(m)>> \notin StrictSubsetOrdering(Nat)
  BY <1>3
<1>5. ASSUME NEW k \in T, k < m PROVE FALSE
  <2> k \in Nat /\ m \in Nat
    OBVIOUS
  <2>1. UpTo(k) \subseteq UpTo(m)
    <3> SUFFICES ASSUME NEW i \in T, i <= k PROVE i <= m
      OBVIOUS
    <3> i \in Nat
      OBVIOUS
    <3> QED
      BY <1>5
  <2>2. m \in UpTo(m) /\ m \notin UpTo(k)
    BY <1>5
  <2>3. UpTo(k) \in SUBSET Nat /\ UpTo(m) \in SUBSET Nat /\ UpTo(k) # UpTo(m)
    BY <2>2
  <2> HIDE DEF UpTo
  <2>4. <<UpTo(k), UpTo(m)>> \in StrictSubsetOrdering(Nat)
    BY <2>1, <2>3 DEF StrictSubsetOrdering
  <2> QED
    BY <1>4, <2>4
<1> QED
  BY <1>5

\* A sequence over the elements in which none comes twice is not longer than
\* there are elements.
LEMMA NoLongerThanElements ==
  ASSUME NEW q \in Seq(Elements), \A i, j \in DOMAIN q : q[i] = q[j] => i = j
  PROVE  q \in Ways
<1>1. /\ Len(q) \in Nat /\ q \in [1..Len(q) -> Elements] /\ DOMAIN q = 1..Len(q)
  BY LenProperties
<1>2. q \in Injection(1..Len(q), Elements)
  BY <1>1 DEF Injection, IsInjective
<1>3. /\ IsFiniteSet(1..Len(q)) /\ Cardinality(1..Len(q)) <= Cardinality(Elements)
  BY <1>2, FS_Injection, ListAssumption
<1>4. Cardinality(1..Len(q)) = Len(q)
  BY <1>1, FS_Interval
<1>5. Cardinality(Elements) \in Nat
  BY FS_CardinalityType, ListAssumption
<1>6. Len(q) \in 0..Cardinality(Elements)
  BY <1>1, <1>3, <1>4, <1>5
<1> QED
  BY <1>1, <1>6 DEF Ways

\* Two ways along the same links go the same steps: the one is no longer than
\* the other ...
LEMMA WaysMeet ==
  ASSUME NEW v \in Seq(Elements), NEW w \in Seq(Elements), NEW start, NEW links,
         IsWay(v, start, links), IsWay(w, start, links)
  PROVE  /\ \A i \in DOMAIN v \cap DOMAIN w : v[i] = w[i]
         /\ Len(w) <= Len(v)
<1> DEFINE T == {i \in DOMAIN v \cap DOMAIN w : v[i] # w[i]}
<1>1. /\ Len(v) \in Nat /\ DOMAIN v = 1..Len(v) /\ \A i \in DOMAIN v : v[i] \in Elements
      /\ Len(w) \in Nat /\ DOMAIN w = 1..Len(w) /\ \A i \in DOMAIN w : w[i] \in Elements
  BY LenProperties, ElementOfSeq
<1>2. T = {}
  <2> SUFFICES ASSUME T # {} PROVE FALSE
    OBVIOUS
  <2> T \in SUBSET Nat
    BY <1>1
  <2>1. PICK m \in T : \A k \in T : m <= k
    <3> HIDE DEF T
    <3> QED
      BY LeastNumber
  <2>2. /\ m \in Nat /\ m >= 1 /\ m <= Len(v) /\ m <= Len(w) /\ v[m] # w[m]
    BY <1>1, <2>1
  <2>3. v # <<>> /\ w # <<>>
    BY <1>1, <2>2, EmptySeq
  <2>4. CASE m = 1
    BY <2>2, <2>3, <2>4 DEF IsWay
  <2>5. CASE m > 1
    <3>1. m - 1 \in DOMAIN v \cap DOMAIN w /\ m - 1 \notin T /\ m \in 2..Len(v) /\ m \in 2..Len(w)
      BY <1>1, <2>1, <2>2, <2>5
    <3>2. v[m - 1] = w[m - 1]
      BY <3>1
    <3> QED
      BY <2>2, <3>1, <3>2 DEF IsWay
  <2> QED
    BY <2>2, <2>4, <2>5
<1>3. \A i \in DOMAIN v \cap DOMAIN w : v[i] = w[i]
  BY <1>2
<1>4. Len(w) <= Len(v)
  <2> SUFFICES ASSUME Len(w) > Len(v) PROVE FALSE
    BY <1>1
  <2>1. Null \notin Elements
    BY ListAssumption
  <2>2. w # <<>> /\ 1 \in DOMAIN w
    BY <1>1, EmptySeq
  <2>3. start = w[1] /\ start \in Elements
    BY <1>1, <2>2 DEF IsWay
  <2>4. v # <<>> /\ Len(v) >= 1
    BY <1>1, <2>1, <2>3, EmptySeq DEF IsWay
  <2> DEFINE n == Len(v)
  <2>5. n \in DOMAIN v /\ n \in DOMAIN w /\ n + 1 \in 2..Len(w) /\ n + 1 \in DOMAIN w /\ (n + 1) - 1 = n
    BY <1>1, <2>4
  <2>6. v[n] = w[n]
    BY <1>3, <2>5
  <2>7. w[n + 1] = links[v[n]]
    BY <2>5, <2>6 DEF IsWay
  <2>8. w[n + 1] \in {v[i] : i \in DOMAIN v}
    BY <1>1, <2>1, <2>4, <2>5, <2>7 DEF IsWay
  <2>9. PICK i \in DOMAIN v : w[n + 1] = v[i]
    BY <2>8
  <2>10. i \in DOMAIN w /\ i # n + 1 /\ w[i] = v[i]
    BY <1>1, <1>3, <2>9
  <2> QED
    BY <2>5, <2>9, <2>10 DEF IsWay
<1> QED
  BY <1>3, <1>4

\* ... so that there is only one, and Walk finds it.
LEMMA WalkIsTheWay ==
  ASSUME NEW q \in Seq(Elements), NEW start, NEW links, IsWay(q, start, links)
  PROVE  Walk(start, links) = q
<1>1. q \in Ways
  BY NoLongerThanElements DEF IsWay
<1>2. ASSUME NEW w \in Ways, IsWay(w, start, links) PROVE w = q
  <2>1. w \in Seq(Elements)
    BY FS_CardinalityType, ListAssumption, SeqDef DEF Ways
  <2>2. Len(w) <= Len(q)
    BY <1>2, <2>1, WaysMeet
  <2>3. Len(q) <= Len(w)
    BY <1>2, <2>1, WaysMeet
  <2>4. \A i \in DOMAIN w \cap DOMAIN q : w[i] = q[i]
    BY <1>2, <2>1, WaysMeet
  <2>5. Len(w) \in Nat /\ Len(q) \in Nat
    BY <2>1, LenProperties
  <2>6. Len(w) = Len(q)
    BY <2>2, <2>3, <2>5
  <2>7. \A i \in 1..Len(w) : w[i] = q[i]
    BY <2>1, <2>4, <2>6, LenProperties
  <2> QED
    BY <2>1, <2>6, <2>7, SeqEqual
<1>3. Walk(start, links) = CHOOSE w \in Ways : IsWay(w, start, links)
  BY Zenon DEF Walk, Ways, IsWay
<1> QED
  BY <1>1, <1>2, <1>3

-----------------------------------------------------------------------------
(* The operations of the list. *)

\* Both ways through a list meet its elements: from the tail the oldest first,
\* from the head the newest.
LEMMA WaysOfList ==
  ASSUME NEW l, NEW q, IsList(l, q)
  PROVE  Backward(l) = q /\ Forward(l) = Turned(q) /\ Turned(q) \in Seq(Elements)
<1>1. /\ Len(q) \in Nat /\ DOMAIN q = 1..Len(q) /\ q \in Seq(Elements)
      /\ \A i \in DOMAIN q : q[i] \in Elements
  BY LenProperties, ElementOfSeq DEF IsList
<1>2. q # <<>> => Len(q) >= 1
  BY <1>1, EmptySeq
<1>3. IsWay(q, l.p_tail, l.prev)
  <2>1. \A i \in 2..Len(q) : q[i] = l.prev[q[i - 1]]
    BY <1>1 DEF IsList
  <2>2. q # <<>> => l.prev[q[Len(q)]] = Null
    BY <1>1, <1>2 DEF IsList
  <2> QED
    BY <2>1, <2>2 DEF IsWay, IsList
<1>4. Backward(l) = q
  BY <1>1, <1>3, WalkIsTheWay DEF Backward
<1> DEFINE t == Turned(q)
<1>5. /\ t \in Seq(Elements) /\ Len(t) = Len(q) /\ DOMAIN t = 1..Len(q)
      /\ \A i \in 1..Len(q) : t[i] = q[Len(q) + 1 - i]
  <2>1. \A i \in 1..Len(q) : Len(q) + 1 - i \in DOMAIN q
    BY <1>1
  <2>2. t \in [1..Len(q) -> Elements]
    BY <1>1, <2>1 DEF Turned
  <2>3. t \in Seq(Elements)
    BY <1>1, <2>2, SeqDef
  <2> QED
    BY <1>1, <2>2, <2>3, LenProperties DEF Turned
<1>6. t = <<>> <=> q = <<>>
  BY <1>1, <1>2, <1>5, EmptySeq
<1> HIDE DEF t
<1>7. IsWay(t, l.p_head, l.next)
  <2>1. l.p_head = IF t = <<>> THEN Null ELSE t[1]
    <3>1. CASE q = <<>>
      BY <1>6, <3>1 DEF IsList
    <3>2. CASE q # <<>>
      BY <1>1, <1>2, <1>5, <1>6, <3>2 DEF IsList
    <3> QED
      BY <3>1, <3>2
  <2>2. ASSUME NEW i \in 2..Len(t) PROVE t[i] = l.next[t[i - 1]]
    <3> DEFINE k == Len(q) + 1 - (i - 1)
    <3>1. /\ i \in 1..Len(q) /\ i - 1 \in 1..Len(q)
          /\ k \in DOMAIN q /\ k # 1 /\ k - 1 = Len(q) + 1 - i
      BY <1>1, <1>5
    <3>2. t[i - 1] = q[k] /\ t[i] = q[k - 1]
      BY <1>5, <3>1
    <3> HIDE DEF k
    <3> QED
      BY <3>1, <3>2 DEF IsList
  <2>3. ASSUME NEW i \in DOMAIN t, NEW j \in DOMAIN t, t[i] = t[j] PROVE i = j
    <3>1. /\ Len(q) + 1 - i \in DOMAIN q /\ Len(q) + 1 - j \in DOMAIN q
          /\ q[Len(q) + 1 - i] = q[Len(q) + 1 - j] /\ i \in Nat /\ j \in Nat
      BY <1>1, <1>5, <2>3
    <3>2. Len(q) + 1 - i = Len(q) + 1 - j
      BY <3>1 DEF IsList
    <3> QED
      BY <1>1, <3>1, <3>2
  <2>4. t # <<>> => l.next[t[Len(t)]] = Null
    <3> SUFFICES ASSUME t # <<>> PROVE l.next[t[Len(t)]] = Null
      OBVIOUS
    <3>1. Len(q) \in 1..Len(q) /\ 1 \in DOMAIN q /\ Len(q) + 1 - Len(q) = 1
      BY <1>1, <1>2, <1>6
    <3>2. t[Len(t)] = q[1]
      BY <1>5, <3>1
    <3> QED
      BY <3>1, <3>2 DEF IsList
  <2> QED
    BY <2>1, <2>2, <2>3, <2>4 DEF IsWay
<1>8. Forward(l) = t
  BY <1>5, <1>7, WalkIsTheWay DEF Forward
<1> QED
  BY <1>4, <1>5, <1>8 DEF t

\* A new list is empty.
LEMMA EmptyIsList == IsList(EmptyList, <<>>)
<1>1. EmptyList \in Lists
  BY DEF EmptyList, Lists, Nowhere
<1>2. <<>> \in Seq(Elements) /\ DOMAIN <<>> = {}
  BY EmptySeq
<1> QED
  BY <1>1, <1>2 DEF IsList, EmptyList

\* linked_list_add() puts the element behind all others.
LEMMA AddAppends ==
  ASSUME NEW l, NEW q, IsList(l, q), NEW e \in Elements, \A i \in DOMAIN q : q[i] # e
  PROVE  IsList(Add(l, e), Append(q, e))
<1>1. /\ Len(q) \in Nat /\ DOMAIN q = 1..Len(q) /\ q \in Seq(Elements)
      /\ \A i \in DOMAIN q : q[i] \in Elements
  BY LenProperties, ElementOfSeq DEF IsList
<1>2. q # <<>> => Len(q) >= 1
  BY <1>1, EmptySeq
<1> DEFINE a == Append(q, e)
<1> DEFINE m == Add(l, e)
<1>3. /\ a \in Seq(Elements) /\ Len(a) = Len(q) + 1 /\ DOMAIN a = 1..(Len(q) + 1)
      /\ \A i \in DOMAIN q : a[i] = q[i]
      /\ a[Len(q) + 1] = e
  BY <1>1, AppendProperties, LenProperties
<1>4. a # <<>>
  BY <1>1, <1>3, EmptySeq
<1>5. Null \notin Elements
  BY ListAssumption
<1>6. /\ l \in Lists
      /\ m \in Lists
      /\ m.p_head = e
      /\ m.p_tail = IF l.p_head = Null THEN e ELSE l.p_tail
      /\ \A x \in Elements : m.next[x] = IF x = e THEN l.p_head ELSE l.next[x]
      /\ \A x \in Elements : m.prev[x] = IF x = e THEN Null ELSE IF x = l.p_head THEN e ELSE l.prev[x]
  <2> DEFINE old == l.p_head
  <2> DEFINE k == LinkNext(Publish(l, e), e, old)
  <2>1. l \in Lists /\ old \in Elements \cup {Null} /\ m = LinkBack(k, e, old)
    BY DEF IsList, Lists, Add
  <2>2. old # e
    <3>1. q # <<>> => Len(q) \in DOMAIN q
      BY <1>1, <1>2
    <3> QED
      BY <1>5, <3>1 DEF IsList
  <2> HIDE DEF m, old
  <2>3. /\ k \in Lists /\ k.p_head = e /\ k.p_tail = l.p_tail
        /\ \A x \in Elements : k.next[x] = IF x = e THEN old ELSE l.next[x]
        /\ \A x \in Elements : k.prev[x] = IF x = e THEN Null ELSE l.prev[x]
    BY <2>1 DEF LinkNext, Publish, Lists
  <2> HIDE DEF k
  <2>4. /\ m \in Lists /\ m.p_head = e /\ m.next = k.next
        /\ m.p_tail = IF old = Null THEN e ELSE k.p_tail
        /\ \A x \in Elements : m.prev[x] = IF x = old THEN e ELSE k.prev[x]
    <3>1. CASE old = Null
      BY <1>5, <2>1, <2>3, <3>1 DEF LinkBack, Lists
    <3>2. CASE old # Null
      BY <2>1, <2>3, <3>2 DEF LinkBack, Lists
    <3> QED
      BY <3>1, <3>2
  <2> QED
    BY <2>1, <2>2, <2>3, <2>4 DEF old
<1>7. q = <<>> => Len(q) = 0
  BY EmptySeq
<1> HIDE DEF a, m
<1>8. ASSUME NEW i \in DOMAIN a, NEW j \in DOMAIN a, a[i] = a[j] PROVE i = j
  BY <1>1, <1>3, <1>8 DEF IsList
<1>9. m.p_tail = a[1]
  <2>1. CASE q = <<>>
    BY <1>3, <1>6, <1>7, <2>1 DEF IsList
  <2>2. CASE q # <<>>
    <3>1. 1 \in DOMAIN q /\ Len(q) \in DOMAIN q
      BY <1>1, <1>2, <2>2
    <3> QED
      BY <1>1, <1>3, <1>5, <1>6, <2>2, <3>1 DEF IsList
  <2> QED
    BY <2>1, <2>2
<1>10. ASSUME NEW i \in DOMAIN a PROVE m.prev[a[i]] = IF i = Len(a) THEN Null ELSE a[i + 1]
  <2>1. CASE i = Len(q) + 1
    BY <1>3, <1>6, <2>1
  <2>2. CASE i \in DOMAIN q
    <3>1. a[i] = q[i] /\ q[i] \in Elements /\ q[i] # e /\ i # Len(a)
      BY <1>1, <1>3, <2>2
    <3>2. q # <<>> /\ Len(q) \in DOMAIN q
      BY <1>1, <1>7, <2>2
    <3>3. m.prev[a[i]] = IF q[i] = q[Len(q)] THEN e ELSE l.prev[q[i]]
      BY <1>6, <3>1, <3>2 DEF IsList
    <3>4. CASE i = Len(q)
      BY <1>3, <3>1, <3>3, <3>4
    <3>5. CASE i # Len(q)
      <4>1. i + 1 \in DOMAIN q /\ q[i] # q[Len(q)]
        BY <1>1, <2>2, <3>2, <3>5 DEF IsList
      <4> QED
        BY <1>3, <2>2, <3>1, <3>3, <3>5, <4>1 DEF IsList
    <3> QED
      BY <3>4, <3>5
  <2> QED
    BY <1>1, <1>3, <2>1, <2>2
<1>11. ASSUME NEW i \in DOMAIN a PROVE m.next[a[i]] = IF i = 1 THEN Null ELSE a[i - 1]
  <2>1. CASE i = Len(q) + 1 /\ q = <<>>
    BY <1>3, <1>6, <1>7, <2>1 DEF IsList
  <2>2. CASE i = Len(q) + 1 /\ q # <<>>
    <3>1. m.next[a[i]] = q[Len(q)] /\ Len(q) \in DOMAIN q /\ i # 1 /\ i - 1 = Len(q)
      BY <1>1, <1>2, <1>3, <1>6, <2>2 DEF IsList
    <3> QED
      BY <1>3, <3>1
  <2>3. CASE i \in DOMAIN q
    <3>1. a[i] = q[i] /\ q[i] \in Elements /\ q[i] # e
      BY <1>1, <1>3, <2>3
    <3>2. m.next[a[i]] = l.next[q[i]]
      BY <1>6, <3>1
    <3>3. i # 1 => i - 1 \in DOMAIN q
      BY <1>1, <2>3
    <3> QED
      BY <1>3, <2>3, <3>2, <3>3 DEF IsList
  <2> QED
    BY <1>1, <1>3, <2>1, <2>2, <2>3
<1>12. IsList(m, a)
  BY <1>1, <1>3, <1>4, <1>6, <1>8, <1>9, <1>10, <1>11 DEF IsList
<1> QED
  BY <1>12 DEF a, m

\* linked_list_remove() takes the oldest element.
LEMMA RemoveTakes ==
  ASSUME NEW l, NEW q, IsList(l, q), q # <<>>
  PROVE  l.p_tail = Head(q) /\ IsList(RemoveTail(l), Tail(q))
<1>1. /\ Len(q) \in Nat /\ DOMAIN q = 1..Len(q) /\ q \in Seq(Elements)
      /\ \A i \in DOMAIN q : q[i] \in Elements
  BY LenProperties, ElementOfSeq DEF IsList
<1>2. Len(q) >= 1 /\ 1 \in DOMAIN q /\ Len(q) \in DOMAIN q
  BY <1>1, EmptySeq
<1> DEFINE t == Tail(q)
<1> DEFINE m == RemoveTail(l)
<1> DEFINE new == l.prev[q[1]]
<1>3. /\ t \in Seq(Elements) /\ Len(t) = Len(q) - 1 /\ DOMAIN t = 1..(Len(q) - 1)
      /\ \A i \in DOMAIN t : i + 1 \in DOMAIN q /\ t[i] = q[i + 1]
      /\ Head(q) = q[1]
  BY <1>1, <1>2, HeadTailProperties, LenProperties
<1>4. l.p_tail = q[1]
  BY <1>1 DEF IsList
<1>5. Null \notin Elements
  BY ListAssumption
<1>6. new = IF Len(q) = 1 THEN Null ELSE q[2]
  <2>1. l.prev[q[1]] = IF 1 = Len(q) THEN Null ELSE q[1 + 1]
    BY <1>2 DEF IsList
  <2> QED
    BY <2>1
<1>7. Len(q) # 1 => 2 \in DOMAIN q /\ 1 \in DOMAIN t
  BY <1>1, <1>2, <1>3
<1>8. t = <<>> <=> Len(q) = 1
  BY <1>1, <1>3, <1>7, EmptySeq
<1>9. /\ m \in Lists
      /\ m.p_tail = new
      /\ m.p_head = IF new = Null THEN Null ELSE l.p_head
      /\ \A x \in Elements : m.next[x] = IF x = q[1] \/ x = new THEN Null ELSE l.next[x]
      /\ \A x \in Elements : m.prev[x] = IF x = q[1] THEN Null ELSE l.prev[x]
  <2>1. l \in Lists /\ new \in Elements \cup {Null} /\ q[1] \in Elements
    BY <1>1, <1>2 DEF IsList, Lists
  <2> DEFINE links == [x \in Elements |-> IF x = new THEN Null ELSE l.next[x]]
  <2> DEFINE k == [l EXCEPT !.p_tail = new, !.p_head = IF new = Null THEN Null ELSE @, !.next = links]
  <2>2. m = Freed(k, q[1])
    BY <1>4 DEF RemoveTail
  <2>3. /\ k \in Lists /\ k.p_tail = new /\ k.p_head = IF new = Null THEN Null ELSE l.p_head
        /\ k.prev = l.prev /\ \A x \in Elements : k.next[x] = IF x = new THEN Null ELSE l.next[x]
    <3> HIDE DEF new
    <3> QED
      BY <2>1 DEF Lists
  <2> HIDE DEF k, m, new
  <2> QED
    BY <2>1, <2>2, <2>3 DEF Freed, Lists
<1> HIDE DEF t, m, new
<1>10. ASSUME NEW i \in DOMAIN t, NEW j \in DOMAIN t, t[i] = t[j] PROVE i = j
  <2>1. i + 1 = j + 1 /\ i \in Nat /\ j \in Nat
    BY <1>1, <1>3, <1>10 DEF IsList
  <2> QED
    BY <2>1
<1>11. m.p_tail = IF t = <<>> THEN Null ELSE t[1]
  BY <1>3, <1>6, <1>7, <1>8, <1>9
<1>12. m.p_head = IF t = <<>> THEN Null ELSE t[Len(t)]
  <2>1. CASE Len(q) = 1
    BY <1>6, <1>8, <1>9, <2>1
  <2>2. CASE Len(q) # 1
    <3>1. Len(t) \in DOMAIN t /\ t[Len(t)] = q[Len(q)] /\ new # Null
      BY <1>1, <1>2, <1>3, <1>5, <1>6, <1>7, <2>2
    <3> QED
      BY <1>8, <1>9, <2>2, <3>1 DEF IsList
  <2> QED
    BY <2>1, <2>2
<1>13. ASSUME NEW i \in DOMAIN t PROVE m.prev[t[i]] = IF i = Len(t) THEN Null ELSE t[i + 1]
  <2>1. /\ i + 1 \in DOMAIN q /\ t[i] = q[i + 1] /\ t[i] \in Elements /\ t[i] # q[1]
        /\ i + 1 = Len(q) <=> i = Len(t)
    BY <1>1, <1>2, <1>3 DEF IsList
  <2>2. m.prev[t[i]] = IF i + 1 = Len(q) THEN Null ELSE q[(i + 1) + 1]
    BY <1>9, <2>1 DEF IsList
  <2>3. i # Len(t) => i + 1 \in DOMAIN t
    BY <1>1, <1>3
  <2> QED
    BY <1>3, <2>1, <2>2, <2>3
<1>14. ASSUME NEW i \in DOMAIN t PROVE m.next[t[i]] = IF i = 1 THEN Null ELSE t[i - 1]
  <2>1. i + 1 \in DOMAIN q /\ t[i] = q[i + 1] /\ t[i] \in Elements /\ t[i] # q[1] /\ i + 1 # 1
    BY <1>1, <1>2, <1>3 DEF IsList
  <2>2. CASE i = 1
    <3>1. t[i] = new
      BY <1>1, <1>3, <1>6, <2>1, <2>2
    <3> QED
      BY <1>9, <2>1, <2>2, <3>1
  <2>3. CASE i # 1
    <3>1. i - 1 \in DOMAIN t /\ i \in DOMAIN q /\ t[i - 1] = q[i]
      BY <1>1, <1>3, <2>3
    <3>2. t[i] # new
      <4>1. Len(q) # 1 /\ 2 \in DOMAIN q /\ i + 1 # 2
        BY <1>1, <1>3, <1>7, <2>1, <2>3
      <4>2. q[i + 1] # q[2]
        BY <2>1, <4>1 DEF IsList
      <4> QED
        BY <1>6, <2>1, <4>1, <4>2
    <3>3. m.next[t[i]] = l.next[q[i + 1]] /\ (i + 1) - 1 = i
      BY <1>1, <1>9, <2>1, <3>1, <3>2
    <3> QED
      BY <2>1, <2>3, <3>1, <3>3 DEF IsList
  <2> QED
    BY <2>2, <2>3
<1>15. IsList(m, t)
  BY <1>3, <1>9, <1>10, <1>11, <1>12, <1>13, <1>14 DEF IsList
<1> QED
  BY <1>3, <1>4, <1>15 DEF t, m

\* What linked_list_search() with rm_if_found makes of the list in the end.
Unlinked(l, e) == Freed(CutPrev(CutNext(l, e), e), e)

\* It takes the element it has found, be it the first, the last or one in the
\* middle.
LEMMA UnlinkDrops ==
  ASSUME NEW l, NEW q, IsList(l, q), NEW k \in DOMAIN q
  PROVE  IsList(Unlinked(l, q[k]), Without(q, k))
<1> DEFINE n == Len(q)
<1>1. /\ n \in Nat /\ DOMAIN q = 1..n /\ q \in Seq(Elements)
      /\ \A i \in DOMAIN q : q[i] \in Elements
      /\ \A i, j \in DOMAIN q : q[i] = q[j] => i = j
      /\ k \in 1..n /\ n \in DOMAIN q /\ 1 \in DOMAIN q /\ q # <<>>
  <2>1. n \in Nat /\ DOMAIN q = 1..n /\ q \in Seq(Elements)
    BY LenProperties DEF IsList
  <2>2. q # <<>>
    BY <2>1, EmptySeq
  <2> QED
    BY <2>1, <2>2, ElementOfSeq DEF IsList
<1> DEFINE t == Without(q, k)
<1> DEFINE m == Unlinked(l, q[k])
<1> DEFINE before == l.prev[q[k]]
<1> DEFINE after == l.next[q[k]]
<1>2. before = (IF k = n THEN Null ELSE q[k + 1]) /\ after = (IF k = 1 THEN Null ELSE q[k - 1])
  BY DEF IsList
<1>3. Null \notin Elements
  BY ListAssumption
<1>4. /\ t \in Seq(Elements) /\ Len(t) = n - 1 /\ DOMAIN t = 1..(n - 1)
      /\ \A i \in DOMAIN t : t[i] = IF i < k THEN q[i] ELSE q[i + 1]
  <2>1. \A i \in 1..(n - 1) : i \in DOMAIN q /\ i + 1 \in DOMAIN q
    BY <1>1
  <2>2. t \in [1..(n - 1) -> Elements] /\ n - 1 \in Nat
    BY <1>1, <2>1 DEF Without
  <2>3. t \in Seq(Elements)
    BY <2>2, SeqDef
  <2> QED
    BY <2>2, <2>3, LenProperties DEF Without
<1>5. /\ m \in Lists
      /\ m.p_tail = IF after = Null THEN before ELSE l.p_tail
      /\ m.p_head = IF before = Null THEN after ELSE l.p_head
      /\ \A x \in Elements : m.next[x] =
           IF x = q[k] THEN Null ELSE IF x = before THEN after ELSE l.next[x]
      /\ \A x \in Elements : m.prev[x] =
           IF x = q[k] THEN Null ELSE IF x = after THEN before ELSE l.prev[x]
  <2>1. l \in Lists /\ before \in Elements \cup {Null} /\ after \in Elements \cup {Null} /\ q[k] \in Elements
    BY <1>1 DEF IsList, Lists
  <2> DEFINE u == CutNext(l, q[k])
  <2> DEFINE v == CutPrev(u, q[k])
  <2>2. m = Freed(v, q[k]) /\ before # q[k] /\ after # q[k]
    BY <1>1, <1>2, <1>3 DEF Unlinked
  <2> HIDE DEF m
  <2>3. /\ u \in Lists /\ u.p_tail = l.p_tail /\ u.prev = l.prev
        /\ u.p_head = IF before = Null THEN after ELSE l.p_head
        /\ \A x \in Elements : u.next[x] = IF x = before THEN after ELSE l.next[x]
    <3>1. CASE before = Null
      BY <1>3, <2>1, <3>1 DEF CutNext, Lists
    <3>2. CASE before # Null
      BY <2>1, <3>2 DEF CutNext, Lists
    <3> QED
      BY <3>1, <3>2
  <2>4. u.next[q[k]] = after /\ u.prev[q[k]] = before
    BY <2>1, <2>2, <2>3
  <2> HIDE DEF u, before, after
  <2>5. /\ v \in Lists /\ v.p_head = u.p_head /\ v.next = u.next
        /\ v.p_tail = IF after = Null THEN before ELSE u.p_tail
        /\ \A x \in Elements : v.prev[x] = IF x = after THEN before ELSE u.prev[x]
    <3>1. CASE after = Null
      BY <1>3, <2>1, <2>3, <2>4, <3>1 DEF CutPrev, Lists
    <3>2. CASE after # Null
      BY <2>1, <2>3, <2>4, <3>2 DEF CutPrev, Lists
    <3> QED
      BY <3>1, <3>2
  <2> HIDE DEF v
  <2> QED
    BY <2>1, <2>2, <2>3, <2>5 DEF Freed, Lists
<1> HIDE DEF t, m, before, after
<1>6. ASSUME NEW i \in DOMAIN t
      PROVE  /\ i \in DOMAIN q /\ i + 1 \in DOMAIN q /\ i \in Nat
             /\ t[i] = (IF i < k THEN q[i] ELSE q[i + 1]) /\ t[i] \in Elements /\ t[i] # q[k]
  BY <1>1, <1>4
<1>7. ASSUME NEW i \in DOMAIN t, NEW j \in DOMAIN t, t[i] = t[j] PROVE i = j
  BY <1>1, <1>6, <1>7
<1>8. t = <<>> <=> n = 1
  BY <1>1, <1>4, EmptySeq
<1>9. /\ \A i \in DOMAIN q : l.prev[q[i]] = IF i = n THEN Null ELSE q[i + 1]
      /\ \A i \in DOMAIN q : l.next[q[i]] = IF i = 1 THEN Null ELSE q[i - 1]
      /\ l.p_tail = q[1] /\ l.p_head = q[n]
  BY <1>1 DEF IsList
<1>10. m.p_tail = IF t = <<>> THEN Null ELSE t[1]
  <2>1. CASE k = 1 /\ n = 1
    BY <1>2, <1>5, <1>8, <2>1
  <2>2. CASE k = 1 /\ n # 1
    <3>1. 1 \in DOMAIN t /\ t[1] = q[2]
      BY <1>1, <1>4, <2>2
    <3> QED
      BY <1>1, <1>2, <1>5, <1>8, <2>2, <3>1
  <2>3. CASE k # 1
    <3>1. 1 \in DOMAIN t /\ t[1] = q[1] /\ n # 1 /\ k - 1 \in DOMAIN q
      BY <1>1, <1>4, <2>3
    <3> QED
      BY <1>1, <1>2, <1>3, <1>5, <1>8, <1>9, <2>3, <3>1
  <2> QED
    BY <2>1, <2>2, <2>3
<1>11. m.p_head = IF t = <<>> THEN Null ELSE t[Len(t)]
  <2>1. CASE k = n /\ n = 1
    BY <1>2, <1>5, <1>8, <2>1
  <2>2. CASE k = n /\ n # 1
    <3>1. n - 1 \in DOMAIN t /\ t[n - 1] = q[n - 1]
      BY <1>1, <1>4, <2>2
    <3> QED
      BY <1>1, <1>2, <1>4, <1>5, <1>8, <2>2, <3>1
  <2>3. CASE k # n
    <3>1. n - 1 \in DOMAIN t /\ t[n - 1] = q[n] /\ n # 1 /\ k + 1 \in DOMAIN q
      BY <1>1, <1>4, <2>3
    <3> QED
      BY <1>1, <1>2, <1>3, <1>4, <1>5, <1>8, <1>9, <2>3, <3>1
  <2> QED
    BY <2>1, <2>2, <2>3
<1>12. ASSUME NEW i \in DOMAIN t PROVE m.prev[t[i]] = IF i = Len(t) THEN Null ELSE t[i + 1]
  <2>1. m.prev[t[i]] = IF t[i] = after THEN before ELSE l.prev[t[i]]
    BY <1>5, <1>6
  <2>2. CASE i + 1 = k
    <3>1. t[i] = q[k - 1] /\ k # 1 /\ k - 1 = i
      BY <1>1, <1>6, <2>2
    <3>2. m.prev[t[i]] = before
      BY <1>2, <2>1, <3>1
    <3>3. CASE k = n
      BY <1>1, <1>2, <1>4, <2>2, <3>2, <3>3
    <3>4. CASE k # n
      <4>1. i # Len(t) /\ i + 1 \in DOMAIN t /\ t[i + 1] = q[k + 1]
        BY <1>1, <1>4, <2>2, <3>4
      <4> QED
        BY <1>2, <3>2, <3>4, <4>1
    <3> QED
      BY <3>3, <3>4
  <2>3. CASE i + 1 < k
    <3>1. t[i] = q[i] /\ i # Len(t) /\ i + 1 \in DOMAIN t /\ t[i + 1] = q[i + 1] /\ i # n /\ i # k - 1
      BY <1>1, <1>4, <1>6, <2>3
    <3>2. t[i] # after
      BY <1>1, <1>2, <1>3, <1>6, <3>1
    <3> QED
      BY <1>6, <1>9, <2>1, <3>1, <3>2
  <2>4. CASE i >= k
    <3>1. t[i] = q[i + 1] /\ i + 1 \in DOMAIN q /\ i + 1 # k - 1
      BY <1>1, <1>4, <1>6, <2>4
    <3>2. t[i] # after
      BY <1>1, <1>2, <1>3, <1>6, <3>1
    <3>3. m.prev[t[i]] = IF i + 1 = n THEN Null ELSE q[(i + 1) + 1]
      BY <1>9, <2>1, <3>1, <3>2
    <3>4. CASE i = Len(t)
      BY <1>1, <1>4, <3>3, <3>4
    <3>5. CASE i # Len(t)
      <4>1. i + 1 \in DOMAIN t /\ t[i + 1] = q[(i + 1) + 1] /\ i + 1 # n
        BY <1>1, <1>4, <1>6, <2>4, <3>5
      <4> QED
        BY <3>3, <3>5, <4>1
    <3> QED
      BY <3>4, <3>5
  <2> QED
    BY <1>1, <1>6, <2>2, <2>3, <2>4
<1>13. ASSUME NEW i \in DOMAIN t PROVE m.next[t[i]] = IF i = 1 THEN Null ELSE t[i - 1]
  <2>1. m.next[t[i]] = IF t[i] = before THEN after ELSE l.next[t[i]]
    BY <1>5, <1>6
  <2>2. CASE i = k
    <3>1. t[i] = q[k + 1] /\ k # n
      BY <1>1, <1>4, <1>6, <2>2
    <3>2. m.next[t[i]] = after
      BY <1>2, <2>1, <3>1
    <3>3. CASE k = 1
      BY <1>2, <2>2, <3>2, <3>3
    <3>4. CASE k # 1
      <4>1. i # 1 /\ i - 1 \in DOMAIN t /\ t[i - 1] = q[k - 1]
        BY <1>1, <1>4, <2>2, <3>4
      <4> QED
        BY <1>2, <3>2, <3>4, <4>1
    <3> QED
      BY <3>3, <3>4
  <2>3. CASE i < k
    <3>1. t[i] = q[i] /\ i # k + 1
      BY <1>1, <1>6, <2>3
    <3>2. t[i] # before
      BY <1>1, <1>2, <1>3, <1>6, <3>1
    <3>3. m.next[t[i]] = IF i = 1 THEN Null ELSE q[i - 1]
      BY <1>6, <1>9, <2>1, <3>1, <3>2
    <3>4. i # 1 => i - 1 \in DOMAIN t /\ t[i - 1] = q[i - 1]
      BY <1>1, <1>4, <2>3
    <3> QED
      BY <3>3, <3>4
  <2>4. CASE i > k
    <3>1. t[i] = q[i + 1] /\ i + 1 # k + 1 /\ i + 1 # 1 /\ (i + 1) - 1 = i
      BY <1>1, <1>6, <2>4
    <3>2. t[i] # before
      BY <1>1, <1>2, <1>3, <1>6, <3>1
    <3>3. m.next[t[i]] = q[i]
      BY <1>6, <1>9, <2>1, <3>1, <3>2
    <3>4. i # 1 /\ i - 1 \in DOMAIN t /\ t[i - 1] = q[i]
      BY <1>1, <1>4, <2>4
    <3> QED
      BY <3>3, <3>4
  <2> QED
    BY <1>1, <1>6, <2>2, <2>3, <2>4
<1>14. IsList(m, t)
  BY <1>4, <1>5, <1>7, <1>10, <1>11, <1>12, <1>13 DEF IsList
<1> QED
  BY <1>14 DEF t, m

-----------------------------------------------------------------------------
(* The subscriber list. *)

\* Turning a sequence round.
LEMMA TurnedProperties ==
  ASSUME NEW q \in Seq(Elements)
  PROVE  /\ Turned(q) \in Seq(Elements) /\ Len(Turned(q)) = Len(q)
         /\ DOMAIN Turned(q) = 1..Len(q) /\ Len(q) \in Nat
         /\ \A i \in 1..Len(q) : Len(q) + 1 - i \in 1..Len(q) /\ Turned(q)[i] = q[Len(q) + 1 - i]
         /\ Turned(q) = <<>> <=> q = <<>>
<1>1. Len(q) \in Nat /\ DOMAIN q = 1..Len(q) /\ \A i \in DOMAIN q : q[i] \in Elements
  BY LenProperties, ElementOfSeq
<1>2. \A i \in 1..Len(q) : Len(q) + 1 - i \in DOMAIN q
  BY <1>1
<1>3. Turned(q) \in [1..Len(q) -> Elements]
  BY <1>1, <1>2 DEF Turned
<1>4. Turned(q) \in Seq(Elements)
  BY <1>1, <1>3, SeqDef
<1>5. Len(Turned(q)) = Len(q) /\ DOMAIN Turned(q) = 1..Len(q)
  BY <1>1, <1>3, <1>4, LenProperties
<1>6. (q = <<>> <=> Len(q) = 0) /\ (Turned(q) = <<>> <=> Len(Turned(q)) = 0)
  BY <1>4, EmptySeq
<1> QED
  BY <1>1, <1>2, <1>4, <1>5, <1>6 DEF Turned

\* Reversing an order twice gives it back.
LEMMA TurnedTwice ==
  ASSUME NEW q \in Seq(Elements)
  PROVE  Turned(Turned(q)) = q
<1> DEFINE t == Turned(q)
<1>1. /\ t \in Seq(Elements) /\ Len(t) = Len(q) /\ Len(q) \in Nat
      /\ \A i \in 1..Len(q) : Len(q) + 1 - i \in 1..Len(q) /\ t[i] = q[Len(q) + 1 - i]
  BY TurnedProperties
<1> HIDE DEF t
<1>2. /\ Turned(t) \in Seq(Elements) /\ Len(Turned(t)) = Len(t)
      /\ \A i \in 1..Len(t) : Turned(t)[i] = t[Len(t) + 1 - i]
  BY <1>1, TurnedProperties
<1>3. ASSUME NEW i \in 1..Len(q) PROVE Turned(t)[i] = q[i]
  <2>1. Turned(t)[i] = q[Len(q) + 1 - (Len(q) + 1 - i)]
    BY <1>1, <1>2
  <2>2. Len(q) + 1 - (Len(q) + 1 - i) = i
    BY <1>1
  <2> QED
    BY <2>1, <2>2
<1>4. Turned(t) = q
  BY <1>1, <1>2, <1>3, SeqEqual
<1> QED
  BY <1>4 DEF t

First(o) == IF o = <<>> THEN Null ELSE o[1]

\* What the writes that are still to come will make of the list is the list of
\* the subscribers, where an element counts that is being added and none that is
\* being deleted.
ListComes ==
  LET e    == change.of
      tmp  == change.tmp
      step == change.step
  IN  /\ step = "none" => IsList(subs, Turned(order))
      /\ step = "published" =>
           /\ IsList(LinkBack(LinkNext(subs, e, tmp), e, tmp), Turned(<<e>> \o order))
           /\ subs.next[e] = Null
      /\ step = "linked" => IsList(LinkBack(subs, e, tmp), Turned(<<e>> \o order))
      /\ step = "cut" => IsList(Freed(CutPrev(subs, e), e), Turned(order)) /\ subs.p_tail # Null
      /\ step = "joined" => IsList(Freed(subs, e), Turned(order))
      /\ step = "cleared" => IsList(subs, Turned(order)) /\ subs.next[e] = Null

\* The links lead through the subscribers.
Leads(l, o) ==
  /\ \A i, j \in DOMAIN o : o[i] = o[j] => i = j
  /\ \A i \in DOMAIN o : l.next[o[i]] = IF i = Len(o) THEN Null ELSE o[i + 1]
  /\ o # <<>> => l.p_tail # Null

\* A flush, which never mends the links back, keeps those on.
FlushLeads ==
  /\ change.step \in {"flushing", "dropped"} => Leads(subs, order)
  /\ change.step = "flushing" => subs.p_head = First(order)
  /\ change.step = "dropped" => subs.p_head = change.of /\ change.tmp = First(order)

Steps == {"none", "published", "linked", "cut", "joined", "cleared", "flushing", "dropped"}

ChangeIsTyped ==
  /\ change \in [step : Steps, of : Elements \cup {Null}, tmp : Elements \cup {Null}]
  /\ change.step = "none" => change = Still
  /\ change.step \notin {"none", "flushing"} => change.of \in Elements /\ ~Listed(change.of)
  /\ change.step \in {"published", "linked"} => change.tmp = First(order)

SubsHoldOrder ==
  /\ order \in Seq(Elements) /\ subs \in Lists
  /\ ChangeIsTyped /\ ListComes /\ FlushLeads

\* The thread that walks is at an element, or not in the list; ...
WalkIsTyped ==
  /\ walk \in [pc : {"rest", "begun", "entered", "in"}, at : Elements \cup {Null},
               sought : Elements \cup {Null}, stayed : BOOLEAN]
  /\ walk.pc = "rest" => walk = Resting
  /\ walk.pc = "in" <=> walk.at # Null

\* ... what it seeks and what has not left the list is not behind it, nor behind
\* the next element where it is at one that is leaving the list.
NotBehind(e) == \A i \in DOMAIN order : order[i] = e =>
                  \E j \in DOMAIN order : j >= i /\ order[j] = walk.sought

Leaving(e) == change.of = e /\ change.step \in {"cut", "joined"}

WalkIsAhead ==
  walk.stayed =>
    /\ Listed(walk.sought) /\ NotBehind(walk.at)
    /\ Leaving(walk.at) => Listed(subs.next[walk.at]) /\ NotBehind(subs.next[walk.at])

SubsIInv == SubsHoldOrder /\ WalkIsTyped /\ WalkIsAhead

\* The links of a list, read in the order of the subscribers.
LEMMA LinksOfOrder ==
  ASSUME NEW o \in Seq(Elements), NEW l, IsList(l, Turned(o))
  PROVE  l.p_head = First(o) /\ Leads(l, o) /\ (o = <<>> => l.p_tail = Null)
<1> DEFINE q == Turned(o)
<1> DEFINE n == Len(o)
<1>1. n \in Nat /\ DOMAIN o = 1..n /\ \A i \in DOMAIN o : o[i] \in Elements
  BY LenProperties, ElementOfSeq
<1>2. o # <<>> => n >= 1
  BY <1>1, EmptySeq
<1>3. IsList(l, q)
  OBVIOUS
<1>4. /\ q \in Seq(Elements) /\ Len(q) = n /\ DOMAIN q = 1..n
      /\ \A i \in 1..n : n + 1 - i \in 1..n /\ q[i] = o[n + 1 - i]
      /\ q = <<>> <=> o = <<>>
  BY TurnedProperties
<1> HIDE DEF q
<1>5. \A i \in 1..n : n + 1 - i \in 1..n /\ o[i] = q[n + 1 - i]
  <2> SUFFICES ASSUME NEW i \in 1..n PROVE n + 1 - i \in 1..n /\ o[i] = q[n + 1 - i]
    OBVIOUS
  <2>1. n + 1 - i \in 1..n /\ n + 1 - (n + 1 - i) = i
    BY <1>1
  <2>2. q[n + 1 - i] = o[n + 1 - (n + 1 - i)]
    BY <1>4, <2>1
  <2> QED
    BY <2>1, <2>2
<1>6. ASSUME NEW i \in DOMAIN o, NEW j \in DOMAIN o, o[i] = o[j] PROVE i = j
  <2>1. n + 1 - i \in DOMAIN q /\ n + 1 - j \in DOMAIN q /\ q[n + 1 - i] = q[n + 1 - j]
    BY <1>1, <1>4, <1>5, <1>6
  <2>2. n + 1 - i = n + 1 - j
    BY <1>3, <2>1 DEF IsList
  <2> QED
    BY <1>1, <2>2
<1>7. l.p_head = First(o)
  <2>1. o # <<>> => n \in 1..n /\ n + 1 - n = 1
    BY <1>1, <1>2
  <2>2. o # <<>> => q[n] = o[1]
    BY <1>4, <2>1
  <2> QED
    BY <1>3, <1>4, <2>2 DEF IsList, First
<1>8. l.p_tail = Null <=> o = <<>>
  <2>1. o # <<>> => q[1] \in Elements
    BY <1>1, <1>2, <1>4
  <2> QED
    BY <1>3, <1>4, <2>1, ListAssumption DEF IsList
<1>9. ASSUME NEW i \in DOMAIN o
      PROVE  l.next[o[i]] = IF i = n THEN Null ELSE o[i + 1]
  <2> DEFINE k == n + 1 - i
  <2>1. k \in 1..n /\ o[i] = q[k] /\ (k = 1 <=> i = n)
    BY <1>1, <1>5
  <2>2. l.next[q[k]] = IF k = 1 THEN Null ELSE q[k - 1]
    BY <1>3, <1>4, <2>1 DEF IsList
  <2>3. k # 1 => k - 1 \in 1..n /\ n + 1 - (k - 1) = i + 1
    BY <1>1, <2>1
  <2>4. k # 1 => q[k - 1] = o[i + 1]
    BY <1>4, <2>3
  <2> HIDE DEF k
  <2> QED
    BY <2>1, <2>2, <2>4
<1> QED
  BY <1>6, <1>7, <1>8, <1>9 DEF Leads

\* Putting an element before the others.
LEMMA ConsProperties ==
  ASSUME NEW q \in Seq(Elements), NEW e \in Elements
  PROVE  /\ <<e>> \o q \in Seq(Elements) /\ <<e>> \o q # <<>>
         /\ Len(<<e>> \o q) = Len(q) + 1 /\ DOMAIN (<<e>> \o q) = 1..(Len(q) + 1)
         /\ (<<e>> \o q)[1] = e /\ \A i \in 1..Len(q) : (<<e>> \o q)[i + 1] = q[i]
         /\ Turned(<<e>> \o q) = Append(Turned(q), e)
<1> DEFINE n == Len(q)
<1> DEFINE c == <<e>> \o q
<1>1. n \in Nat /\ DOMAIN q = 1..n
  BY LenProperties
<1>2. /\ c \in Seq(Elements) /\ Len(c) = n + 1 /\ DOMAIN c = 1..(n + 1)
      /\ c[1] = e /\ \A i \in 1..n : c[i + 1] = q[i]
  <2>1. <<e>> \in Seq(Elements) /\ Len(<<e>>) = 1 /\ <<e>>[1] = e
    OBVIOUS
  <2>2. /\ c \in Seq(Elements) /\ Len(c) = 1 + n
        /\ \A i \in 1..(1 + n) : c[i] = IF i <= 1 THEN <<e>>[i] ELSE q[i - 1]
    BY <1>1, <2>1, ConcatProperties
  <2> HIDE DEF c
  <2>3. c[1] = e
    BY <1>1, <2>1, <2>2
  <2>4. ASSUME NEW i \in 1..n PROVE c[i + 1] = q[i]
    <3>1. i + 1 \in 1..(1 + n) /\ ~(i + 1 <= 1) /\ (i + 1) - 1 = i
      BY <1>1
    <3> QED
      BY <2>2, <3>1
  <2> QED
    BY <1>1, <2>2, <2>3, <2>4, LenProperties
<1> HIDE DEF c
<1>3. Turned(c) = Append(Turned(q), e)
  <2> DEFINE a == Append(Turned(q), e)
  <2> DEFINE b == Turned(c)
  <2>1. /\ Turned(q) \in Seq(Elements) /\ Len(Turned(q)) = n
        /\ \A i \in 1..n : n + 1 - i \in 1..n /\ Turned(q)[i] = q[n + 1 - i]
    BY <1>1, TurnedProperties
  <2>2. /\ a \in Seq(Elements) /\ Len(a) = n + 1
        /\ \A i \in 1..n : a[i] = Turned(q)[i]
        /\ a[n + 1] = e
    BY <2>1, AppendProperties
  <2>3. /\ b \in Seq(Elements) /\ Len(b) = n + 1
        /\ \A i \in 1..(n + 1) : b[i] = c[(n + 1) + 1 - i]
    BY <1>2, TurnedProperties
  <2> HIDE DEF a, b
  <2>4. ASSUME NEW i \in 1..(n + 1) PROVE b[i] = a[i]
    <3>1. CASE i = n + 1
      BY <1>1, <1>2, <2>2, <2>3, <3>1
    <3>2. CASE i # n + 1
      <4>1. i \in 1..n /\ (n + 1) + 1 - i = (n + 1 - i) + 1
        BY <1>1, <3>2
      <4>2. n + 1 - i \in 1..n /\ a[i] = q[n + 1 - i]
        BY <2>1, <2>2, <4>1
      <4>3. b[i] = c[(n + 1 - i) + 1]
        BY <2>3, <4>1
      <4> QED
        BY <1>2, <4>2, <4>3
    <3> QED
      BY <3>1, <3>2
  <2>5. b = a
    BY <2>2, <2>3, <2>4, SeqEqual
  <2> QED
    BY <2>5 DEF a, b
<1>4. c # <<>>
  BY <1>1, <1>2, EmptySeq
<1> QED
  BY <1>2, <1>3, <1>4 DEF c

\* The links behind an element that has just come.
LEMMA LinksBehind ==
  ASSUME NEW o \in Seq(Elements), NEW e \in Elements, NEW l, IsList(l, Turned(<<e>> \o o))
  PROVE  Leads(l, o) /\ l.p_head = e /\ l.next[e] = First(o)
<1> DEFINE n == Len(o)
<1> DEFINE c == <<e>> \o o
<1>1. n \in Nat /\ DOMAIN o = 1..n /\ (o = <<>> <=> n = 0)
  BY LenProperties, EmptySeq
<1>2. /\ c \in Seq(Elements) /\ c # <<>> /\ Len(c) = n + 1 /\ DOMAIN c = 1..(n + 1)
      /\ c[1] = e /\ \A i \in 1..n : c[i + 1] = o[i]
  BY ConsProperties
<1>3. l.p_head = First(c) /\ Leads(l, c)
  BY <1>2, LinksOfOrder
<1> HIDE DEF c
<1>4. l.p_head = e /\ l.p_tail # Null
  BY <1>2, <1>3 DEF First, Leads
<1>5. l.next[e] = First(o)
  <2>1. l.next[c[1]] = IF 1 = n + 1 THEN Null ELSE c[1 + 1]
    BY <1>1, <1>2, <1>3 DEF Leads
  <2>2. n # 0 => c[1 + 1] = o[1]
    BY <1>1, <1>2
  <2> QED
    BY <1>1, <1>2, <2>1, <2>2 DEF First
<1>6. ASSUME NEW i \in DOMAIN o
      PROVE  l.next[o[i]] = IF i = n THEN Null ELSE o[i + 1]
  <2>1. i + 1 \in DOMAIN c /\ c[i + 1] = o[i] /\ (i + 1 = n + 1 <=> i = n)
    BY <1>1, <1>2
  <2>2. l.next[c[i + 1]] = IF i + 1 = n + 1 THEN Null ELSE c[(i + 1) + 1]
    BY <1>2, <1>3, <2>1 DEF Leads
  <2>3. i # n => i + 1 \in 1..n
    BY <1>1
  <2>4. i # n => c[(i + 1) + 1] = o[i + 1]
    BY <1>2, <2>3
  <2> QED
    BY <2>1, <2>2, <2>4
<1>7. ASSUME NEW i \in DOMAIN o, NEW j \in DOMAIN o, o[i] = o[j] PROVE i = j
  <2>1. i + 1 \in DOMAIN c /\ j + 1 \in DOMAIN c /\ c[i + 1] = c[j + 1]
    BY <1>1, <1>2, <1>7
  <2>2. i + 1 = j + 1
    BY <1>3, <2>1 DEF Leads
  <2> QED
    BY <1>1, <2>2
<1> QED
  BY <1>4, <1>5, <1>6, <1>7 DEF Leads

\* In the middle of a change as well the links on lead through the subscribers,
\* and the head is the first of them, but for one that is just put there or
\* taken from there.
LEMMA LinksLead ==
  ASSUME SubsHoldOrder
  PROVE  /\ Leads(subs, order)
         /\ change.step \in {"published", "linked", "dropped"} => subs.p_head = change.of
         /\ change.step \notin {"published", "linked", "dropped"} => subs.p_head = First(order)
         /\ change.step = "linked" => subs.next[change.of] = First(order)
<1> DEFINE e == change.of
<1>1. order \in Seq(Elements) /\ subs \in Lists /\ change.step \in Steps
  BY DEF SubsHoldOrder, ChangeIsTyped
<1>2. \A i \in DOMAIN order : order[i] \in Elements
  BY <1>1, ElementOfSeq
<1>3. order # <<>> => First(order) # Null
  <2>1. order # <<>> => 1 \in DOMAIN order
    BY <1>1, LenProperties, EmptySeq
  <2> QED
    BY <1>2, <2>1, ListAssumption DEF First
<1>4. CASE change.step = "none"
  BY <1>1, <1>4, LinksOfOrder DEF SubsHoldOrder, ListComes
<1>5. CASE change.step = "published"
  <2> DEFINE k == LinkNext(subs, e, change.tmp)
  <2> DEFINE m == LinkBack(k, e, change.tmp)
  <2>1. e \in Elements /\ ~Listed(e) /\ change.tmp = First(order)
    BY <1>5 DEF SubsHoldOrder, ChangeIsTyped
  <2>2. IsList(m, Turned(<<e>> \o order))
    BY <1>5 DEF SubsHoldOrder, ListComes
  <2>3. Leads(m, order) /\ m.p_head = e
    BY <1>1, <2>1, <2>2, LinksBehind
  <2>4. /\ m.p_head = subs.p_head /\ (change.tmp # Null => m.p_tail = subs.p_tail)
        /\ \A x \in Elements : x # e => m.next[x] = subs.next[x]
    BY <1>1, <2>1 DEF LinkBack, LinkNext, Lists
  <2> HIDE DEF m, e
  <2>5. \A i \in DOMAIN order : order[i] # e
    BY <2>1 DEF Listed
  <2>6. Leads(subs, order)
    BY <1>2, <1>3, <2>1, <2>3, <2>4, <2>5 DEF Leads
  <2> QED
    BY <1>5, <2>3, <2>4, <2>6 DEF e
<1>6. CASE change.step = "linked"
  <2> DEFINE m == LinkBack(subs, e, change.tmp)
  <2>1. e \in Elements /\ change.tmp = First(order)
    BY <1>6 DEF SubsHoldOrder, ChangeIsTyped
  <2>2. IsList(m, Turned(<<e>> \o order))
    BY <1>6 DEF SubsHoldOrder, ListComes
  <2>3. Leads(m, order) /\ m.p_head = e /\ m.next[e] = First(order)
    BY <1>1, <2>1, <2>2, LinksBehind
  <2>4. /\ m.p_head = subs.p_head /\ (change.tmp # Null => m.p_tail = subs.p_tail)
        /\ m.next = subs.next
    BY <1>1, <2>1 DEF LinkBack, Lists
  <2> HIDE DEF m, e
  <2>5. Leads(subs, order)
    BY <1>2, <1>3, <2>1, <2>3, <2>4 DEF Leads
  <2> QED
    BY <1>6, <2>3, <2>4, <2>5 DEF e
<1>7. CASE change.step \in {"cut", "joined", "cleared"}
  <2> DEFINE k == IF change.step = "cut" THEN CutPrev(subs, e) ELSE subs
  <2> DEFINE m == IF change.step = "cleared" THEN k ELSE Freed(k, e)
  <2>1. e \in Elements /\ ~Listed(e)
    BY <1>7 DEF SubsHoldOrder, ChangeIsTyped
  <2>2. IsList(m, Turned(order)) /\ (change.step = "cut" => subs.p_tail # Null)
    BY <1>7 DEF SubsHoldOrder, ListComes
  <2>3. Leads(m, order) /\ m.p_head = First(order)
    BY <1>1, <2>2, LinksOfOrder
  <2>4. /\ k.p_head = subs.p_head /\ (change.step # "cut" => k.p_tail = subs.p_tail)
        /\ k.next = subs.next
    BY <1>1, <2>1 DEF CutPrev, Lists
  <2>5. /\ m.p_head = k.p_head /\ m.p_tail = k.p_tail
        /\ \A x \in Elements : x # e => m.next[x] = k.next[x]
    <3>1. k \in [p_head : Elements \cup {Null}, p_tail : Elements \cup {Null},
                 next : [Elements -> Elements \cup {Null}],
                 prev : [Elements -> Elements \cup {Null}]]
      BY <1>1, <2>1 DEF CutPrev, Lists
    <3> HIDE DEF k
    <3> QED
      BY <2>1, <3>1 DEF Freed
  <2> HIDE DEF m, k, e
  <2>6. \A i \in DOMAIN order : order[i] # e
    BY <2>1 DEF Listed
  <2>7. Leads(subs, order)
    BY <1>2, <2>2, <2>3, <2>4, <2>5, <2>6 DEF Leads
  <2> QED
    BY <1>7, <2>3, <2>4, <2>5, <2>7
<1>8. CASE change.step \in {"flushing", "dropped"}
  BY <1>8 DEF SubsHoldOrder, FlushLeads
<1> QED
  BY <1>1, <1>4, <1>5, <1>6, <1>7, <1>8 DEF Steps

\* A write that leaves the order and the walk alone leaves the walk ahead.
LEMMA WalkStaysAhead ==
  ASSUME SubsIInv, order' = order, walk' = walk,
         Leaving(walk.at)' => Leaving(walk.at) /\ subs'.next[walk.at] = subs.next[walk.at]
  PROVE  WalkIsTyped' /\ WalkIsAhead'
<1>1. WalkIsTyped'
  BY DEF SubsIInv, WalkIsTyped
<1>2. WalkIsAhead'
  BY DEF SubsIInv, WalkIsAhead, NotBehind, Listed
<1> QED
  BY <1>1, <1>2

\* Leaving out an element and turning round can be done in either order.
LEMMA WithoutProperties ==
  ASSUME NEW q \in Seq(Elements), NEW k \in DOMAIN q
  PROVE  /\ SubSeq(q, 1, k - 1) \o SubSeq(q, k + 1, Len(q)) = Without(q, k)
         /\ Without(q, k) \in Seq(Elements) /\ Len(Without(q, k)) = Len(q) - 1
         /\ DOMAIN Without(q, k) = 1..(Len(q) - 1)
         /\ \A i \in 1..(Len(q) - 1) : Without(q, k)[i] = IF i < k THEN q[i] ELSE q[i + 1]
<1> DEFINE n == Len(q)
<1> DEFINE a == SubSeq(q, 1, k - 1)
<1> DEFINE b == SubSeq(q, k + 1, n)
<1> DEFINE w == Without(q, k)
<1>1. n \in Nat /\ DOMAIN q = 1..n /\ (\A i \in DOMAIN q : q[i] \in Elements) /\ k \in 1..n
  BY LenProperties, ElementOfSeq
<1>2. \A i \in 1..(n - 1) : i \in DOMAIN q /\ i + 1 \in DOMAIN q
  BY <1>1
<1>3. w \in [1..(n - 1) -> Elements] /\ n - 1 \in Nat
  BY <1>1, <1>2 DEF Without
<1>4. w \in Seq(Elements)
  BY <1>3, SeqDef
<1>5. /\ Len(w) = n - 1 /\ DOMAIN w = 1..(n - 1)
      /\ \A i \in 1..(n - 1) : w[i] = IF i < k THEN q[i] ELSE q[i + 1]
  BY <1>3, <1>4, LenProperties DEF Without
<1>6. a \in Seq(Elements) /\ Len(a) = k - 1 /\ \A i \in 1..(k - 1) : a[i] = q[i]
  <2>1. 1 \in Int /\ k - 1 \in Int /\ \A i \in 1..(k - 1) : q[i] \in Elements
    BY <1>1
  <2>2. /\ a \in Seq(Elements) /\ Len(a) = IF 1 <= k - 1 THEN (k - 1) - 1 + 1 ELSE 0
        /\ \A i \in 1..((k - 1) - 1 + 1) : a[i] = q[1 + i - 1]
    BY <2>1, SubSeqProperties
  <2>3. (k - 1) - 1 + 1 = k - 1 /\ (~(1 <= k - 1) => k - 1 = 0) /\ \A i \in 1..(k - 1) : 1 + i - 1 = i
    BY <1>1
  <2> HIDE DEF a
  <2> QED
    BY <2>2, <2>3
<1>7. b \in Seq(Elements) /\ Len(b) = n - k /\ \A i \in 1..(n - k) : b[i] = q[k + i]
  <2>1. n \in Int /\ k + 1 \in Int /\ \A i \in (k + 1)..n : q[i] \in Elements
    BY <1>1
  <2>2. /\ b \in Seq(Elements) /\ Len(b) = IF k + 1 <= n THEN n - (k + 1) + 1 ELSE 0
        /\ \A i \in 1..(n - (k + 1) + 1) : b[i] = q[(k + 1) + i - 1]
    BY <2>1, SubSeqProperties
  <2>3. n - (k + 1) + 1 = n - k /\ (~(k + 1 <= n) => n - k = 0) /\ \A i \in 1..(n - k) : (k + 1) + i - 1 = k + i
    BY <1>1
  <2> HIDE DEF b
  <2> QED
    BY <2>2, <2>3
<1> HIDE DEF a, b, w
<1>8. /\ a \o b \in Seq(Elements) /\ Len(a \o b) = n - 1
      /\ \A i \in 1..(n - 1) : (a \o b)[i] = IF i <= k - 1 THEN a[i] ELSE b[i - (k - 1)]
  <2>1. /\ a \o b \in Seq(Elements) /\ Len(a \o b) = Len(a) + Len(b)
        /\ \A i \in 1..(Len(a) + Len(b)) : (a \o b)[i] = IF i <= Len(a) THEN a[i] ELSE b[i - Len(a)]
    BY <1>6, <1>7, ConcatProperties
  <2>2. (k - 1) + (n - k) = n - 1
    BY <1>1
  <2> QED
    BY <1>6, <1>7, <2>1, <2>2
<1>9. ASSUME NEW i \in 1..(n - 1) PROVE (a \o b)[i] = w[i]
  <2>1. CASE i < k
    BY <1>1, <1>5, <1>6, <1>8, <2>1
  <2>2. CASE ~(i < k)
    <3>1. i - (k - 1) \in 1..(n - k) /\ k + (i - (k - 1)) = i + 1 /\ ~(i <= k - 1)
      BY <1>1, <2>2
    <3> QED
      BY <1>5, <1>7, <1>8, <2>2, <3>1
  <2> QED
    BY <2>1, <2>2
<1>10. a \o b = w
  BY <1>4, <1>5, <1>8, <1>9, SeqEqual
<1> QED
  BY <1>4, <1>5, <1>10 DEF a, b, w

\* Taking an element out of the order of the list, which is the reverse of
\* the order of the subscriptions, takes it out of that one too.
LEMMA TurnedWithout ==
  ASSUME NEW q \in Seq(Elements), NEW k \in DOMAIN q
  PROVE  /\ Len(q) + 1 - k \in DOMAIN Turned(q) /\ Turned(q)[Len(q) + 1 - k] = q[k]
         /\ Turned(Without(q, k)) = Without(Turned(q), Len(q) + 1 - k)
<1> DEFINE n == Len(q)
<1> DEFINE t == Turned(q)
<1> DEFINE w == Without(q, k)
<1> DEFINE c == n + 1 - k
<1>1. n \in Nat /\ DOMAIN q = 1..n /\ k \in 1..n
  BY LenProperties
<1>2. c \in 1..n /\ n + 1 - c = k
  BY <1>1
<1>3. t \in Seq(Elements) /\ Len(t) = n /\ DOMAIN t = 1..n /\ \A i \in 1..n : t[i] = q[n + 1 - i]
  BY TurnedProperties
<1>4. /\ w \in Seq(Elements) /\ Len(w) = n - 1
      /\ \A i \in 1..(n - 1) : w[i] = IF i < k THEN q[i] ELSE q[i + 1]
  BY WithoutProperties
<1> HIDE DEF t, w, c
<1>5. /\ Turned(w) \in Seq(Elements) /\ Len(Turned(w)) = n - 1
      /\ \A i \in 1..(n - 1) : n - i \in 1..(n - 1) /\ Turned(w)[i] = w[n - i]
  <2>1. /\ Turned(w) \in Seq(Elements) /\ Len(Turned(w)) = Len(w)
        /\ \A i \in 1..Len(w) : Len(w) + 1 - i \in 1..Len(w) /\ Turned(w)[i] = w[Len(w) + 1 - i]
    BY <1>4, TurnedProperties
  <2>2. \A i \in 1..(n - 1) : (n - 1) + 1 - i = n - i
    BY <1>1
  <2> QED
    BY <1>4, <2>1, <2>2
<1>6. /\ Without(t, c) \in Seq(Elements) /\ Len(Without(t, c)) = n - 1
      /\ \A i \in 1..(n - 1) : Without(t, c)[i] = IF i < c THEN t[i] ELSE t[i + 1]
  <2>1. c \in DOMAIN t
    BY <1>2, <1>3
  <2>2. /\ Without(t, c) \in Seq(Elements) /\ Len(Without(t, c)) = Len(t) - 1
        /\ \A i \in 1..(Len(t) - 1) : Without(t, c)[i] = IF i < c THEN t[i] ELSE t[i + 1]
    BY <1>3, <2>1, WithoutProperties
  <2> QED
    BY <1>3, <2>2
<1>7. ASSUME NEW i \in 1..(n - 1) PROVE Turned(w)[i] = Without(t, c)[i]
  <2>1. n - i \in 1..(n - 1) /\ Turned(w)[i] = w[n - i] /\ w[n - i] = IF n - i < k THEN q[n - i] ELSE q[(n - i) + 1]
    BY <1>4, <1>5
  <2>2. CASE i < c
    <3>1. ~(n - i < k) /\ i \in 1..n /\ (n - i) + 1 = n + 1 - i
      BY <1>1, <2>2 DEF c
    <3>2. t[i] = q[n + 1 - i]
      BY <1>3, <3>1
    <3> QED
      BY <1>6, <2>1, <2>2, <3>1, <3>2
  <2>3. CASE ~(i < c)
    <3>1. n - i < k
      BY <1>1, <2>3 DEF c
    <3>2. i + 1 \in 1..n /\ n + 1 - (i + 1) = n - i
      <4> i \in Nat /\ i >= 1 /\ i <= n - 1 /\ n \in Nat
        BY <1>1
      <4> HIDE DEF n
      <4> QED
        OBVIOUS
    <3>3. t[i + 1] = q[n - i]
      BY <1>3, <3>2
    <3> QED
      BY <1>6, <2>1, <2>3, <3>1, <3>3
  <2> QED
    BY <2>2, <2>3
<1>8. Turned(w) = Without(t, c)
  BY <1>5, <1>6, <1>7, SeqEqual
<1>9. t[c] = q[k]
  BY <1>2, <1>3
<1> QED
  BY <1>2, <1>3, <1>8, <1>9 DEF t, w, c

\* Each write makes a list of a list.
LEMMA WritesMakeLists ==
  ASSUME NEW l \in Lists, NEW e \in Elements, NEW x \in Elements \cup {Null}
  PROVE  /\ Publish(l, e) \in Lists /\ LinkNext(l, e, x) \in Lists /\ LinkBack(l, e, x) \in Lists
         /\ CutNext(l, e) \in Lists /\ CutPrev(l, e) \in Lists /\ Freed(l, e) \in Lists
<1>1. Publish(l, e) \in Lists /\ LinkNext(l, e, x) \in Lists /\ Freed(l, e) \in Lists
  BY DEF Publish, LinkNext, Freed, Lists
<1>2. LinkBack(l, e, x) \in Lists
  BY DEF LinkBack, Lists
<1>3. CutNext(l, e) \in Lists
  BY DEF CutNext, Lists
<1>4. CutPrev(l, e) \in Lists
  BY DEF CutPrev, Lists
<1> QED
  BY <1>1, <1>2, <1>3, <1>4

\* A subscription keeps the pointers and the order in step with each of its writes.
LEMMA AddKeepsSubs ==
  ASSUME SubsIInv, (\E e \in Elements : SubsAdd(e)) \/ AddLinks \/ AddEnds
  PROVE  SubsIInv'
<1>1. order \in Seq(Elements) /\ subs \in Lists /\ ChangeIsTyped /\ ListComes
  BY DEF SubsIInv, SubsHoldOrder
<1>2. ASSUME NEW e \in Elements, SubsAdd(e) PROVE SubsIInv'
  <2>1. /\ change.step = "none" /\ IsList(subs, Turned(order)) /\ ~Listed(e)
        /\ subs.p_head = First(order) /\ subs.p_head \in Elements \cup {Null}
    BY <1>1, <1>2, LinksOfOrder DEF SubsAdd, Still, ListComes, Lists
  <2>2. /\ subs' = Publish(subs, e) /\ order' = order /\ walk' = walk
        /\ change' = [step |-> "published", of |-> e, tmp |-> subs.p_head]
    BY <1>2 DEF SubsAdd
  <2>3. change'.step = "published" /\ change'.of = e /\ change'.tmp = subs.p_head
    BY <2>2
  <2>4. \A i \in DOMAIN Turned(order) : Turned(order)[i] # e
    BY <1>1, <2>1, TurnedProperties, LenProperties DEF Listed
  <2>5. IsList(Add(subs, e), Turned(<<e>> \o order))
    <3>1. IsList(Add(subs, e), Append(Turned(order), e))
      BY <2>1, <2>4, AddAppends
    <3>2. Turned(<<e>> \o order) = Append(Turned(order), e)
      BY <1>1, ConsProperties
    <3> QED
      BY <3>1, <3>2
  <2>6. Add(subs, e) = LinkBack(LinkNext(subs', e, subs.p_head), e, subs.p_head)
    BY <2>2 DEF Add
  <2>7. subs' \in Lists /\ subs'.next[e] = Null
    BY <1>1, <2>2 DEF Publish, Lists
  <2>8. ListComes'
    BY <2>2, <2>3, <2>5, <2>6, <2>7 DEF ListComes
  <2>9. ChangeIsTyped'
    BY <2>1, <2>2, <2>3 DEF ChangeIsTyped, Listed, Steps
  <2>10. SubsHoldOrder'
    BY <1>1, <2>2, <2>3, <2>7, <2>8, <2>9 DEF SubsHoldOrder, FlushLeads
  <2> QED
    BY <2>2, <2>3, <2>10, WalkStaysAhead DEF SubsIInv, Leaving
<1>3. CASE AddLinks
  <2> DEFINE e == change.of
  <2>1. /\ change.step = "published" /\ subs' = LinkNext(subs, e, change.tmp)
        /\ change' = [change EXCEPT !.step = "linked"] /\ order' = order /\ walk' = walk
    BY <1>3 DEF AddLinks
  <2>2. /\ e \in Elements /\ ~Listed(e) /\ change.tmp = First(order)
        /\ change \in [step : Steps, of : Elements \cup {Null}, tmp : Elements \cup {Null}]
    BY <1>1, <2>1 DEF ChangeIsTyped
  <2>3. change'.step = "linked" /\ change'.of = e /\ change'.tmp = change.tmp
    BY <2>1, <2>2
  <2>4. IsList(LinkBack(subs', e, change.tmp), Turned(<<e>> \o order))
    BY <1>1, <2>1 DEF ListComes
  <2>5. subs' \in Lists
    BY <1>1, <2>1, <2>2, WritesMakeLists
  <2>6. ListComes'
    BY <2>1, <2>3, <2>4 DEF ListComes
  <2>7. ChangeIsTyped'
    <3>1. change' \in [step : Steps, of : Elements \cup {Null}, tmp : Elements \cup {Null}]
      BY <2>1, <2>2 DEF Steps
    <3> QED
      BY <2>1, <2>2, <2>3, <3>1 DEF ChangeIsTyped, Listed
  <2>8. SubsHoldOrder'
    BY <1>1, <2>1, <2>3, <2>5, <2>6, <2>7 DEF SubsHoldOrder, FlushLeads
  <2> QED
    BY <2>1, <2>3, <2>8, WalkStaysAhead DEF SubsIInv, Leaving
<1>4. CASE AddEnds
  <2> DEFINE e == change.of
  <2> DEFINE n == Len(order)
  <2>1. /\ change.step = "linked" /\ subs' = LinkBack(subs, e, change.tmp)
        /\ change' = Still /\ order' = <<e>> \o order /\ walk' = walk
    BY <1>4 DEF AddEnds
  <2>2. e \in Elements /\ change.tmp \in Elements \cup {Null}
    BY <1>1, <2>1 DEF ChangeIsTyped
  <2>3. change'.step = "none" /\ change'.of = Null /\ change'.tmp = Null
    BY <2>1 DEF Still
  <2>4. IsList(subs', Turned(order'))
    BY <1>1, <2>1 DEF ListComes
  <2>5. subs' \in Lists
    BY <1>1, <2>1, <2>2, WritesMakeLists
  <2>6. /\ order' \in Seq(Elements) /\ DOMAIN order' = 1..(n + 1) /\ n \in Nat /\ DOMAIN order = 1..n
        /\ order'[1] = e /\ \A i \in 1..n : order'[i + 1] = order[i]
    BY <1>1, <2>1, <2>2, ConsProperties, LenProperties
  <2>7. ListComes'
    BY <2>3, <2>4 DEF ListComes
  <2>8. ChangeIsTyped'
    BY <2>1, <2>3 DEF ChangeIsTyped, Steps, Still
  <2>9. SubsHoldOrder'
    BY <2>3, <2>5, <2>6, <2>7, <2>8 DEF SubsHoldOrder, FlushLeads
  <2>10. WalkIsTyped'
    BY <2>1 DEF SubsIInv, WalkIsTyped
  <2> HIDE DEF e, n
  <2>11. ASSUME NEW j \in DOMAIN order PROVE j + 1 \in DOMAIN order' /\ order'[j + 1] = order[j]
    BY <2>6
  <2>12. ASSUME walk.stayed PROVE Listed(walk.sought)'
    <3>1. PICK j \in DOMAIN order : order[j] = walk.sought
      BY <2>12 DEF SubsIInv, WalkIsAhead, Listed
    <3>2. j + 1 \in DOMAIN order' /\ order'[j + 1] = walk'.sought
      BY <2>1, <2>11, <3>1
    <3> QED
      BY <3>2 DEF Listed
  <2>13. ASSUME walk.stayed, NEW i \in DOMAIN order', order'[i] = walk.at
         PROVE  \E j \in DOMAIN order' : j >= i /\ order'[j] = walk.sought
    <3>1. CASE i = 1
      <4>1. PICK j \in DOMAIN order : order[j] = walk.sought
        BY <2>13 DEF SubsIInv, WalkIsAhead, Listed
      <4>2. j + 1 \in DOMAIN order' /\ order'[j + 1] = walk.sought /\ j + 1 >= 1
        BY <2>6, <2>11, <4>1
      <4> QED
        BY <3>1, <4>2
    <3>2. CASE i # 1
      <4>1. i - 1 \in DOMAIN order /\ (i - 1) + 1 = i
        BY <2>6, <3>2
      <4>2. order[i - 1] = walk.at
        BY <2>11, <2>13, <4>1
      <4>3. PICK j \in DOMAIN order : j >= i - 1 /\ order[j] = walk.sought
        BY <2>13, <4>1, <4>2 DEF SubsIInv, WalkIsAhead, NotBehind
      <4>4. j + 1 \in DOMAIN order' /\ order'[j + 1] = walk.sought /\ j + 1 >= i
        BY <2>6, <2>11, <4>3
      <4> QED
        BY <4>4
    <3> QED
      BY <3>1, <3>2
  <2>14. ~Leaving(walk.at)'
    BY <2>3 DEF Leaving
  <2>15. WalkIsAhead'
    BY <2>1, <2>12, <2>13, <2>14 DEF WalkIsAhead, NotBehind
  <2> QED
    BY <2>9, <2>10, <2>15 DEF SubsIInv
<1> QED
  BY <1>2, <1>3, <1>4

\* So does taking a subscriber out, wherever in the list it is.
LEMMA DeleteKeepsSubs ==
  ASSUME SubsIInv, NEW e \in Elements, SubsDelete(e)
  PROVE  SubsIInv'
<1> DEFINE n == Len(order)
<1>1. /\ order \in Seq(Elements) /\ n \in Nat /\ DOMAIN order = 1..n /\ subs \in Lists
      /\ \A i, j \in DOMAIN order : order[i] = order[j] => i = j
      /\ \A i \in DOMAIN order : subs.next[order[i]] = IF i = n THEN Null ELSE order[i + 1]
      /\ order # <<>> => subs.p_tail # Null
  BY LinksLead, LenProperties DEF SubsIInv, SubsHoldOrder, Leads
<1>2. PICK k \in DOMAIN order :
        order[k] = e /\ order' = SubSeq(order, 1, k - 1) \o SubSeq(order, k + 1, Len(order))
  BY DEF SubsDelete
<1>3. /\ order' = Without(order, k) /\ order' \in Seq(Elements) /\ DOMAIN order' = 1..(n - 1)
      /\ \A i \in 1..(n - 1) : order'[i] = IF i < k THEN order[i] ELSE order[i + 1]
  <2>1. order' = Without(order, k)
    BY <1>1, <1>2, WithoutProperties
  <2>2. /\ Without(order, k) \in Seq(Elements) /\ DOMAIN Without(order, k) = 1..(n - 1)
        /\ \A i \in 1..(n - 1) : Without(order, k)[i] = IF i < k THEN order[i] ELSE order[i + 1]
    BY <1>1, <1>2, WithoutProperties
  <2> QED
    BY <2>1, <2>2
<1>4. /\ change = Still /\ subs' = CutNext(subs, e)
      /\ change' = [step |-> "cut", of |-> e, tmp |-> Null]
      /\ change'.step = "cut" /\ change'.of = e /\ change'.tmp = Null
  BY DEF SubsDelete
<1> DEFINE c == n + 1 - k
<1>5. /\ c \in DOMAIN Turned(order) /\ Turned(order)[c] = e
      /\ Turned(order') = Without(Turned(order), c)
  <2>1. /\ c \in DOMAIN Turned(order) /\ Turned(order)[c] = order[k]
        /\ Turned(Without(order, k)) = Without(Turned(order), c)
    BY <1>1, TurnedWithout
  <2> HIDE DEF c
  <2> QED
    BY <1>2, <1>3, <2>1
<1> HIDE DEF c
<1>6. IsList(subs, Turned(order))
  BY <1>4 DEF SubsIInv, SubsHoldOrder, ListComes, Still
<1>7. subs.prev[e] # e
  <2> DEFINE q == Turned(order)
  <2>1. DOMAIN q = 1..Len(q) /\ Len(q) \in Nat /\ q \in Seq(Elements)
    BY <1>1, TurnedProperties
  <2> HIDE DEF q
  <2>2. subs.prev[q[c]] = IF c = Len(q) THEN Null ELSE q[c + 1]
    BY <1>5, <1>6 DEF IsList, q
  <2>3. CASE c = Len(q)
    BY <1>5, <2>2, <2>3, ListAssumption DEF q
  <2>4. CASE c # Len(q)
    <3>1. c \in DOMAIN q /\ c + 1 \in DOMAIN q /\ c # c + 1
      BY <1>5, <2>1, <2>4 DEF q
    <3>2. q[c + 1] # q[c]
      BY <1>6, <3>1 DEF IsList, q
    <3> QED
      BY <1>5, <2>2, <2>4, <3>2 DEF q
  <2> QED
    BY <2>3, <2>4
<1>8. subs' \in Lists /\ subs'.p_tail = subs.p_tail /\ subs'.next[e] = subs.next[e]
  BY <1>1, <1>4, <1>7 DEF CutNext, Lists
<1>9. order # <<>>
  BY <1>1, <1>2, EmptySeq
<1>10. \A i \in DOMAIN order' : order'[i] # e
  BY <1>1, <1>2, <1>3
<1>11. SubsHoldOrder'
  <2>1. IsList(Unlinked(subs, e), Turned(order'))
    BY <1>5, <1>6, UnlinkDrops
  <2>2. ListComes'
    BY <1>1, <1>4, <1>8, <1>9, <2>1 DEF ListComes, Unlinked
  <2>3. ChangeIsTyped'
    BY <1>4, <1>10 DEF ChangeIsTyped, Listed, Steps
  <2> QED
    BY <1>3, <1>4, <1>8, <2>2, <2>3 DEF SubsHoldOrder, FlushLeads
<1>12. /\ WalkIsTyped' /\ walk'.at = walk.at /\ walk'.sought = walk.sought
       /\ walk'.stayed = (walk.stayed /\ walk.sought # e)
  <2>1. walk' = [walk EXCEPT !.stayed = walk.stayed /\ walk.sought # e]
    BY DEF SubsDelete, Gone
  <2>2. WalkIsTyped
    BY DEF SubsIInv
  <2>3. /\ walk' \in [pc : {"rest", "begun", "entered", "in"}, at : Elements \cup {Null},
                      sought : Elements \cup {Null}, stayed : BOOLEAN]
        /\ walk'.at = walk.at /\ walk'.sought = walk.sought /\ walk'.pc = walk.pc
        /\ walk'.stayed = (walk.stayed /\ walk.sought # e)
    BY <2>1, <2>2 DEF WalkIsTyped
  <2>4. walk.pc = "rest" => walk' = Resting
    <3> SUFFICES ASSUME walk.pc = "rest" PROVE walk' = Resting
      OBVIOUS
    <3>1. walk = Resting
      BY <2>2 DEF WalkIsTyped
    <3>2. walk'.stayed = FALSE
      BY <2>3, <3>1 DEF Resting
    <3> QED
      BY <2>1, <3>1, <3>2 DEF Resting
  <2> QED
    BY <2>2, <2>3, <2>4 DEF WalkIsTyped
<1>13. ASSUME NEW j \in DOMAIN order, j # k
       PROVE  \E i \in DOMAIN order' : order'[i] = order[j] /\ i = IF j < k THEN j ELSE j - 1
  <2>1. CASE j < k
    <3>1. j \in 1..(n - 1)
      BY <1>1, <2>1
    <3> QED
      BY <1>3, <2>1, <3>1
  <2>2. CASE ~(j < k)
    <3>1. j - 1 \in 1..(n - 1) /\ ~(j - 1 < k) /\ (j - 1) + 1 = j
      BY <1>1, <1>13, <2>2
    <3> QED
      BY <1>3, <2>2, <3>1
  <2> QED
    BY <2>1, <2>2
<1>14. ASSUME walk'.stayed, NEW h \in DOMAIN order, NotBehind(order[h])
       PROVE  \E j \in DOMAIN order :
                /\ j >= h /\ order[j] = walk.sought /\ j # k
                /\ \E m \in DOMAIN order' : order'[m] = walk.sought /\ m = IF j < k THEN j ELSE j - 1
  <2>1. PICK j \in DOMAIN order : j >= h /\ order[j] = walk.sought
    BY <1>14 DEF NotBehind
  <2>2. j # k
    BY <1>2, <1>12, <1>14, <2>1
  <2> QED
    BY <1>13, <2>1, <2>2
<1>15. ASSUME walk'.stayed, NEW x, NotBehind(x) PROVE NotBehind(x)'
  <2> SUFFICES ASSUME NEW i \in DOMAIN order', order'[i] = x
               PROVE  \E j \in DOMAIN order' : j >= i /\ order'[j] = walk.sought
    BY <1>12 DEF NotBehind
  <2> DEFINE h == IF i < k THEN i ELSE i + 1
  <2>1. h \in DOMAIN order /\ order[h] = x /\ h # k /\ i = IF h < k THEN h ELSE h - 1
    BY <1>1, <1>3
  <2>2. PICK j \in DOMAIN order :
          /\ j >= h /\ order[j] = walk.sought /\ j # k
          /\ \E m \in DOMAIN order' : order'[m] = walk.sought /\ m = IF j < k THEN j ELSE j - 1
    BY <1>14, <1>15, <2>1
  <2>3. PICK m \in DOMAIN order' : order'[m] = walk.sought /\ m = IF j < k THEN j ELSE j - 1
    BY <2>2
  <2>4. m >= i
    <3>1. h \in Nat /\ j \in Nat /\ k \in Nat
      BY <1>1, <2>1
    <3> HIDE DEF h
    <3> QED
      BY <2>1, <2>2, <2>3, <3>1
  <2> QED
    BY <2>3, <2>4
<1>16. WalkIsAhead'
  <2> SUFFICES ASSUME walk'.stayed PROVE WalkIsAhead'
    BY DEF WalkIsAhead
  <2>1. Listed(walk.sought) /\ NotBehind(walk.at) /\ walk.sought # e
    BY <1>12 DEF SubsIInv, WalkIsAhead
  <2>2. Listed(walk.sought)'
    <3>1. PICK j \in DOMAIN order : order[j] = walk.sought
      BY <2>1 DEF Listed
    <3>2. j # k
      BY <1>2, <2>1, <3>1
    <3> QED
      BY <1>12, <1>13, <3>1, <3>2 DEF Listed
  <2>3. NotBehind(walk.at)'
    <3>1. NotBehind(walk'.at)
      BY <1>12, <2>1
    <3> QED
      BY <1>12, <1>15, <2>1 DEF NotBehind
  <2>4. ASSUME walk.at = e PROVE Listed(subs.next[e])' /\ NotBehind(subs.next[e])'
    <3>1. NotBehind(order[k])
      BY <1>2, <2>1, <2>4
    <3>2. PICK j \in DOMAIN order : j >= k /\ order[j] = walk.sought /\ j # k
      BY <1>14, <3>1
    <3>3. k # n /\ k + 1 \in DOMAIN order /\ k + 1 # k /\ j >= k + 1
      BY <1>1, <3>2
    <3>4. subs.next[e] = order[k + 1]
      BY <1>1, <1>2, <3>3
    <3>5. \E i \in DOMAIN order' : order'[i] = order[k + 1]
      BY <1>13, <3>3
    <3>6. NotBehind(order[k + 1])
      <4> SUFFICES ASSUME NEW i \in DOMAIN order, order[i] = order[k + 1]
                   PROVE  \E m \in DOMAIN order : m >= i /\ order[m] = walk.sought
        BY DEF NotBehind
      <4>1. i = k + 1
        BY <1>1, <3>3
      <4> QED
        BY <3>2, <3>3, <4>1
    <3>7. PICK y : y = order[k + 1]
      OBVIOUS
    <3>8. NotBehind(y)
      BY <3>6, <3>7
    <3>9. NotBehind(y)' /\ subs'.next[e] = y /\ \E i \in DOMAIN order' : order'[i] = y
      BY <1>8, <1>15, <3>4, <3>5, <3>7, <3>8
    <3> QED
      BY <3>9 DEF Listed, NotBehind
  <2> QED
    BY <1>4, <1>8, <1>12, <2>2, <2>3, <2>4 DEF WalkIsAhead, Leaving
<1> QED
  BY <1>11, <1>12, <1>16 DEF SubsIInv

\* So do the writes that follow, until it is freed.
LEMMA DeletionGoesOn ==
  ASSUME SubsIInv, DeleteJoins \/ DeleteClears \/ DeleteFrees
  PROVE  SubsIInv'
<1> DEFINE e == change.of
<1>1. order \in Seq(Elements) /\ subs \in Lists /\ ChangeIsTyped /\ ListComes
  BY DEF SubsIInv, SubsHoldOrder
<1>2. /\ order' = order /\ walk' = walk /\ change.step \in {"cut", "joined", "cleared"}
      /\ e \in Elements /\ ~Listed(e)
      /\ change \in [step : Steps, of : Elements \cup {Null}, tmp : Elements \cup {Null}]
  BY <1>1 DEF DeleteJoins, DeleteClears, DeleteFrees, ChangeIsTyped
<1>3. CASE DeleteJoins
  <2>1. /\ change.step = "cut" /\ subs' = CutPrev(subs, e)
        /\ change' = [change EXCEPT !.step = "joined"]
    BY <1>3 DEF DeleteJoins
  <2>2. change'.step = "joined" /\ change'.of = e /\ change'.tmp = change.tmp
    BY <1>2, <2>1
  <2>3. subs' \in Lists /\ subs'.next = subs.next
    BY <1>1, <1>2, <2>1 DEF CutPrev, Lists
  <2>4. ListComes'
    BY <1>1, <1>2, <2>1, <2>2 DEF ListComes
  <2>5. ChangeIsTyped'
    <3>1. change' \in [step : Steps, of : Elements \cup {Null}, tmp : Elements \cup {Null}]
      BY <1>2, <2>1 DEF Steps
    <3> QED
      BY <1>2, <2>2, <3>1 DEF ChangeIsTyped, Listed
  <2>6. SubsHoldOrder'
    BY <1>1, <1>2, <2>2, <2>3, <2>4, <2>5 DEF SubsHoldOrder, FlushLeads
  <2> QED
    BY <1>2, <2>1, <2>2, <2>3, <2>6, WalkStaysAhead DEF SubsIInv, Leaving
<1>4. CASE DeleteClears
  <2>1. /\ change.step = "joined" /\ subs' = Freed(subs, e)
        /\ change' = [change EXCEPT !.step = "cleared"]
    BY <1>4 DEF DeleteClears
  <2>2. change'.step = "cleared" /\ change'.of = e /\ change'.tmp = change.tmp
    BY <1>2, <2>1
  <2>3. subs' \in Lists /\ subs'.next[e] = Null
    BY <1>1, <1>2, <2>1 DEF Freed, Lists
  <2>4. ListComes'
    BY <1>1, <1>2, <2>1, <2>2, <2>3 DEF ListComes
  <2>5. ChangeIsTyped'
    <3>1. change' \in [step : Steps, of : Elements \cup {Null}, tmp : Elements \cup {Null}]
      BY <1>2, <2>1 DEF Steps
    <3> QED
      BY <1>2, <2>2, <3>1 DEF ChangeIsTyped, Listed
  <2>6. SubsHoldOrder'
    BY <1>1, <1>2, <2>2, <2>3, <2>4, <2>5 DEF SubsHoldOrder, FlushLeads
  <2> QED
    BY <1>2, <2>2, <2>6, WalkStaysAhead DEF SubsIInv, Leaving
<1>5. CASE DeleteFrees
  <2>1. change.step = "cleared" /\ subs' = subs /\ change' = Still
    BY <1>5 DEF DeleteFrees
  <2>2. change'.step = "none" /\ change'.of = Null /\ change'.tmp = Null
    BY <2>1 DEF Still
  <2>3. ListComes'
    BY <1>1, <1>2, <2>1, <2>2 DEF ListComes
  <2>4. ChangeIsTyped'
    BY <2>1, <2>2 DEF ChangeIsTyped, Steps, Still
  <2>5. SubsHoldOrder'
    BY <1>1, <1>2, <2>1, <2>2, <2>3, <2>4 DEF SubsHoldOrder, FlushLeads
  <2> QED
    BY <1>2, <2>2, <2>5, WalkStaysAhead DEF SubsIInv, Leaving
<1> QED
  BY <1>3, <1>4, <1>5

\* So does emptying the list, with each element that it frees, ...
LEMMA FlushKeepsSubs ==
  ASSUME SubsIInv, FlushFrees
  PROVE  SubsIInv'
<1> DEFINE n == Len(order)
<1> DEFINE e == subs.p_head
<1>1. /\ order \in Seq(Elements) /\ n \in Nat /\ DOMAIN order = 1..n /\ subs \in Lists
      /\ \A i \in DOMAIN order : order[i] \in Elements
      /\ \A i, j \in DOMAIN order : order[i] = order[j] => i = j
      /\ \A i \in DOMAIN order : subs.next[order[i]] = IF i = n THEN Null ELSE order[i + 1]
      /\ order # <<>> => subs.p_tail # Null
  BY LinksLead, LenProperties, ElementOfSeq DEF SubsIInv, SubsHoldOrder, Leads
<1>2. /\ change.step \in {"none", "flushing"} /\ e # Null /\ e = First(order)
      /\ subs' = Freed(subs, e) /\ order' = Tail(order)
      /\ change' = [step |-> "dropped", of |-> e, tmp |-> subs.next[e]]
  BY LinksLead DEF FlushFrees, SubsIInv
<1>3. change'.step = "dropped" /\ change'.of = e /\ change'.tmp = subs.next[e]
  BY <1>2
<1> HIDE DEF e
<1>4. order # <<>> /\ n >= 1 /\ order[1] = e /\ 1 \in DOMAIN order /\ e \in Elements
  BY <1>1, <1>2, EmptySeq DEF First
<1>5. /\ order' \in Seq(Elements) /\ Len(order') = n - 1 /\ DOMAIN order' = 1..(n - 1)
      /\ \A i \in DOMAIN order' : i + 1 \in DOMAIN order /\ order'[i] = order[i + 1]
  BY <1>1, <1>2, <1>4, HeadTailProperties, LenProperties
<1>6. \A i \in DOMAIN order' : order'[i] # e
  BY <1>1, <1>4, <1>5
<1>7. /\ subs' \in Lists /\ subs'.p_head = e /\ subs'.p_tail = subs.p_tail
      /\ \A x \in Elements : x # e => subs'.next[x] = subs.next[x]
  BY <1>1, <1>2, <1>4 DEF Freed, Lists, e
<1>8. Leads(subs, order)'
  <2>1. ASSUME NEW i \in DOMAIN order', NEW j \in DOMAIN order', order'[i] = order'[j] PROVE i = j
    <3>1. i + 1 = j + 1
      BY <1>1, <1>5, <2>1
    <3> QED
      BY <1>1, <1>5, <3>1
  <2>2. ASSUME NEW i \in DOMAIN order'
        PROVE  subs'.next[order'[i]] = IF i = n - 1 THEN Null ELSE order'[i + 1]
    <3>1. i + 1 \in DOMAIN order /\ order'[i] = order[i + 1] /\ order[i + 1] \in Elements
      BY <1>1, <1>5
    <3>2. subs'.next[order'[i]] = subs.next[order[i + 1]]
      BY <1>6, <1>7, <3>1
    <3>3. subs.next[order[i + 1]] = IF i + 1 = n THEN Null ELSE order[(i + 1) + 1]
      BY <1>1, <3>1
    <3>4. i # n - 1 => i + 1 \in DOMAIN order'
      BY <1>1, <1>5
    <3> QED
      BY <1>1, <1>5, <3>2, <3>3, <3>4
  <2> QED
    BY <1>1, <1>4, <1>5, <1>7, <2>1, <2>2 DEF Leads
<1>9. subs.next[e] = First(order')
  <2>1. subs.next[order[1]] = IF 1 = n THEN Null ELSE order[1 + 1]
    BY <1>1, <1>4
  <2>2. n # 1 => 1 \in DOMAIN order'
    BY <1>1, <1>4, <1>5
  <2>3. order' = <<>> <=> n - 1 = 0
    BY <1>5, EmptySeq
  <2> QED
    BY <1>1, <1>4, <1>5, <2>1, <2>2, <2>3 DEF First
<1>10. SubsHoldOrder'
  <2>1. FlushLeads'
    BY <1>3, <1>7, <1>8, <1>9 DEF FlushLeads
  <2>2. ListComes'
    BY <1>3 DEF ListComes
  <2>3. subs.next[e] \in Elements \cup {Null}
    BY <1>1, <1>4 DEF Lists
  <2>4. ChangeIsTyped'
    BY <1>2, <1>3, <1>4, <1>6, <2>3 DEF ChangeIsTyped, Listed, Steps
  <2> QED
    BY <1>5, <1>7, <2>1, <2>2, <2>4 DEF SubsHoldOrder
<1>11. /\ WalkIsTyped' /\ walk'.at = walk.at /\ walk'.sought = walk.sought
       /\ walk'.stayed = (walk.stayed /\ walk.sought # e)
  <2>1. walk' = [walk EXCEPT !.stayed = walk.stayed /\ walk.sought # e]
    BY DEF FlushFrees, Gone, e
  <2>2. WalkIsTyped
    BY DEF SubsIInv
  <2>3. /\ walk' \in [pc : {"rest", "begun", "entered", "in"}, at : Elements \cup {Null},
                      sought : Elements \cup {Null}, stayed : BOOLEAN]
        /\ walk'.at = walk.at /\ walk'.sought = walk.sought /\ walk'.pc = walk.pc
        /\ walk'.stayed = (walk.stayed /\ walk.sought # e)
    BY <2>1, <2>2 DEF WalkIsTyped
  <2>4. walk.pc = "rest" => walk' = Resting
    <3> SUFFICES ASSUME walk.pc = "rest" PROVE walk' = Resting
      OBVIOUS
    <3>1. walk = Resting
      BY <2>2 DEF WalkIsTyped
    <3>2. walk'.stayed = FALSE
      BY <2>3, <3>1 DEF Resting
    <3> QED
      BY <2>1, <3>1, <3>2 DEF Resting
  <2> QED
    BY <2>2, <2>3, <2>4 DEF WalkIsTyped
<1>12. ASSUME walk.stayed, walk.sought # e, NEW j \in DOMAIN order, order[j] = walk.sought
       PROVE  j - 1 \in DOMAIN order' /\ order'[j - 1] = walk.sought
  <2>1. j # 1
    BY <1>4, <1>12
  <2>2. j - 1 \in DOMAIN order' /\ (j - 1) + 1 = j
    BY <1>1, <1>5, <2>1
  <2> QED
    BY <1>5, <1>12, <2>2
<1>13. WalkIsAhead'
  <2> SUFFICES ASSUME walk.stayed, walk.sought # e
               PROVE  Listed(walk.sought)' /\ NotBehind(walk.at)' /\ ~Leaving(walk.at)'
    BY <1>11 DEF WalkIsAhead
  <2>1. Listed(walk.sought) /\ NotBehind(walk.at)
    BY DEF SubsIInv, WalkIsAhead
  <2>2. Listed(walk.sought)'
    BY <1>11, <1>12, <2>1 DEF Listed
  <2>3. ASSUME NEW i \in DOMAIN order', order'[i] = walk.at
        PROVE  \E j \in DOMAIN order' : j >= i /\ order'[j] = walk.sought
    <3>1. PICK j \in DOMAIN order : j >= i + 1 /\ order[j] = walk.sought
      BY <1>5, <2>1, <2>3 DEF NotBehind
    <3>2. j - 1 >= i
      BY <1>1, <1>5, <3>1
    <3> QED
      BY <1>12, <3>1, <3>2
  <2> QED
    BY <1>3, <1>11, <2>2, <2>3 DEF NotBehind, Leaving
<1> QED
  BY <1>10, <1>11, <1>13 DEF SubsIInv

\* ... and with the writes of the head and, in the end, of the tail.
LEMMA FlushGoesOnSound ==
  ASSUME SubsIInv, FlushGoesOn \/ FlushEnds
  PROVE  SubsIInv'
<1>1. /\ order \in Seq(Elements) /\ subs \in Lists /\ ChangeIsTyped /\ FlushLeads
      /\ order' = order /\ walk' = walk
  BY DEF SubsIInv, SubsHoldOrder, FlushGoesOn, FlushEnds
<1>2. CASE FlushGoesOn
  <2>1. /\ change.step = "dropped" /\ subs' = [subs EXCEPT !.p_head = change.tmp]
        /\ change' = [Still EXCEPT !.step = "flushing"]
    BY <1>2 DEF FlushGoesOn
  <2>2. change' = [step |-> "flushing", of |-> Null, tmp |-> Null]
    BY <2>1 DEF Still
  <2>3. change.tmp \in Elements \cup {Null} /\ change.tmp = First(order) /\ Leads(subs, order)
    BY <1>1, <2>1 DEF ChangeIsTyped, FlushLeads
  <2>4. /\ subs' \in Lists /\ subs'.p_head = First(order)
        /\ subs'.next = subs.next /\ subs'.p_tail = subs.p_tail
    BY <1>1, <2>1, <2>3 DEF Lists
  <2>5. FlushLeads'
    BY <1>1, <2>2, <2>3, <2>4 DEF FlushLeads, Leads, First
  <2>6. ChangeIsTyped' /\ ListComes'
    BY <2>2 DEF ChangeIsTyped, ListComes, Steps
  <2>7. SubsHoldOrder'
    BY <1>1, <2>4, <2>5, <2>6 DEF SubsHoldOrder
  <2> QED
    BY <1>1, <2>2, <2>7, WalkStaysAhead DEF SubsIInv, Leaving
<1>3. CASE FlushEnds
  <2>1. /\ change.step = "flushing" /\ subs.p_head = Null
        /\ subs' = [subs EXCEPT !.p_tail = Null] /\ change' = Still
    BY <1>3 DEF FlushEnds
  <2>2. change'.step = "none" /\ change'.of = Null /\ change'.tmp = Null
    BY <2>1 DEF Still
  <2>3. order = <<>>
    <3>1. First(order) = Null
      BY <1>1, <2>1 DEF FlushLeads
    <3>2. order # <<>> => order[1] \in Elements
      BY <1>1, LenProperties, EmptySeq, ElementOfSeq
    <3> QED
      BY <3>1, <3>2, ListAssumption DEF First
  <2>4. subs' \in Lists /\ subs'.p_head = Null /\ subs'.p_tail = Null
    BY <1>1, <2>1 DEF Lists
  <2>5. IsList(subs', Turned(order))
    <3>1. Turned(order) = <<>>
      BY <1>1, <2>3, TurnedProperties
    <3>2. <<>> \in Seq(Elements) /\ DOMAIN <<>> = {}
      BY EmptySeq
    <3> QED
      BY <2>4, <3>1, <3>2 DEF IsList
  <2>6. ChangeIsTyped' /\ ListComes'
    BY <1>1, <2>1, <2>2, <2>5 DEF ChangeIsTyped, ListComes, Steps, Still
  <2>7. SubsHoldOrder'
    BY <1>1, <2>2, <2>4, <2>6 DEF SubsHoldOrder, FlushLeads
  <2> QED
    BY <1>1, <2>2, <2>7, WalkStaysAhead DEF SubsIInv, Leaving
<1> QED
  BY <1>2, <1>3

\* Where a walk goes from an element that has a way on.
LEMMA WayOn ==
  ASSUME SubsIInv, walk.stayed, walk.pc = "in", There(walk.at), walk.at # walk.sought,
         ~Loose(walk.at)
  PROVE  Listed(subs.next[walk.at]) /\ NotBehind(subs.next[walk.at])
<1>1. /\ order \in Seq(Elements) /\ Listed(walk.sought) /\ NotBehind(walk.at)
      /\ DOMAIN order = 1..Len(order) /\ Len(order) \in Nat
  BY LenProperties DEF SubsIInv, SubsHoldOrder, WalkIsAhead
<1>2. Leads(subs, order)
  BY LinksLead DEF SubsIInv
<1>3. CASE Listed(walk.at)
  <2>1. PICK i \in DOMAIN order : order[i] = walk.at
    BY <1>3 DEF Listed
  <2>2. PICK j \in DOMAIN order : j >= i /\ order[j] = walk.sought
    BY <1>1, <2>1 DEF NotBehind
  <2>3. i # Len(order) /\ i + 1 \in DOMAIN order /\ j >= i + 1
    BY <1>1, <2>1, <2>2
  <2>4. subs.next[walk.at] = order[i + 1]
    BY <1>2, <2>1, <2>3 DEF Leads
  <2>5. ASSUME NEW h \in DOMAIN order, order[h] = order[i + 1]
        PROVE  \E m \in DOMAIN order : m >= h /\ order[m] = walk.sought
    <3>1. h = i + 1
      BY <1>2, <2>3, <2>5 DEF Leads
    <3> QED
      BY <2>2, <2>3, <3>1
  <2> QED
    BY <2>3, <2>4, <2>5 DEF Listed, NotBehind
<1>4. CASE ~Listed(walk.at)
  <2>1. change.of = walk.at /\ change.step \in {"linked", "cut", "joined"}
    BY <1>4 DEF There, Loose
  <2>2. CASE change.step = "linked"
    <3>1. subs.next[walk.at] = First(order)
      BY <2>1, <2>2, LinksLead DEF SubsIInv
    <3>2. PICK j \in DOMAIN order : order[j] = walk.sought
      BY <1>1 DEF Listed
    <3>3. 1 \in DOMAIN order /\ First(order) = order[1]
      BY <1>1, <3>2, EmptySeq DEF First
    <3>4. ASSUME NEW h \in DOMAIN order, order[h] = order[1]
          PROVE  \E m \in DOMAIN order : m >= h /\ order[m] = walk.sought
      <4>1. h = 1
        BY <1>2, <3>3, <3>4 DEF Leads
      <4> QED
        BY <1>1, <3>2, <4>1
    <3> QED
      BY <3>1, <3>3, <3>4 DEF Listed, NotBehind
  <2>3. CASE change.step # "linked"
    BY <2>1, <2>3 DEF SubsIInv, WalkIsAhead, Leaving
  <2> QED
    BY <2>2, <2>3
<1> QED
  BY <1>3, <1>4

\* A walk changes nothing of the list.
LEMMA WalkKeepsSubs ==
  ASSUME SubsIInv, TimerSteps
  PROVE  SubsIInv'
<1> DEFINE W == [pc : {"rest", "begun", "entered", "in"}, at : Elements \cup {Null},
                 sought : Elements \cup {Null}, stayed : BOOLEAN]
<1>1. /\ order' = order /\ subs' = subs /\ change' = change
      /\ WalkIsTyped /\ WalkIsAhead /\ walk \in W
      /\ order \in Seq(Elements) /\ subs \in Lists
  BY DEF TimerSteps, WalkBegins, WalkTests, WalkEnters, WalkSteps, SubsIInv, SubsHoldOrder, WalkIsTyped
<1>2. SubsHoldOrder'
  BY <1>1 DEF SubsIInv, SubsHoldOrder, ChangeIsTyped, ListComes, FlushLeads, Listed
<1>3. Resting \in W /\ Resting.pc = "rest" /\ Resting.at = Null /\ Resting.stayed = FALSE
  BY DEF Resting
<1>4. \A i \in DOMAIN order : order[i] # Null
  BY <1>1, ElementOfSeq, ListAssumption
<1>5. ASSUME walk' = Resting PROVE WalkIsTyped' /\ WalkIsAhead'
  BY <1>3, <1>5 DEF WalkIsTyped, WalkIsAhead
<1>6. ASSUME walk'.at = Null, walk'.stayed => Listed(walk'.sought) PROVE WalkIsAhead'
  <2>1. NotBehind(walk.at)'
    BY <1>1, <1>4, <1>6 DEF NotBehind
  <2>2. ~Leaving(walk.at)'
    BY <1>1, <1>6, ListAssumption DEF Leaving, SubsIInv, SubsHoldOrder, ChangeIsTyped
  <2>3. walk'.stayed => Listed(walk.sought)'
    BY <1>1, <1>6 DEF Listed
  <2> QED
    BY <2>1, <2>2, <2>3 DEF WalkIsAhead
<1>7. ASSUME NEW e \in Elements, WalkBegins(e) PROVE WalkIsTyped' /\ WalkIsAhead'
  <2>1. walk' = [pc |-> "begun", at |-> Null, sought |-> e, stayed |-> Listed(e)]
    BY <1>7 DEF WalkBegins
  <2>2. Listed(e) \in BOOLEAN
    BY DEF Listed
  <2>3. walk' \in W
    <3> HIDE DEF Listed
    <3> QED
      BY <2>1, <2>2
  <2>4. walk'.pc = "begun" /\ walk'.at = Null /\ walk'.sought = e /\ (walk'.stayed => Listed(e))
    BY <2>1
  <2>5. WalkIsTyped'
    BY <2>3, <2>4 DEF WalkIsTyped
  <2> QED
    BY <1>6, <2>4, <2>5
<1>8. ASSUME WalkTests PROVE WalkIsTyped' /\ WalkIsAhead'
  <2>1. CASE walk' = Resting
    BY <1>5, <2>1
  <2>2. CASE walk' # Resting
    <3>1. walk.pc = "begun" /\ walk' = [walk EXCEPT !.pc = "entered"]
      BY <1>8, <2>2 DEF WalkTests
    <3>2. /\ walk' \in W /\ walk'.pc = "entered" /\ walk'.at = walk.at
          /\ walk'.sought = walk.sought /\ walk'.stayed = walk.stayed /\ walk.at = Null
      BY <1>1, <3>1 DEF WalkIsTyped
    <3>3. WalkIsTyped'
      BY <3>2 DEF WalkIsTyped
    <3> QED
      BY <1>1, <1>6, <3>2, <3>3 DEF WalkIsAhead
  <2> QED
    BY <2>1, <2>2
<1>9. ASSUME walk' # Resting, NEW x \in Elements, walk' = [walk EXCEPT !.pc = "in", !.at = x],
             walk.stayed => Listed(walk.sought) /\ NotBehind(x),
             walk.stayed => (Leaving(x) => Listed(subs.next[x]) /\ NotBehind(subs.next[x]))
      PROVE  WalkIsTyped' /\ WalkIsAhead'
  <2>1. /\ walk' \in W /\ walk'.pc = "in" /\ walk'.at = x
        /\ walk'.sought = walk.sought /\ walk'.stayed = walk.stayed
    BY <1>1, <1>9
  <2>2. WalkIsTyped'
    BY <2>1, ListAssumption DEF WalkIsTyped
  <2>3. WalkIsAhead'
    BY <1>1, <1>9, <2>1 DEF WalkIsAhead, Listed, NotBehind, Leaving
  <2> QED
    BY <2>2, <2>3
<1>10. \A x : Listed(x) => ~Leaving(x) /\ x \in Elements
  BY <1>1, ElementOfSeq DEF Listed, Leaving, SubsIInv, SubsHoldOrder, ChangeIsTyped
<1>11. ASSUME WalkEnters PROVE WalkIsTyped' /\ WalkIsAhead'
  <2>1. CASE walk' = Resting
    BY <1>5, <2>1
  <2>2. CASE walk' # Resting
    <3> DEFINE x == subs.p_head
    <3>1. x # Null /\ walk' = [walk EXCEPT !.pc = "in", !.at = x] /\ x \in Elements
      BY <1>1, <1>11, <2>2 DEF WalkEnters, Lists
    <3>2. ~Leaving(x)
      <4>1. CASE change.step \in {"cut", "joined"}
        <5>1. x = First(order)
          BY <4>1, LinksLead DEF SubsIInv
        <5>2. order # <<>>
          BY <3>1, <5>1 DEF First
        <5>3. Listed(x)
          BY <1>1, <5>1, <5>2, LenProperties, EmptySeq DEF First, Listed
        <5> QED
          BY <1>10, <5>3
      <4> QED
        BY <4>1 DEF Leaving
    <3>3. ASSUME walk.stayed PROVE Listed(walk.sought) /\ NotBehind(x)
      <4>1. PICK j \in DOMAIN order : order[j] = walk.sought
        BY <1>1, <3>3 DEF WalkIsAhead, Listed
      <4>2. DOMAIN order = 1..Len(order) /\ Len(order) \in Nat /\ 1 \in DOMAIN order /\ order # <<>>
        BY <1>1, <4>1, LenProperties, EmptySeq
      <4>3. x = order[1] \/ ~Listed(x)
        BY <4>2, LinksLead DEF SubsIInv, SubsHoldOrder, ChangeIsTyped, First
      <4>4. ASSUME NEW i \in DOMAIN order, order[i] = x PROVE i = 1
        BY <4>2, <4>3, <4>4, LinksLead DEF SubsIInv, Leads, Listed
      <4>5. NotBehind(x)
        BY <4>1, <4>2, <4>4 DEF NotBehind
      <4> QED
        BY <1>1, <3>3, <4>5 DEF WalkIsAhead
    <3> HIDE DEF x
    <3> QED
      BY <1>9, <2>2, <3>1, <3>2, <3>3
  <2> QED
    BY <2>1, <2>2
<1>12. ASSUME WalkSteps PROVE WalkIsTyped' /\ WalkIsAhead'
  <2>1. CASE walk' = Resting
    BY <1>5, <2>1
  <2>2. CASE walk' # Resting
    <3> DEFINE x == subs.next[walk.at]
    <3>1. /\ walk.pc = "in" /\ There(walk.at) /\ walk.at # walk.sought /\ x # Null
          /\ walk' = [walk EXCEPT !.at = x]
      BY <1>12, <2>2 DEF WalkSteps
    <3>2. x \in Elements /\ walk' = [walk EXCEPT !.pc = "in", !.at = x]
      BY <1>1, <3>1 DEF WalkIsTyped, Lists
    <3>3. ~Loose(walk.at)
      BY <3>1 DEF Loose, SubsIInv, SubsHoldOrder, ListComes
    <3>4. walk.stayed => Listed(x) /\ NotBehind(x)
      BY <3>1, <3>3, WayOn
    <3> HIDE DEF x
    <3> QED
      BY <1>1, <1>9, <1>10, <2>2, <3>2, <3>4 DEF WalkIsAhead
  <2> QED
    BY <2>1, <2>2
<1> QED
  BY <1>2, <1>7, <1>8, <1>11, <1>12 DEF TimerSteps, SubsIInv

\* The empty list is sound.
LEMMA InitSubs == SubsInit => SubsIInv
<1> SUFFICES ASSUME SubsInit PROVE SubsIInv
  OBVIOUS
<1>1. order = <<>> /\ subs = EmptyList /\ walk = Resting /\ change = Still /\ order \in Seq(Elements)
  BY EmptySeq DEF SubsInit
<1>2. Turned(order) = <<>>
  BY <1>1, TurnedProperties
<1>3. IsList(subs, Turned(order)) /\ subs \in Lists
  BY <1>1, <1>2, EmptyIsList DEF IsList
<1>4. ListComes /\ FlushLeads /\ ChangeIsTyped
  BY <1>1, <1>3 DEF ListComes, FlushLeads, ChangeIsTyped, Still, Steps
<1>5. WalkIsTyped /\ WalkIsAhead
  BY <1>1 DEF WalkIsTyped, WalkIsAhead, Resting
<1> QED
  BY <1>1, <1>3, <1>4, <1>5 DEF SubsIInv, SubsHoldOrder

\* Every write and every read of the list keeps it sound.
LEMMA NextKeepsSubs == SubsIInv /\ [SubsNext]_subsVars => SubsIInv'
<1> SUFFICES ASSUME SubsIInv, [SubsNext]_subsVars PROVE SubsIInv'
  OBVIOUS
<1>1. CASE UNCHANGED subsVars
  <2>1. subs' = subs /\ order' = order /\ change' = change /\ walk' = walk
    BY <1>1 DEF subsVars
  <2>2. SubsHoldOrder'
    BY <2>1 DEF SubsIInv, SubsHoldOrder, ChangeIsTyped, ListComes, FlushLeads, Listed
  <2> QED
    BY <2>1, <2>2, WalkStaysAhead DEF SubsIInv, Leaving
<1>2. CASE SubsNext
  BY <1>2, AddKeepsSubs, DeleteKeepsSubs, DeletionGoesOn, FlushKeepsSubs, FlushGoesOnSound,
     WalkKeepsSubs DEF SubsNext, LocEngSteps
<1> QED
  BY <1>1, <1>2

\* The pointers of linked_list.c always spell out, or are about to, the order in
\* which the subscribers came, whatever calls there were, for any finite set of them.
THEOREM SubsAlwaysSound == SubsInit /\ [][SubsNext]_subsVars => []SubsIInv
  BY InitSubs, NextKeepsSubs, PTL

\* Whatever is added, deleted and flushed in whatever order: between the calls
\* the links of the list meet the subscribers in the order in which they came,
\* both ways.
THEOREM OrderFollowed == SubsInit /\ [][SubsNext]_subsVars => []SubsFollowOrder
<1>1. SubsIInv => SubsFollowOrder
  <2> SUFFICES ASSUME SubsIInv, change = Still
               PROVE  /\ Forward(subs) = order
                      /\ Len(Backward(subs)) = Len(order)
                      /\ \A i \in DOMAIN order : Backward(subs)[i] = order[Len(order) + 1 - i]
    BY DEF SubsFollowOrder
  <2>1. order \in Seq(Elements) /\ IsList(subs, Turned(order)) /\ DOMAIN order = 1..Len(order)
    BY LenProperties DEF SubsIInv, SubsHoldOrder, ListComes, Still
  <2>2. Backward(subs) = Turned(order) /\ Forward(subs) = order
    BY <2>1, WaysOfList, TurnedTwice
  <2> QED
    BY <2>1, <2>2, TurnedProperties
<1> QED
  BY <1>1, SubsAlwaysSound, PTL

\* The walk of the timer thread, with the writes of the LocEng thread between its
\* reads, finds a subscriber that stays, unless an element is freed under it or
\* it is on one that has no way on just now.
THEOREM StayingIsFound == SubsInit /\ [][SubsNext]_subsVars => WalkFinds
<1>1. SubsIInv /\ [SubsNext]_subsVars =>
        [walk # Resting /\ walk' = Resting /\ ~torn' /\ walk.stayed
           => walk.at = walk.sought \/ Loose(walk.at)]_subsVars
  <2> SUFFICES ASSUME SubsIInv, SubsNext, walk # Resting, walk' = Resting, ~torn', walk.stayed
               PROVE  walk.at = walk.sought \/ Loose(walk.at)
    BY DEF subsVars
  <2>1. /\ walk.pc # "rest" /\ walk'.pc = "rest" /\ subs \in Lists /\ order \in Seq(Elements)
        /\ walk \in [pc : {"rest", "begun", "entered", "in"}, at : Elements \cup {Null},
                     sought : Elements \cup {Null}, stayed : BOOLEAN]
    BY DEF SubsIInv, SubsHoldOrder, WalkIsTyped, Resting
  <2>2. order # <<>> /\ order[1] \in Elements
    BY <2>1, LenProperties, EmptySeq, ElementOfSeq DEF SubsIInv, WalkIsAhead, Listed
  <2>3. CASE WalkTests
    <3>1. subs.p_tail = Null
      BY <2>1, <2>3 DEF WalkTests
    <3> QED
      BY <2>2, <3>1, LinksLead DEF SubsIInv, Leads
  <2>4. CASE WalkEnters
    <3>1. subs.p_head = Null
      BY <2>1, <2>4 DEF WalkEnters
    <3> QED
      BY <2>2, <3>1, LinksLead, ListAssumption DEF SubsIInv, SubsHoldOrder, ChangeIsTyped, First
  <2>5. CASE WalkSteps
    <3> SUFFICES ASSUME walk.at # walk.sought, ~Loose(walk.at) PROVE FALSE
      OBVIOUS
    <3>1. /\ walk.pc = "in" /\ There(walk.at)
          /\ subs.next[walk.at] = Null \/ walk' = [walk EXCEPT !.at = subs.next[walk.at]]
      BY <2>5 DEF WalkSteps
    <3>2. Listed(subs.next[walk.at])
      BY <3>1, WayOn
    <3>3. subs.next[walk.at] # Null
      BY <2>1, <3>2, ElementOfSeq, ListAssumption DEF Listed
    <3>4. walk'.pc = "in"
      BY <2>1, <3>1, <3>3
    <3> QED
      BY <2>1, <3>4
  <2>6. ASSUME NEW e \in Elements, WalkBegins(e) PROVE FALSE
    BY <2>1, <2>6 DEF WalkBegins
  <2>7. ASSUME walk'.pc = walk.pc PROVE FALSE
    BY <2>1, <2>7
  <2>8. CASE LocEngSteps
    <3>1. walk'.pc = walk.pc
      BY <2>1, <2>8 DEF LocEngSteps, SubsAdd, AddLinks, AddEnds, SubsDelete, DeleteJoins,
         DeleteClears, DeleteFrees, FlushFrees, FlushGoesOn, FlushEnds, Gone
    <3> QED
      BY <2>7, <3>1
  <2> QED
    BY <2>3, <2>4, <2>5, <2>6, <2>8 DEF SubsNext, TimerSteps
<1> QED
  BY <1>1, SubsAlwaysSound, PTL DEF WalkFinds

-----------------------------------------------------------------------------
(***************************************************************************)
(* A message task, for any finite set of messages: its queue, its sleeper  *)
(* and the delegate it shares with its owner are sound, and it does what   *)
(* Mailbox promises.                                                       *)
(***************************************************************************)

\* The messages that wait, the oldest first.
Queue == Backward(list)

\* The queue is a list of messages that were sent.
QueueIsSound ==
  /\ IsList(list, Queue)
  /\ \A i \in DOMAIN Queue : Queue[i] \in sent

\* Where the two threads are goes with what the queue and the delegate say.  The
\* delegate counts those that still have to release it.
Uses == (IF worker = "done" THEN 0 ELSE 1) + (IF owner = "done" THEN 0 ELSE 1)

LivesGoTogether ==
  /\ unblocked <=> owner \notin {"creating", "using"}
  /\ owner = "creating" => worker = "none" /\ mRunnable /\ mRefCount = 2 /\ delegate
  /\ worker = "none" => owner \in {"creating", "using", "unblocked", "done"}
  /\ worker # "none" => mRefCount = Uses /\ delegate = (mRefCount > 0)
  /\ worker # "none" /\ ~mRunnable => unblocked
  /\ worker = "leaving" => unblocked

TaskIInv == TaskTypeOK /\ QueueIsSound /\ LivesGoTogether /\ NobodyOversleeps

\* An empty queue has no head and no tail; one that is not has both.
LEMMA QueueEnds ==
  ASSUME QueueIsSound
  PROVE  /\ Queue \in Seq(Messages)
         /\ list.p_head = Null <=> Queue = <<>>
         /\ list.p_tail = Null <=> Queue = <<>>
         /\ Queue # <<>> => list.p_tail = Head(Queue) /\ list.p_tail \in Messages
<1> DEFINE q == Queue
<1>1. q \in Seq(Elements) /\ IsList(list, q) /\ Messages = Elements
  BY MsgTaskAssumption DEF QueueIsSound, IsList
<1>2. q # <<>> => q[1] \in Elements /\ q[Len(q)] \in Elements /\ Head(q) = q[1]
  <2> SUFFICES ASSUME q # <<>> PROVE q[1] \in Elements /\ q[Len(q)] \in Elements /\ Head(q) = q[1]
    OBVIOUS
  <2>1. Len(q) \in Nat \ {0}
    BY <1>1, EmptySeq
  <2>2. 1 \in 1..Len(q) /\ Len(q) \in 1..Len(q)
    BY <2>1
  <2>3. Head(q) = q[1]
    BY <1>1, HeadTailProperties
  <2> QED
    BY <1>1, <2>2, <2>3, ElementOfSeq
<1> HIDE DEF q
<1>3. /\ list.p_head = Null <=> q = <<>>
      /\ list.p_tail = Null <=> q = <<>>
      /\ q # <<>> => list.p_tail = Head(q) /\ list.p_tail \in Elements
  BY <1>1, <1>2, ListAssumption DEF IsList
<1> QED
  BY <1>1, <1>3 DEF q

\* What the changes of the list make of the queue: a message more at its end,
\* ...
LEMMA AddToQueue ==
  ASSUME QueueIsSound, NEW m \in Messages, m \notin sent, list' = Add(list, m)
  PROVE  Queue' = Append(Queue, m) /\ IsList(list', Queue')
<1>1. \A i \in DOMAIN Queue : Queue[i] # m
  BY DEF QueueIsSound
<1>2. IsList(list', Append(Queue, m))
  BY <1>1, AddAppends, MsgTaskAssumption DEF QueueIsSound
<1>3. Queue' = Append(Queue, m)
  BY <1>2, WaysOfList DEF Queue
<1> QED
  BY <1>2, <1>3

\* ... the oldest taken away, ...
LEMMA TakeFromQueue ==
  ASSUME QueueIsSound, Queue # <<>>, list' = RemoveTail(list)
  PROVE  Queue' = Tail(Queue) /\ IsList(list', Queue')
<1>1. IsList(list', Tail(Queue))
  BY RemoveTakes DEF QueueIsSound
<1>2. Queue' = Tail(Queue)
  BY <1>1, WaysOfList DEF Queue
<1> QED
  BY <1>1, <1>2

\* ... or nothing left.
LEMMA EmptyQueue ==
  ASSUME NEW l, l = EmptyList
  PROVE  Backward(l) = <<>> /\ IsList(l, Backward(l))
<1>1. IsList(EmptyList, <<>>) /\ Backward(EmptyList) = <<>>
  BY EmptyIsList, WaysOfList
<1> QED
  BY <1>1

\* A step that leaves the list as it is, or empties it, keeps the queue sound.
LEMMA OldQueueIsSound ==
  ASSUME QueueIsSound, sent \subseteq sent', list' = list \/ list' = EmptyList
  PROVE  QueueIsSound' /\ (list' = list => Queue' = Queue) /\ (list' = EmptyList => Queue' = <<>>)
<1>1. CASE list' = list
  <2>1. Queue' = Queue
    BY <1>1 DEF Queue
  <2>2. \A i \in DOMAIN Queue' : Queue'[i] \in sent'
    BY <2>1 DEF QueueIsSound
  <2>3. IsList(list', Queue')
    BY <1>1, <2>1 DEF QueueIsSound
  <2>4. list' = EmptyList => Queue' = <<>>
    BY EmptyQueue DEF Queue
  <2> QED
    BY <2>1, <2>2, <2>3, <2>4 DEF QueueIsSound
<1>2. CASE list' = EmptyList
  <2>1. Queue' = <<>> /\ IsList(list', Queue')
    BY <1>2, EmptyQueue DEF Queue
  <2>2. DOMAIN <<>> = {}
    OBVIOUS
  <2>3. list' = list => Queue' = Queue
    BY DEF Queue
  <2> QED
    BY <2>1, <2>2, <2>3 DEF QueueIsSound
<1> QED
  BY <1>1, <1>2

-----------------------------------------------------------------------------
(* The inductive invariant of the message task. *)

\* A new queue is sound.
LEMMA InitTask == TaskInit => TaskIInv
<1> SUFFICES ASSUME TaskInit PROVE TaskIInv
  OBVIOUS
<1>1. Queue = <<>> /\ IsList(list, Queue) /\ list \in Lists
  BY EmptyQueue DEF TaskInit, Queue, IsList
<1>2. DOMAIN <<>> = {}
  OBVIOUS
<1>3. QueueIsSound
  BY <1>1, <1>2 DEF QueueIsSound
<1>4. TaskTypeOK
  <2>1. inHand = Null /\ worker = "none" /\ sent = {} /\ lost = {} /\ mRefCount = 2
    BY DEF TaskInit
  <2>2. mRefCount \in 0..2 /\ lost \subseteq sent /\ sent \subseteq Messages
    BY <2>1
  <2>3. (inHand # Null) = (worker = "handling")
    BY <2>1
  <2> QED
    BY <1>1, <2>2, <2>3 DEF TaskInit, TaskTypeOK
<1> QED
  BY <1>3, <1>4 DEF TaskIInv, TaskInit, LivesGoTogether, NobodyOversleeps

\* msg_q_snd() keeps it so, whether it takes the message or refuses it.
LEMMA SndKeeps ==
  ASSUME TaskIInv, NEW m \in Messages, Snd(m)
  PROVE  TaskIInv'
<1>1. QueueIsSound'
  <2>1. CASE list' = list
    BY <2>1, OldQueueIsSound DEF TaskIInv, Snd
  <2>2. CASE list' = Add(list, m)
    <3>1. Queue' = Append(Queue, m) /\ IsList(list', Queue') /\ Queue \in Seq(Messages)
      BY <2>2, AddToQueue, QueueEnds DEF TaskIInv, Snd
    <3>2. /\ Len(Queue) \in Nat /\ DOMAIN Queue = 1..Len(Queue)
          /\ DOMAIN Append(Queue, m) = 1..(Len(Queue) + 1)
          /\ \A i \in 1..Len(Queue) : Append(Queue, m)[i] = Queue[i]
          /\ Append(Queue, m)[Len(Queue) + 1] = m
      BY <3>1, AppendProperties, LenProperties
    <3>3. ASSUME NEW i \in DOMAIN Append(Queue, m) PROVE Append(Queue, m)[i] \in sent'
      <4>1. i \in 1..Len(Queue) \/ i = Len(Queue) + 1
        BY <3>2
      <4> QED
        BY <3>2, <4>1 DEF TaskIInv, QueueIsSound, Snd
    <3> QED
      BY <3>1, <3>3 DEF QueueIsSound
  <2> QED
    BY <2>1, <2>2 DEF Snd
<1>2. list' \in Lists
  BY <1>1 DEF QueueIsSound, IsList
<1>3. TaskTypeOK'
  BY <1>2 DEF TaskIInv, TaskTypeOK, Snd, WakesUp, shared
<1>4. LivesGoTogether'
  BY DEF TaskIInv, LivesGoTogether, Uses, Snd, WakesUp, shared
<1>5. NobodyOversleeps'
  BY DEF TaskIInv, NobodyOversleeps, Waits, Snd, WakesUp
<1> QED
  BY <1>1, <1>3, <1>4, <1>5 DEF TaskIInv

\* So does msg_q_unblock().
LEMMA UnblockKeeps == TaskIInv /\ Unblock => TaskIInv'
<1> SUFFICES ASSUME TaskIInv, Unblock PROVE TaskIInv'
  OBVIOUS
<1>1. QueueIsSound'
  BY OldQueueIsSound DEF TaskIInv, Unblock
<1>2. TaskTypeOK'
  BY DEF TaskIInv, TaskTypeOK, Unblock, WakesUp, shared
<1>3. LivesGoTogether'
  BY DEF TaskIInv, LivesGoTogether, Uses, Unblock, WakesUp, shared
<1>4. NobodyOversleeps'
  BY DEF TaskIInv, NobodyOversleeps, Unblock, WakesUp
<1> QED
  BY <1>1, <1>2, <1>3, <1>4 DEF TaskIInv

\* The end of msg_q_rcv() fails only if the queue was unblocked.
LEMMA RemovesKeeps ==
  ASSUME TaskIInv, Removes, ~Waits, worker \in {"receiving", "woken"},
         UNCHANGED <<unblocked, owner, sent, lost, task, shared>>
  PROVE  TaskIInv'
<1>1. CASE list.p_tail = Null
  <2>1. worker' = "leaving" /\ list' = list /\ inHand' = inHand /\ list.p_head = Null
    BY <1>1, QueueEnds DEF Removes, TaskIInv
  <2>2. QueueIsSound'
    BY <2>1, OldQueueIsSound DEF TaskIInv
  <2>3. TaskTypeOK' /\ NobodyOversleeps'
    BY <2>1 DEF TaskIInv, TaskTypeOK, NobodyOversleeps, shared
  <2>4. LivesGoTogether'
    BY <2>1 DEF TaskIInv, LivesGoTogether, Uses, Waits, shared
  <2> QED
    BY <2>2, <2>3, <2>4 DEF TaskIInv
<1>2. CASE list.p_tail # Null
  <2>1. worker' = "handling" /\ inHand' = list.p_tail /\ list' = RemoveTail(list)
    BY <1>2 DEF Removes
  <2>2. /\ Queue \in Seq(Messages) /\ Queue # <<>> /\ list.p_tail \in Messages
        /\ Queue' = Tail(Queue) /\ IsList(list', Queue')
    BY <1>2, <2>1, QueueEnds, TakeFromQueue DEF TaskIInv
  <2>3. ASSUME NEW i \in DOMAIN Tail(Queue) PROVE Tail(Queue)[i] \in sent
    <3>1. /\ Len(Queue) \in Nat /\ DOMAIN Queue = 1..Len(Queue)
          /\ DOMAIN Tail(Queue) = 1..(Len(Queue) - 1)
          /\ \A k \in 1..(Len(Queue) - 1) : Tail(Queue)[k] = Queue[k + 1]
      BY <2>2, HeadTailProperties, LenProperties
    <3>2. i + 1 \in DOMAIN Queue /\ Tail(Queue)[i] = Queue[i + 1]
      BY <3>1
    <3> QED
      BY <3>2 DEF TaskIInv, QueueIsSound
  <2>4. QueueIsSound'
    BY <2>2, <2>3 DEF QueueIsSound
  <2>5. list' \in Lists /\ Null \notin Messages
    BY <2>2, ListAssumption, MsgTaskAssumption DEF IsList
  <2>6. TaskTypeOK' /\ NobodyOversleeps'
    BY <2>1, <2>2, <2>5 DEF TaskIInv, TaskTypeOK, NobodyOversleeps, shared
  <2>7. LivesGoTogether'
    BY <2>1 DEF TaskIInv, LivesGoTogether, Uses, shared
  <2> QED
    BY <2>4, <2>6, <2>7 DEF TaskIInv
<1> QED
  BY <1>1, <1>2

\* So does msg_q_rcv(), whether it takes, waits or is told to stop.
LEMMA RcvKeeps == TaskIInv /\ (Rcv \/ Woken) => TaskIInv'
<1> SUFFICES ASSUME TaskIInv, Rcv \/ Woken PROVE TaskIInv'
  OBVIOUS
<1>1. CASE Removes /\ ~Waits
  BY <1>1, RemovesKeeps DEF Rcv, Woken
<1>2. CASE ~(Removes /\ ~Waits)
  <2>1. /\ UNCHANGED <<list, inHand, unblocked, owner, sent, lost, task, shared>>
        /\ worker \in {"receiving", "woken"}
        /\ (worker' = "leaving" /\ unblocked) \/ (worker' = "waiting" /\ Waits)
    BY <1>2 DEF Rcv, Woken
  <2>2. QueueIsSound'
    BY <2>1, OldQueueIsSound DEF TaskIInv
  <2>3. TaskTypeOK'
    BY <2>1 DEF TaskIInv, TaskTypeOK, shared
  <2>4. NobodyOversleeps'
    BY <2>1 DEF NobodyOversleeps, Waits
  <2>5. LivesGoTogether'
    BY <2>1 DEF TaskIInv, LivesGoTogether, Uses, shared
  <2> QED
    BY <2>2, <2>3, <2>4, <2>5 DEF TaskIInv
<1> QED
  BY <1>1, <1>2

\* The other steps of the thread.
LEMMA WorkerKeeps ==
  TaskIInv /\ (Begin \/ TestRunning \/ WakeSpuriously \/ Handle \/ DeleteRunnable \/ WorkerReleases)
    => TaskIInv'
<1> SUFFICES ASSUME TaskIInv,
                    Begin \/ TestRunning \/ WakeSpuriously \/ Handle \/ DeleteRunnable \/ WorkerReleases
             PROVE  TaskIInv'
  OBVIOUS
<1>1. sent' = sent /\ (list' = list \/ list' = EmptyList)
  BY DEF Begin, TestRunning, WakeSpuriously, Handle, DeleteRunnable, WorkerReleases, msgQueue
<1>2. QueueIsSound'
  BY <1>1, OldQueueIsSound DEF TaskIInv
<1>3. list' \in Lists
  BY <1>2 DEF QueueIsSound, IsList
<1>4. NobodyOversleeps'
  BY DEF TaskIInv, NobodyOversleeps, Begin, TestRunning, WakeSpuriously, Handle, DeleteRunnable,
         WorkerReleases
<1>5. CASE Begin \/ TestRunning \/ WakeSpuriously \/ Handle
  <2>1. TaskTypeOK'
    BY <1>3, <1>5 DEF TaskIInv, TaskTypeOK, Begin, TestRunning, WakeSpuriously, Handle, msgQueue, shared
  <2>2. LivesGoTogether'
    BY <1>5 DEF TaskIInv, LivesGoTogether, Uses, Begin, TestRunning, WakeSpuriously, Handle, msgQueue, shared
  <2> QED
    BY <1>2, <1>4, <2>1, <2>2 DEF TaskIInv
<1>6. CASE DeleteRunnable
  <2>1. TaskTypeOK'
    BY <1>3, <1>6 DEF TaskIInv, TaskTypeOK, DeleteRunnable
  <2>2. LivesGoTogether'
    BY <1>6 DEF TaskIInv, LivesGoTogether, Uses, DeleteRunnable
  <2> QED
    BY <1>2, <1>4, <2>1, <2>2 DEF TaskIInv
<1>7. CASE WorkerReleases
  <2>1. mRefCount = 1 + (IF owner = "done" THEN 0 ELSE 1)
    BY <1>7 DEF TaskIInv, LivesGoTogether, Uses, WorkerReleases
  <2>2. TaskTypeOK'
    BY <1>3, <1>7, <2>1 DEF TaskIInv, TaskTypeOK, WorkerReleases, Release, msgQueue
  <2>3. LivesGoTogether'
    BY <1>7, <2>1 DEF TaskIInv, LivesGoTogether, Uses, WorkerReleases, Release, msgQueue
  <2> QED
    BY <1>2, <1>4, <2>2, <2>3 DEF TaskIInv
<1> QED
  BY <1>5, <1>6, <1>7

\* The other steps of the owner.
LEMMA OwnerKeeps == TaskIInv /\ (Create \/ Part \/ Bye \/ Join \/ OwnerReleases) => TaskIInv'
<1> SUFFICES ASSUME TaskIInv, Create \/ Part \/ Bye \/ Join \/ OwnerReleases PROVE TaskIInv'
  OBVIOUS
<1>1. sent' = sent /\ (list' = list \/ list' = EmptyList)
  BY DEF Create, Part, Bye, Join, OwnerReleases, msgQueue
<1>2. QueueIsSound'
  BY <1>1, OldQueueIsSound DEF TaskIInv
<1>3. list' \in Lists
  BY <1>2 DEF QueueIsSound, IsList
<1>4. NobodyOversleeps'
  <2>1. worker' = "waiting" => worker = "waiting" /\ worker # "none" /\ list' = list /\ unblocked' = unblocked
    BY DEF Create, Part, Bye, Join, OwnerReleases, msgQueue
  <2> QED
    BY <2>1 DEF TaskIInv, NobodyOversleeps, Waits
<1>5. CASE Create
  <2>1. /\ owner' = "using" /\ UNCHANGED <<list, unblocked, inHand, sent, lost, task>>
        /\ ~unblocked /\ worker = "none" /\ mRunnable /\ mRefCount = 2 /\ delegate
    BY <1>5 DEF TaskIInv, LivesGoTogether, Create, msgQueue
  <2>2. \/ worker' = "starting" /\ UNCHANGED <<mRunnable, mJoinable, mRefCount, delegate>>
        \/ /\ worker' = "none" /\ mRunnable' = FALSE /\ mJoinable' = FALSE
           /\ mRefCount' = 0 /\ delegate' = FALSE
    BY <1>5, <2>1 DEF Create, shared
  <2>3. CASE worker' = "starting" /\ UNCHANGED <<mRunnable, mJoinable, mRefCount, delegate>>
    <3>1. TaskTypeOK'
      BY <1>3, <2>1, <2>3 DEF TaskIInv, TaskTypeOK
    <3>2. Uses' = 2
      BY <2>1, <2>3 DEF Uses
    <3>3. mRefCount' = 2 /\ delegate' = TRUE
      BY <2>1, <2>3 DEF TaskIInv, TaskTypeOK
    <3>4. mRunnable' /\ delegate' = (mRefCount' > 0)
      <4>1. mRunnable'
        BY <2>1, <2>3, Zenon
      <4>2. mRefCount' > 0
        BY <3>3
      <4>3. delegate' = (mRefCount' > 0)
        BY <3>3, <4>2, Zenon
      <4> QED
        BY <4>1, <4>3
    <3>5. LivesGoTogether'
      BY <2>1, <2>3, <3>2, <3>3, <3>4 DEF LivesGoTogether
    <3> QED
      BY <1>2, <1>4, <3>1, <3>5 DEF TaskIInv
  <2>4. CASE /\ worker' = "none" /\ mRunnable' = FALSE /\ mJoinable' = FALSE
             /\ mRefCount' = 0 /\ delegate' = FALSE
    <3>1. mRunnable' \in BOOLEAN /\ mJoinable' \in BOOLEAN /\ delegate' \in BOOLEAN
      BY <2>4
    <3>2. mRefCount' \in 0..2
      BY <2>4
    <3>3. (inHand' # Null) = (worker' = "handling")
      BY <2>1, <2>4 DEF TaskIInv, TaskTypeOK
    <3>4. TaskTypeOK'
      BY <1>3, <2>1, <2>4, <3>1, <3>2, <3>3 DEF TaskIInv, TaskTypeOK
    <3>5. LivesGoTogether'
      BY <2>1, <2>4 DEF LivesGoTogether
    <3> QED
      BY <1>2, <1>4, <3>4, <3>5 DEF TaskIInv
  <2> QED
    BY <2>2, <2>3, <2>4
<1>6. CASE Part \/ Bye \/ Join
  <2>1. TaskTypeOK'
    BY <1>3, <1>6 DEF TaskIInv, TaskTypeOK, Part, Bye, Join, msgQueue, shared
  <2>2. LivesGoTogether'
    BY <1>6 DEF TaskIInv, LivesGoTogether, Uses, Part, Bye, Join, msgQueue, shared
  <2> QED
    BY <1>2, <1>4, <2>1, <2>2 DEF TaskIInv
<1>7. CASE OwnerReleases
  <2>1. mRefCount = 1 + (IF worker = "done" THEN 0 ELSE 1) /\ worker # "none"
    BY <1>7 DEF TaskIInv, LivesGoTogether, Uses, OwnerReleases
  <2>2. TaskTypeOK'
    BY <1>3, <1>7, <2>1 DEF TaskIInv, TaskTypeOK, OwnerReleases, Release, msgQueue
  <2>3. LivesGoTogether'
    BY <1>7, <2>1 DEF TaskIInv, LivesGoTogether, Uses, OwnerReleases, Release, msgQueue
  <2> QED
    BY <1>2, <1>4, <2>2, <2>3 DEF TaskIInv
<1> QED
  BY <1>5, <1>6, <1>7

\* Every step of the senders and the thread keeps the queue sound.
LEMMA NextKeepsTask == TaskIInv /\ [TaskNext]_taskVars => TaskIInv'
<1> SUFFICES ASSUME TaskIInv, [TaskNext]_taskVars PROVE TaskIInv'
  OBVIOUS
<1>1. CASE UNCHANGED taskVars
  <2>1. QueueIsSound'
    BY <1>1, OldQueueIsSound DEF TaskIInv, taskVars, msgQueue
  <2> QED
    BY <1>1, <2>1 DEF taskVars, msgQueue, shared, TaskIInv, TaskTypeOK, LivesGoTogether, Uses,
                      NobodyOversleeps, Waits
<1>2. CASE TaskNext
  BY <1>2, SndKeeps, UnblockKeeps, RcvKeeps, WorkerKeeps, OwnerKeeps DEF TaskNext, Worker
<1> QED
  BY <1>1, <1>2

\* What holds of a message task at every moment.
THEOREM TaskAlwaysSound == TaskSpec => []TaskIInv
  BY InitTask, NextKeepsTask, PTL DEF TaskSpec

-----------------------------------------------------------------------------
(* The theorems about the message task. *)

\* The queue's links agree both ways, no thread sleeps on a queue that holds a
\* message or was unblocked, and the delegate goes with the last of its users.
THEOREM TaskSound == TaskSpec => []TaskInv
<1>1. TaskIInv => TaskInv
  <2> SUFFICES ASSUME TaskIInv PROVE TaskInv
    OBVIOUS
  <2>1. /\ Queue \in Seq(Elements) /\ Backward(list) = Queue /\ Forward(list) = Turned(Queue)
    BY WaysOfList DEF TaskIInv, QueueIsSound, Queue, IsList
  <2>2. LinksAgree
    BY <2>1, TurnedProperties DEF LinksAgree
  <2>3. DelegateOutlivesBoth
    <3> SUFFICES ASSUME worker # "none" PROVE delegate <=> worker # "done" \/ owner # "done"
      BY DEF DelegateOutlivesBoth
    <3>1. mRefCount = Uses /\ delegate = (mRefCount > 0)
      BY DEF TaskIInv, LivesGoTogether
    <3>2. Uses > 0 <=> worker # "done" \/ owner # "done"
      BY DEF Uses
    <3> QED
      BY <3>1, <3>2
  <2> QED
    BY <2>2, <2>3 DEF TaskIInv, TaskInv
<1> QED
  BY <1>1, TaskAlwaysSound, PTL

\* The task implements Mailbox: messages are handled one at a time, each once, in
\* the order in which they were accepted; a closed task accepts none, and only
\* a closed one drops what is left.
THEOREM TaskIsMailbox == TaskSpec => WorksAsMailbox
<1>1. TaskInit => Box!Init
  <2> SUFFICES ASSUME TaskInit PROVE Box!Init
    OBVIOUS
  <2>1. Backward(list) = <<>>
    BY EmptyQueue DEF TaskInit
  <2> QED
    BY <2>1 DEF TaskInit, Box!Init
<1>2. TaskIInv /\ [TaskNext]_taskVars => [Box!Next]_Box!vars
  <2> SUFFICES ASSUME TaskIInv, [TaskNext]_taskVars PROVE [Box!Next]_Box!vars
    OBVIOUS
  <2>1. QueueIsSound
    BY DEF TaskIInv
  <2>2. CASE list' = list /\ inHand' = inHand /\ unblocked' = unblocked
    BY <2>2 DEF Box!vars
  <2>3. ASSUME NEW m \in Messages, Snd(m) PROVE [Box!Next]_Box!vars
    <3>1. CASE unblocked
      BY <2>3, <3>1 DEF Snd, Box!vars
    <3>2. CASE ~unblocked
      <4>1. Queue' = Append(Queue, m)
        BY <2>1, <2>3, <3>2, AddToQueue DEF Snd
      <4>2. Box!Accept(m)
        BY <2>3, <3>2, <4>1 DEF Snd, Queue, Box!Accept
      <4> QED
        BY <4>2 DEF Box!Next
    <3> QED
      BY <3>1, <3>2
  <2>4. ASSUME Removes, Rcv \/ Woken PROVE [Box!Next]_Box!vars
    <3>1. CASE list.p_tail = Null
      BY <2>4, <3>1 DEF Removes, Rcv, Woken, Box!vars
    <3>2. CASE list.p_tail # Null
      <4>1. /\ inHand' = list.p_tail /\ list' = RemoveTail(list) /\ unblocked' = unblocked
            /\ inHand = Null
        BY <2>4, <3>2 DEF Removes, Rcv, Woken, TaskIInv, TaskTypeOK
      <4>2. Queue # <<>> /\ list.p_tail = Head(Queue) /\ Queue' = Tail(Queue)
        BY <2>1, <3>2, <4>1, QueueEnds, TakeFromQueue
      <4>3. Box!Take
        BY <4>1, <4>2 DEF Queue, Box!Take
      <4> QED
        BY <4>3 DEF Box!Next
    <3> QED
      BY <3>1, <3>2
  <2>5. CASE Handle
    <3>1. Box!Finish
      BY <2>5 DEF Handle, msgQueue, Box!Finish, TaskIInv, TaskTypeOK
    <3> QED
      BY <3>1 DEF Box!Next
  <2>6. CASE Unblock
    <3>1. Box!Close
      BY <2>6 DEF Unblock, Box!Close
    <3> QED
      BY <3>1 DEF Box!Next
  <2>7. CASE DeleteRunnable \/ (Part /\ worker = "none")
    <3>1. /\ list' = EmptyList /\ inHand' = inHand /\ unblocked' = unblocked
          /\ worker = "leaving" \/ (worker = "none" /\ owner = "unblocked")
      BY <2>7 DEF DeleteRunnable, Part
    <3>2. unblocked /\ inHand = Null
      BY <3>1 DEF TaskIInv, TaskTypeOK, LivesGoTogether
    <3>3. Backward(list') = <<>>
      BY <3>1, EmptyQueue
    <3>4. Box!Drop
      BY <3>1, <3>2, <3>3 DEF Box!Drop
    <3> QED
      BY <3>4 DEF Box!Next
  <2> QED
    BY <2>2, <2>3, <2>4, <2>5, <2>6, <2>7
       DEF TaskNext, Worker, Begin, TestRunning, Rcv, Woken, WakeSpuriously, DeleteRunnable,
           WorkerReleases, Create, Part, Bye, Join, OwnerReleases, taskVars, msgQueue
<1> QED
  BY <1>1, <1>2, TaskAlwaysSound, PTL DEF TaskSpec, WorksAsMailbox

-----------------------------------------------------------------------------
(* The status of the engine, for any set of aiding data, and the sessions  *)
(* of the network's requests, for any number of requests and restarts.     *)

USE DEF EngineStatuses, SessionStatuses, Statuses

\* The type invariant, and with it that what waits for deletion was asked for
\* (LocEngDelAidData and update_aiding_data_for_deletion).
THEOREM StatusTypes == Spec => []TypeOK
<1>1. Init => TypeOK
  BY DEF Init, TypeOK
<1>2. TypeOK /\ [Next]_vars => TypeOK'
  <2> SUFFICES ASSUME TypeOK, [Next]_vars PROVE TypeOK'
    OBVIOUS
  <2>1. ASSUME NEW st \in Statuses, ReportStatus(st) PROVE TypeOK'
    BY <2>1 DEF TypeOK, ReportStatus, Report, MutedBy, ReceiverMoves, UpdateAidingData
  <2>2. ASSUME NEW mask \in SUBSET AidingData, DelAidData(mask) PROVE TypeOK'
    BY <2>2 DEF TypeOK, DelAidData, UpdateAidingData
  <2>3. CASE EngineDown
    BY <2>3 DEF TypeOK, EngineDown, Report, MutedBy
  <2>4. CASE MuteOneSession
    BY <2>4 DEF TypeOK, MuteOneSession
  <2>5. CASE UNCHANGED vars
    BY <2>5 DEF TypeOK, vars
  <2> QED
    BY <2>1, <2>2, <2>3, <2>4, <2>5 DEF Next
<1> QED
  BY <1>1, <1>2, PTL DEF Spec

\* A report of an engine that is off is never muted: loc_eng_report_status()
\* switches the muting off before it tells.
THEOREM OffIsShown == Spec => []EngineOffIsShown
<1>1. Init => EngineOffIsShown
  BY DEF Init, EngineOffIsShown
<1>2. TypeOK /\ EngineOffIsShown /\ [Next]_vars => EngineOffIsShown'
  <2> SUFFICES ASSUME TypeOK, EngineOffIsShown, [Next]_vars
               PROVE EngineOffIsShown'
    OBVIOUS
  <2>1. ASSUME NEW st \in Statuses, Report(st) PROVE EngineOffIsShown'
    <3>1. st = "ENGINE_OFF" => mute' # "IN_SESSION"
      BY <2>1 DEF TypeOK, Report, MutedBy
    <3> QED
      BY <2>1, <3>1 DEF Report, EngineOffIsShown
  <2>2. UNCHANGED <<engine, shown>> => EngineOffIsShown'
    BY DEF EngineOffIsShown
  <2> QED
    BY <2>1, <2>2
    DEF Next, ReportStatus, DelAidData, EngineDown, MuteOneSession, vars
<1> QED
  BY <1>1, <1>2, StatusTypes, PTL DEF Spec

\* Muting is confined to the time the engine or a session is on, whatever the
\* order of privacy overrides, statuses and restarts of the modem.
THEOREM MuteIsConfined == Spec => []MuteWithinSession
<1>1. Init => MuteWithinSession
  BY DEF Init, MuteWithinSession
<1>2. TypeOK /\ MuteWithinSession /\ [Next]_vars => MuteWithinSession'
  <2> SUFFICES ASSUME TypeOK, MuteWithinSession, [Next]_vars
               PROVE MuteWithinSession'
    OBVIOUS
  <2>1. ASSUME NEW st \in Statuses, Report(st) PROVE MuteWithinSession'
    BY <2>1 DEF TypeOK, Report, MutedBy, MuteWithinSession
  <2>2. mute' = "WAIT" => MuteWithinSession'
    BY DEF MuteWithinSession
  <2>3. UNCHANGED <<engine, session, mute>> => MuteWithinSession'
    BY DEF MuteWithinSession
  <2> QED
    BY <2>1, <2>2, <2>3
    DEF Next, ReportStatus, DelAidData, EngineDown, MuteOneSession, vars
<1> QED
  BY <1>1, <1>2, StatusTypes, PTL DEF Spec

\* A deletion waits only for an engine that is on, as
\* loc_eng_delete_aiding_data() says, or that the modem took down with it:
\* every status but the one of a restart carries out what waits.
THEOREM DeletionWaits == Spec => []DeletionWaitsForOff
<1>1. Init => DeletionWaitsForOff
  BY DEF Init, DeletionWaitsForOff
<1>2. DeletionWaitsForOff /\ [Next]_vars => DeletionWaitsForOff'
  BY DEF DeletionWaitsForOff, Next, ReportStatus, UpdateAidingData, DelAidData,
         EngineDown, MuteOneSession, vars
<1> QED
  BY <1>1, <1>2, PTL DEF Spec

\* All of them together: statuses, muting and deletion agree.
THEOREM StatusHolds == Spec => []StatusInv
<1>1. TypeOK /\ EngineOffIsShown /\ MuteWithinSession /\ DeletionWaitsForOff => StatusInv
  BY DEF StatusInv
<1>2. QED
  BY <1>1, StatusTypes, OffIsShown, MuteIsConfined, DeletionWaits, PTL
-----------------------------------------------------------------------------
(* Network-initiated sessions. *)

\* A request is in one place at most: waiting for its answer, in the hands of one
\* response thread, or answered.  A new one has a number of its own.
RequestsAreOnce ==
  /\ \A s \in Sessions : rawRequest[s] # None => rawRequest[s] <= reqIDCounter
  /\ rawRequest["ES"] = rawRequest["NI"] => rawRequest["ES"] = None
  /\ \A a \in answers :
       a[1] <= reqIDCounter /\ \A s \in Sessions : rawRequest[s] # a[1]
  /\ \A id \in Requests : message[id] # None =>
       /\ message[id][1] <= reqIDCounter
       /\ \A s \in Sessions : rawRequest[s] # message[id][1]
       /\ \A a \in answers : a[1] # message[id][1]
  /\ \A i, j \in Requests :
       message[i] # None /\ message[j] # None /\ message[i][1] = message[j][1] => i = j
  /\ \A a, b \in answers : a[1] = b[1] => a = b

\* Only a thread that has woken up has something to say.
SpeakersAreAwake ==
  \A id \in Requests :
    /\ message[id] # None => thread[id][2] = "clearing" /\ message[id][2] # "IGNORE"
    /\ id > reqIDCounter => thread[id][2] = "none"

\* Where an acceptance of the user can be: given, in the call that brings it, in a
\* session, with a response thread, told the modem.
Accepted == {id \in Requests : said[id] = "ACCEPT"}
InCall   == {s \in Sessions : user.session = s /\ user.resp = "ACCEPT"}
Received == {s \in Sessions : respRecvd[s] /\ resp[s] = "ACCEPT"}
Spoken   == {id \in Requests : message[id] # None /\ message[id][2] = "ACCEPT"}
Told     == {a \in answers : a[2] = "ACCEPT"}

\* No acceptance is made of nothing: there are as many as the user has given.
AcceptsAddUp ==
  restarts = 0 =>
    /\ reset = Idle
    /\ Cardinality(InCall) + Cardinality(Received) + Cardinality(Spoken) + Cardinality(Told)
         <= Cardinality(Accepted)

\* A reset that has begun is at one of the two sessions.
ResetHasSession == reset.at # "idle" => reset.session \in Sessions

NiIInv == NiTypeOK /\ ResetHasSession /\ RequestsAreOnce /\ SpeakersAreAwake /\ AcceptsAddUp

CountsAreNumbers ==
  /\ IsFiniteSet(InCall) /\ Cardinality(InCall) \in Nat
  /\ IsFiniteSet(Received) /\ Cardinality(Received) \in Nat
  /\ IsFiniteSet(Spoken) /\ Cardinality(Spoken) \in Nat
  /\ IsFiniteSet(Told) /\ Cardinality(Told) \in Nat
  /\ IsFiniteSet(Accepted) /\ Cardinality(Accepted) \in Nat

\* What can be counted, and how the counts change.
LEMMA Countable == NiTypeOK => CountsAreNumbers
<1> SUFFICES ASSUME NiTypeOK PROVE CountsAreNumbers
  OBVIOUS
<1>1. IsFiniteSet(Requests)
  BY FS_Interval, NiAssumption DEF Requests
<1>2. IsFiniteSet(Sessions)
  <2>1. Sessions = {"ES"} \cup {"NI"}
    BY DEF Sessions
  <2> QED
    BY <2>1, FS_Singleton, FS_AddElement
<1>3. IsFiniteSet(Responses)
  <2>1. Responses = (((({"ACCEPT"} \cup {"DENY"}) \cup {"NORESP"}) \cup {"IGNORE"}) \cup {"UNSET"})
    BY DEF Responses, UserSays
  <2>2. IsFiniteSet({"ACCEPT"} \cup {"DENY"})
    BY FS_Singleton, FS_AddElement
  <2>3. IsFiniteSet(({"ACCEPT"} \cup {"DENY"}) \cup {"NORESP"})
    BY <2>2, FS_AddElement
  <2>4. IsFiniteSet((({"ACCEPT"} \cup {"DENY"}) \cup {"NORESP"}) \cup {"IGNORE"})
    BY <2>3, FS_AddElement
  <2> QED
    BY <2>1, <2>4, FS_AddElement
<1>4. IsFiniteSet(Requests \X Responses)
  BY <1>1, <1>3, FS_Product
<1>5. /\ InCall \subseteq Sessions /\ Received \subseteq Sessions
      /\ Spoken \subseteq Requests /\ Accepted \subseteq Requests
      /\ Told \subseteq Requests \X Responses
  BY DEF NiTypeOK, InCall, Received, Spoken, Accepted, Told
<1>6. /\ IsFiniteSet(InCall) /\ IsFiniteSet(Received) /\ IsFiniteSet(Spoken)
      /\ IsFiniteSet(Accepted) /\ IsFiniteSet(Told)
  BY <1>1, <1>2, <1>4, <1>5, FS_Subset
<1> QED
  BY <1>6, FS_CardinalityType DEF CountsAreNumbers

\* The types of the next state give its counts.
LEMMA CountableNext == NiTypeOK' => CountsAreNumbers'
  BY Countable, PTL

\* Nothing is counted of what is not there.
LEMMA NoMore ==
  ASSUME NEW S, IsFiniteSet(S), NEW T, T \subseteq S
  PROVE  Cardinality(T) <= Cardinality(S)
BY FS_Subset

\* A change of one thing counts at most one more.
LEMMA AtMostOneMore ==
  ASSUME NEW S, IsFiniteSet(S), NEW x, NEW T, T \subseteq S \cup {x}
  PROVE  Cardinality(T) <= Cardinality(S) + 1
<1>1. /\ IsFiniteSet(S \cup {x}) /\ Cardinality(S \cup {x}) <= Cardinality(S) + 1
      /\ Cardinality(S) \in Nat
  BY FS_AddElement, FS_CardinalityType
<1>2. Cardinality(T) <= Cardinality(S \cup {x}) /\ Cardinality(T) \in Nat /\ Cardinality(S \cup {x}) \in Nat
  BY <1>1, FS_Subset, FS_CardinalityType
<1> QED
  BY <1>1, <1>2

\* What is taken away counts one less.
LEMMA OneLess ==
  ASSUME NEW S, IsFiniteSet(S), NEW x \in S, NEW T, T \subseteq S \ {x}
  PROVE  Cardinality(T) + 1 <= Cardinality(S)
<1>1. /\ IsFiniteSet(S \ {x}) /\ Cardinality(S \ {x}) = Cardinality(S) - 1
      /\ Cardinality(S) \in Nat
  BY FS_RemoveElement, FS_CardinalityType
<1>2. Cardinality(T) <= Cardinality(S \ {x}) /\ Cardinality(T) \in Nat
  BY <1>1, FS_Subset, FS_CardinalityType
<1> QED
  BY <1>1, <1>2

\* What is added counts one more.
LEMMA OneMore ==
  ASSUME NEW S, IsFiniteSet(S), NEW x, x \notin S, NEW T, T = S \cup {x}
  PROVE  Cardinality(T) = Cardinality(S) + 1
BY FS_AddElement

\* Nothing is under way at first.
LEMMA InitNi == NiInit => NiIInv
<1> SUFFICES ASSUME NiInit PROVE NiIInv
  OBVIOUS
<1>1. NiTypeOK
  BY NiAssumption DEF NiInit, NiTypeOK, AtRest, Idle, Sessions, Requests, Responses, UserSays
<1>2. InCall = {} /\ Received = {} /\ Spoken = {} /\ Told = {}
  BY DEF NiInit, AtRest, InCall, Received, Spoken, Told
<1>3. AcceptsAddUp
  <2>1. Cardinality(Accepted) \in Nat
    BY <1>1, Countable DEF CountsAreNumbers
  <2>2. Cardinality({}) = 0
    BY FS_EmptySet
  <2> QED
    BY <1>2, <2>1, <2>2 DEF AcceptsAddUp, NiInit
<1> QED
  BY <1>1, <1>3 DEF NiIInv, NiInit, Idle, ResetHasSession, RequestsAreOnce, SpeakersAreAwake, Sessions

\* loc_eng_ni_request_handler() gives the request a number that none has had.
LEMMA RequestKeeps ==
  ASSUME NiIInv, NEW s \in Sessions, NEW override \in BOOLEAN, NiRequest(s, override)
  PROVE  NiIInv'
<1> DEFINE id == reqIDCounter + 1
<1>1. id \in Requests /\ id \in 0..MaxRequests /\ reqIDCounter \in Nat /\ id # None
  BY NiAssumption DEF NiIInv, NiTypeOK, NiRequest, Requests
<1>2. /\ rawRequest' = [rawRequest EXCEPT ![s] = id] /\ reqID' = [reqID EXCEPT ![s] = id]
      /\ reqIDCounter' = id /\ thread' = [thread EXCEPT ![id] = <<s, "waiting">>]
      /\ UNCHANGED <<resp, respRecvd, message, user, reset, restarts, said, answers, freed>>
      /\ rawRequest["ES"] = None
  BY DEF NiRequest, Takes, told
<1> HIDE DEF id
<1>3. NiTypeOK'
  BY <1>1, <1>2 DEF NiIInv, NiTypeOK
<1>4. ResetHasSession'
  BY <1>2 DEF NiIInv, ResetHasSession
<1>5. \A t \in Sessions : rawRequest'[t] = IF t = s THEN id ELSE rawRequest[t]
  BY <1>2 DEF NiIInv, NiTypeOK
<1>6. \A k \in Nat : k <= reqIDCounter => k <= id /\ k # id
  BY <1>1 DEF id
<1>7. RequestsAreOnce'
  <2>1. \A t \in Sessions : rawRequest[t] # None => rawRequest[t] \in Nat /\ rawRequest[t] <= reqIDCounter
    BY DEF NiIInv, NiTypeOK, RequestsAreOnce, Requests
  <2>2. \A t \in Sessions : rawRequest'[t] # None => rawRequest'[t] <= reqIDCounter'
    BY <1>1, <1>2, <1>5, <1>6, <2>1
  <2>3. rawRequest'["ES"] = rawRequest'["NI"] => rawRequest'["ES"] = None
    BY <1>1, <1>2, <1>5, <1>6, <2>1 DEF Sessions
  <2>4. ASSUME NEW a \in answers
        PROVE  a[1] <= reqIDCounter' /\ \A t \in Sessions : rawRequest'[t] # a[1]
    <3>1. a[1] \in Nat /\ a[1] <= reqIDCounter /\ \A t \in Sessions : rawRequest[t] # a[1]
      BY DEF NiIInv, NiTypeOK, RequestsAreOnce, Requests
    <3> QED
      BY <1>2, <1>5, <1>6, <3>1
  <2>5. ASSUME NEW i \in Requests, message[i] # None
        PROVE  /\ message[i][1] <= reqIDCounter'
               /\ \A t \in Sessions : rawRequest'[t] # message[i][1]
    <3>1. /\ message[i][1] \in Nat /\ message[i][1] <= reqIDCounter
          /\ \A t \in Sessions : rawRequest[t] # message[i][1]
      BY <2>5 DEF NiIInv, NiTypeOK, RequestsAreOnce, Requests
    <3> QED
      BY <1>2, <1>5, <1>6, <3>1
  <2> QED
    BY <1>2, <2>2, <2>3, <2>4, <2>5 DEF NiIInv, RequestsAreOnce
<1>8. SpeakersAreAwake'
  <2>1. message[id] = None
    BY <1>1 DEF id, NiIInv, SpeakersAreAwake
  <2>2. \A k \in Requests : thread'[k] = IF k = id THEN <<s, "waiting">> ELSE thread[k]
    BY <1>1, <1>2 DEF NiIInv, NiTypeOK
  <2>3. \A k \in Requests : k > id => k > reqIDCounter /\ k # id
    BY <1>1 DEF id, Requests
  <2> QED
    BY <1>2, <2>1, <2>2, <2>3 DEF NiIInv, SpeakersAreAwake
<1>9. AcceptsAddUp'
  BY <1>2 DEF NiIInv, AcceptsAddUp, InCall, Received, Spoken, Told, Accepted
<1> QED
  BY <1>3, <1>4, <1>7, <1>8, <1>9 DEF NiIInv

\* A restart of the modem, after which nothing is counted.
LEMMA ResetKeeps == NiIInv /\ (NiEngineDown \/ Reset) => NiIInv'
<1> SUFFICES ASSUME NiIInv, NiEngineDown \/ Reset PROVE NiIInv'
  OBVIOUS
<1>1. restarts \in Nat /\ MaxRestarts \in Nat
  BY NiAssumption DEF NiIInv, NiTypeOK
<1>2. restarts' # 0
  <2>1. CASE NiEngineDown
    BY <1>1, <2>1 DEF NiEngineDown
  <2>2. CASE Reset
    <3>1. reset.at # "idle" /\ restarts' = restarts
      BY <2>2 DEF Reset, ResetFrees, ResetNulls, ResetSignals, ResetPasses
    <3>2. reset # Idle
      BY <3>1 DEF Idle
    <3> QED
      BY <3>1, <3>2 DEF NiIInv, AcceptsAddUp
  <2> QED
    BY <2>1, <2>2
<1>3. AcceptsAddUp'
  BY <1>2 DEF AcceptsAddUp
<1>4. UNCHANGED <<message, answers, thread, reqIDCounter, reqID, resp, user, said>>
  BY DEF NiEngineDown, Reset, ResetFrees, ResetNulls, ResetSignals, ResetPasses, slots, workers, told
<1>5. SpeakersAreAwake'
  BY <1>4 DEF NiIInv, SpeakersAreAwake
<1>6. ASSUME ResetGoesOn
      PROVE  /\ reset' \in [at : {"idle", "looking", "freed", "nulled"}, session : Sessions \cup {None}]
             /\ ResetHasSession'
  BY <1>6 DEF ResetGoesOn, Idle, Sessions, ResetHasSession
<1>7. CASE NiEngineDown
  <2>1. /\ reset' = [at |-> "looking", session |-> "ES"] /\ restarts' = restarts + 1
        /\ restarts < MaxRestarts /\ UNCHANGED <<rawRequest, respRecvd, freed>>
    BY <1>7 DEF NiEngineDown, slots, told
  <2>2. restarts' \in 0..MaxRestarts
    BY <1>1, <2>1
  <2>3. NiTypeOK' /\ ResetHasSession'
    BY <1>4, <2>1, <2>2 DEF NiIInv, NiTypeOK, ResetHasSession, Sessions
  <2>4. RequestsAreOnce'
    BY <1>4, <2>1 DEF NiIInv, RequestsAreOnce
  <2> QED
    BY <1>3, <1>5, <2>3, <2>4 DEF NiIInv
<1>8. CASE ResetFrees \/ ResetSignals \/ ResetPasses
  <2>1. UNCHANGED <<rawRequest, restarts>> /\ reset.session \in Sessions
    BY <1>8 DEF ResetFrees, ResetSignals, ResetPasses, slots, NiIInv, ResetHasSession
  <2>2. RequestsAreOnce'
    BY <1>4, <2>1 DEF NiIInv, RequestsAreOnce
  <2>3. /\ reset' \in [at : {"idle", "looking", "freed", "nulled"}, session : Sessions \cup {None}]
        /\ ResetHasSession'
    <3>1. CASE ResetFrees
      BY <2>1, <3>1 DEF ResetFrees, NiIInv, NiTypeOK, ResetHasSession
    <3> QED
      BY <1>6, <1>8, <3>1 DEF ResetSignals, ResetPasses
  <2>4. respRecvd' \in [Sessions -> BOOLEAN]
    BY <1>8 DEF ResetFrees, ResetSignals, ResetPasses, slots, NiIInv, NiTypeOK
  <2>5. freed' \subseteq Requests
    BY <1>8, <2>1 DEF ResetFrees, ResetSignals, ResetPasses, told, NiIInv, NiTypeOK
  <2>6. NiTypeOK'
    BY <1>4, <2>1, <2>3, <2>4, <2>5 DEF NiIInv, NiTypeOK
  <2> QED
    BY <1>3, <1>5, <2>2, <2>3, <2>6 DEF NiIInv
<1>9. CASE ResetNulls
  <2>1. /\ reset' = [reset EXCEPT !.at = "nulled"] /\ reset.at = "freed"
        /\ rawRequest' = [rawRequest EXCEPT ![reset.session] = None]
        /\ UNCHANGED <<respRecvd, restarts, freed>>
    BY <1>9 DEF ResetNulls, told
  <2>2. NiTypeOK' /\ ResetHasSession'
    BY <1>4, <2>1 DEF NiIInv, NiTypeOK, ResetHasSession
  <2>3. \A s \in Sessions : rawRequest'[s] = rawRequest[s] \/ rawRequest'[s] = None
    BY <2>1 DEF NiIInv, NiTypeOK
  <2>4. None \notin Requests
    BY NiAssumption DEF Requests
  <2>5. /\ \A a \in answers : a[1] \in Requests
        /\ \A id \in Requests : message[id] # None => message[id][1] \in Requests
    BY DEF NiIInv, NiTypeOK
  <2>6. RequestsAreOnce'
    BY <1>4, <2>3, <2>4, <2>5 DEF NiIInv, RequestsAreOnce, Sessions
  <2> QED
    BY <1>3, <1>5, <2>2, <2>6 DEF NiIInv
<1> QED
  BY <1>7, <1>8, <1>9 DEF Reset

\* The framework's thread: it brings at most one acceptance for each that it was
\* given.
LEMMA UserKeeps ==
  ASSUME NiIInv, User \/ RespondIgnores \/ RespondAnswers
  PROVE  NiIInv'
<1>1. UNCHANGED <<rawRequest, reqID, reqIDCounter, thread, message, reset, restarts, answers, freed>>
  BY DEF User, Respond, RespondIgnores, RespondAnswers, slots, workers, told
<1>2. ResetHasSession' /\ RequestsAreOnce' /\ SpeakersAreAwake'
  BY <1>1 DEF NiIInv, ResetHasSession, RequestsAreOnce, SpeakersAreAwake
<1>3. Told' = Told /\ Spoken' = Spoken
  BY <1>1 DEF Told, Spoken
<1>4. ASSUME NEW id \in Requests, NEW answer \in UserSays, Respond(id, answer)
      PROVE  NiTypeOK' /\ AcceptsAddUp'
  <2>1. /\ said' = [said EXCEPT ![id] = answer] /\ said[id] = None
        /\ UNCHANGED <<resp, respRecvd>> /\ user = AtRest
    BY <1>4 DEF Respond, slots
  <2>2. /\ user' \in [session : Sessions \cup {None}, resp : Responses, ignores : BOOLEAN]
        /\ user' = user \/ user'.resp = answer
    <3>1. answer \in Responses /\ "ES" \in Sessions /\ "NI" \in Sessions
      BY DEF Responses, Sessions
    <3>2. \/ user' = [session |-> "ES", resp |-> answer,
                      ignores |-> answer = "ACCEPT" /\ rawRequest["NI"] # None]
          \/ user' = [session |-> "NI", resp |-> answer, ignores |-> FALSE]
          \/ user' = user
      BY <1>4, Zenon DEF Respond
    <3>3. (answer = "ACCEPT" /\ rawRequest["NI"] # None) \in BOOLEAN
      OBVIOUS
    <3>4. user \in [session : Sessions \cup {None}, resp : Responses, ignores : BOOLEAN]
      BY DEF NiIInv, NiTypeOK
    <3> DEFINE both == answer = "ACCEPT" /\ rawRequest["NI"] # None
    <3> HIDE DEF both
    <3>5. both \in BOOLEAN
      BY <3>3 DEF both
    <3>6. \/ user' = [session |-> "ES", resp |-> answer, ignores |-> both]
          \/ user' = [session |-> "NI", resp |-> answer, ignores |-> FALSE]
          \/ user' = user
      BY <3>2 DEF both
    <3>7. CASE user' = [session |-> "ES", resp |-> answer, ignores |-> both]
      BY <3>1, <3>5, <3>7
    <3>8. CASE user' = [session |-> "NI", resp |-> answer, ignores |-> FALSE]
      BY <3>1, <3>8
    <3> QED
      BY <3>4, <3>6, <3>7, <3>8
  <2>3. NiTypeOK'
    BY <1>1, <2>1, <2>2 DEF NiIInv, NiTypeOK
  <2>4. None # "ACCEPT"
    BY NiAssumption DEF Responses, UserSays
  <2>5. Received' = Received /\ InCall = {}
    BY <2>1 DEF Received, InCall, AtRest
  <2>6. AcceptsAddUp'
    <3>1. CASE answer = "ACCEPT"
      <4>1. Accepted' = Accepted \cup {id} /\ id \notin Accepted
        BY <2>1, <2>4, <3>1 DEF Accepted, NiIInv, NiTypeOK
      <4>2. Cardinality(Accepted') = Cardinality(Accepted) + 1
        BY <4>1, Countable, OneMore DEF NiIInv, CountsAreNumbers
      <4>3. InCall' \subseteq {} \cup {user'.session}
        BY DEF InCall
      <4>4. Cardinality(InCall') <= Cardinality(InCall) + 1
        BY <2>5, <4>3, Countable, AtMostOneMore DEF NiIInv, CountsAreNumbers
      <4>5. /\ Cardinality(InCall) \in Nat /\ Cardinality(InCall') \in Nat
            /\ Cardinality(Received) \in Nat /\ Cardinality(Spoken) \in Nat
            /\ Cardinality(Told) \in Nat /\ Cardinality(Accepted) \in Nat
        BY <2>3, Countable, CountableNext DEF NiIInv, CountsAreNumbers
      <4> QED
        BY <1>1, <1>3, <2>5, <4>2, <4>4, <4>5 DEF NiIInv, AcceptsAddUp
    <3>2. CASE answer # "ACCEPT"
      <4>1. Accepted' = Accepted
        BY <2>1, <2>4, <3>2 DEF Accepted, NiIInv, NiTypeOK
      <4>2. InCall' = InCall
        BY <2>1, <2>2, <2>5, <3>2 DEF InCall
      <4> QED
        BY <1>1, <1>3, <2>5, <4>1, <4>2 DEF NiIInv, AcceptsAddUp
    <3> QED
      BY <3>1, <3>2
  <2> QED
    BY <2>3, <2>6
<1>5. ASSUME RespondIgnores PROVE NiTypeOK' /\ AcceptsAddUp'
  <2>1. /\ user' = [user EXCEPT !.ignores = FALSE] /\ resp' = [resp EXCEPT !["NI"] = "IGNORE"]
        /\ respRecvd' = [respRecvd EXCEPT !["NI"] = TRUE] /\ said' = said
    BY <1>5 DEF RespondIgnores, Answer
  <2>2. NiTypeOK'
    BY <1>1, <2>1 DEF NiIInv, NiTypeOK, Responses
  <2>3. InCall' = InCall /\ Accepted' = Accepted /\ Received' \subseteq Received
    BY <2>1 DEF NiIInv, NiTypeOK, InCall, Accepted, Received
  <2>4. Cardinality(Received') <= Cardinality(Received)
    BY <2>3, Countable, NoMore DEF NiIInv, CountsAreNumbers
  <2>5. /\ Cardinality(InCall) \in Nat /\ Cardinality(Received') \in Nat
        /\ Cardinality(Received) \in Nat /\ Cardinality(Spoken) \in Nat
        /\ Cardinality(Told) \in Nat /\ Cardinality(Accepted) \in Nat
    BY <2>2, Countable, CountableNext DEF NiIInv, CountsAreNumbers
  <2>6. AcceptsAddUp'
    BY <1>1, <1>3, <2>3, <2>4, <2>5 DEF NiIInv, AcceptsAddUp
  <2> QED
    BY <2>2, <2>6
<1>6. ASSUME RespondAnswers PROVE NiTypeOK' /\ AcceptsAddUp'
  <2> DEFINE s == user.session
  <2>1. /\ user' = AtRest /\ resp' = [resp EXCEPT ![s] = user.resp]
        /\ respRecvd' = [respRecvd EXCEPT ![s] = TRUE] /\ said' = said /\ s \in Sessions
    BY <1>6 DEF RespondAnswers, Answer, NiIInv, NiTypeOK
  <2>2. NiTypeOK'
    BY <1>1, <2>1 DEF NiIInv, NiTypeOK, AtRest, Responses
  <2>3. InCall' = {} /\ Accepted' = Accepted
    BY <2>1 DEF InCall, AtRest, Accepted
  <2>4. Cardinality(InCall') = 0
    BY <2>3, FS_EmptySet
  <2>5. /\ Cardinality(InCall) \in Nat /\ Cardinality(Received') \in Nat
        /\ Cardinality(Received) \in Nat /\ Cardinality(Spoken) \in Nat
        /\ Cardinality(Told) \in Nat /\ Cardinality(Accepted) \in Nat
    BY <2>2, Countable, CountableNext DEF NiIInv, CountsAreNumbers
  <2>6. Cardinality(InCall') + Cardinality(Received') <= Cardinality(InCall) + Cardinality(Received)
    <3>1. CASE user.resp = "ACCEPT"
      <4>1. s \in InCall /\ {} \subseteq InCall \ {s}
        BY <2>1, <3>1 DEF InCall
      <4>2. Cardinality({}) + 1 <= Cardinality(InCall)
        BY <4>1, Countable, OneLess DEF NiIInv, CountsAreNumbers
      <4>3. Received' \subseteq Received \cup {s}
        BY <2>1 DEF NiIInv, NiTypeOK, Received
      <4>4. Cardinality(Received') <= Cardinality(Received) + 1
        BY <4>3, Countable, AtMostOneMore DEF NiIInv, CountsAreNumbers
      <4> QED
        BY <2>3, <2>4, <2>5, <4>2, <4>4
    <3>2. CASE user.resp # "ACCEPT"
      <4>1. Received' \subseteq Received
        BY <2>1, <3>2 DEF NiIInv, NiTypeOK, Received
      <4>2. Cardinality(Received') <= Cardinality(Received)
        BY <4>1, Countable, NoMore DEF NiIInv, CountsAreNumbers
      <4> QED
        BY <2>4, <2>5, <4>2
    <3> QED
      BY <3>1, <3>2
  <2>7. AcceptsAddUp'
    BY <1>1, <1>3, <2>3, <2>4, <2>5, <2>6 DEF NiIInv, AcceptsAddUp
  <2> QED
    BY <2>2, <2>7
<1> QED
  BY <1>2, <1>4, <1>5, <1>6 DEF NiIInv, User

\* A response thread that wakes up takes the request and the answer with it, once.
LEMMA WakeKeeps ==
  ASSUME NiIInv, NEW id \in Requests, NEW timedOut \in BOOLEAN, ThreadWakes(id, timedOut)
  PROVE  NiIInv'
<1>1. PICK s \in Sessions :
        /\ thread[id] = <<s, "waiting">> /\ (respRecvd[s] \/ timedOut)
        /\ resp' = [resp EXCEPT ![s] = IF timedOut THEN "NORESP" ELSE @]
        /\ respRecvd' = [respRecvd EXCEPT ![s] = FALSE]
        /\ Answered(id, s, resp'[s])
        /\ thread' = [thread EXCEPT ![id] = <<s, "clearing">>]
        /\ UNCHANGED <<vars, reqID, reqIDCounter, user, reset, restarts, said, told>>
  BY DEF ThreadWakes
<1> DEFINE raw == rawRequest[s]
           words == IF raw = None \/ resp'[s] = "IGNORE" THEN None ELSE <<raw, resp'[s]>>
<1>2. /\ message' = [message EXCEPT ![id] = words]
      /\ rawRequest' = [rawRequest EXCEPT ![s] = None]
      /\ UNCHANGED <<answers, freed>>
  BY <1>1 DEF Answered, told
<1>3. resp'[s] \in Responses /\ resp' \in [Sessions -> Responses]
  BY <1>1 DEF NiIInv, NiTypeOK, Responses
<1>4. raw \in Requests \cup {None} /\ None \notin Requests
  BY NiAssumption DEF NiIInv, NiTypeOK, Requests
<1>5. \/ words = None
      \/ /\ raw # None /\ raw \in Requests /\ words = <<raw, resp'[s]>>
         /\ words[1] = raw /\ words[2] = resp'[s] /\ words[2] # "IGNORE"
  BY <1>4
<1>6. words \in {None} \cup (Requests \X Responses)
  BY <1>3, <1>5
<1> HIDE DEF words
<1>7. \A t \in Sessions : rawRequest'[t] = IF t = s THEN None ELSE rawRequest[t]
  BY <1>2 DEF NiIInv, NiTypeOK
<1>8. \A i \in Requests : message'[i] = IF i = id THEN words ELSE message[i]
  BY <1>2 DEF NiIInv, NiTypeOK
<1>9. \A i \in Requests : thread'[i] = IF i = id THEN <<s, "clearing">> ELSE thread[i]
  BY <1>1 DEF NiIInv, NiTypeOK
<1>10. NiTypeOK'
  <2>1. message' \in [Requests -> {None} \cup (Requests \X Responses)]
    BY <1>2, <1>6 DEF NiIInv, NiTypeOK
  <2>2. thread' \in [Requests -> Sessions \X {"none", "waiting", "clearing", "ended"}]
    BY <1>1 DEF NiIInv, NiTypeOK
  <2>3. rawRequest' \in [Sessions -> Requests \cup {None}] /\ respRecvd' \in [Sessions -> BOOLEAN]
    BY <1>1, <1>2 DEF NiIInv, NiTypeOK
  <2> QED
    BY <1>1, <1>2, <1>3, <2>1, <2>2, <2>3 DEF NiIInv, NiTypeOK
<1>11. message[id] = None
  BY <1>1 DEF NiIInv, SpeakersAreAwake
<1>12. ResetHasSession'
  BY <1>1 DEF NiIInv, ResetHasSession
<1>13. RequestsAreOnce'
  <2>1. \A t \in Sessions : rawRequest'[t] = None \/ (rawRequest'[t] = rawRequest[t] /\ rawRequest'[t] # None)
    BY <1>7
  <2>2. \A i \in Requests : message[i] # None =>
          message[i][1] \in Requests /\ message[i][1] # None
    BY <1>4 DEF NiIInv, NiTypeOK
  <2>3. \A a \in answers : a[1] \in Requests /\ a[1] # None
    BY <1>4 DEF NiIInv, NiTypeOK
  <2>4. ASSUME words # None
        PROVE  /\ words[1] <= reqIDCounter
               /\ \A t \in Sessions : rawRequest'[t] # words[1]
               /\ \A a \in answers : a[1] # words[1]
               /\ \A i \in Requests : message[i] # None => message[i][1] # words[1]
    <3>1. raw # None /\ words[1] = raw
      BY <1>5, <2>4
    <3>2. \A t \in Sessions : t # s => rawRequest[t] # raw
      BY <3>1 DEF Sessions, NiIInv, RequestsAreOnce
    <3> QED
      BY <1>7, <3>1, <3>2 DEF NiIInv, RequestsAreOnce
  <2>5. \A t \in Sessions : rawRequest'[t] # None => rawRequest'[t] <= reqIDCounter
    BY <2>1 DEF NiIInv, RequestsAreOnce
  <2>6. rawRequest'["ES"] = rawRequest'["NI"] => rawRequest'["ES"] = None
    BY <2>1 DEF NiIInv, RequestsAreOnce, Sessions
  <2>7. \A a \in answers : a[1] <= reqIDCounter /\ \A t \in Sessions : rawRequest'[t] # a[1]
    BY <2>1, <2>3 DEF NiIInv, RequestsAreOnce
  <2>8. ASSUME NEW i \in Requests, message'[i] # None
        PROVE  /\ message'[i][1] <= reqIDCounter
               /\ \A t \in Sessions : rawRequest'[t] # message'[i][1]
               /\ \A a \in answers : a[1] # message'[i][1]
    <3>1. CASE i = id
      BY <1>8, <2>4, <2>8, <3>1
    <3>2. CASE i # id
      BY <1>8, <2>1, <2>2, <2>8, <3>2 DEF NiIInv, RequestsAreOnce
    <3> QED
      BY <3>1, <3>2
  <2>9. ASSUME NEW i \in Requests, NEW j \in Requests,
               message'[i] # None, message'[j] # None, message'[i][1] = message'[j][1]
        PROVE  i = j
    BY <1>8, <2>4, <2>9 DEF NiIInv, RequestsAreOnce
  <2> QED
    BY <1>1, <1>2, <2>5, <2>6, <2>7, <2>8, <2>9 DEF NiIInv, RequestsAreOnce
<1>14. SpeakersAreAwake'
  <2>1. <<s, "clearing">>[2] = "clearing" /\ <<s, "waiting">>[2] = "waiting"
    OBVIOUS
  <2>2. id <= reqIDCounter
    BY <1>1, <2>1, NiAssumption DEF NiIInv, NiTypeOK, SpeakersAreAwake, Requests
  <2>3. ~(id > reqIDCounter)
    BY <2>2, NiAssumption DEF NiIInv, NiTypeOK, Requests
  <2> QED
    BY <1>1, <1>5, <1>8, <1>9, <2>1, <2>3 DEF NiIInv, SpeakersAreAwake
<1>15. AcceptsAddUp'
  <2>1. InCall' = InCall /\ Told' = Told /\ Accepted' = Accepted
    BY <1>1, <1>2 DEF InCall, Told, Accepted
  <2>2. /\ Cardinality(InCall) \in Nat /\ Cardinality(Received') \in Nat
        /\ Cardinality(Received) \in Nat /\ Cardinality(Spoken) \in Nat
        /\ Cardinality(Spoken') \in Nat
        /\ Cardinality(Told) \in Nat /\ Cardinality(Accepted) \in Nat
        /\ IsFiniteSet(Received) /\ IsFiniteSet(Spoken)
    BY <1>10, Countable, CountableNext DEF NiIInv, CountsAreNumbers
  <2>3. Received' \subseteq Received \ {s}
    BY <1>1 DEF NiIInv, NiTypeOK, Received
  <2>4. Cardinality(Received') + Cardinality(Spoken') <= Cardinality(Received) + Cardinality(Spoken)
    <3>1. CASE words # None /\ words[2] = "ACCEPT"
      <4>1. resp'[s] = "ACCEPT"
        BY <1>5, <3>1
      <4>2. resp[s] = "ACCEPT" /\ ~timedOut
        BY <1>1, <4>1 DEF NiIInv, NiTypeOK
      <4>3. s \in Received
        BY <1>1, <4>2 DEF Received
      <4>4. Cardinality(Received') + 1 <= Cardinality(Received)
        BY <2>2, <2>3, <4>3, OneLess
      <4>5. Spoken' \subseteq Spoken \cup {id}
        BY <1>8 DEF Spoken
      <4>6. Cardinality(Spoken') <= Cardinality(Spoken) + 1
        BY <2>2, <4>5, AtMostOneMore
      <4> QED
        BY <2>2, <4>4, <4>6
    <3>2. CASE ~(words # None /\ words[2] = "ACCEPT")
      <4>1. Spoken' \subseteq Spoken
        BY <1>8, <3>2 DEF Spoken
      <4>2. Received' \subseteq Received
        BY <2>3
      <4>3. Cardinality(Spoken') <= Cardinality(Spoken)
        BY <2>2, <4>1, NoMore
      <4>4. Cardinality(Received') <= Cardinality(Received)
        BY <2>2, <4>2, NoMore
      <4> QED
        BY <2>2, <4>3, <4>4
    <3> QED
      BY <3>1, <3>2
  <2> QED
    BY <1>1, <2>1, <2>2, <2>4 DEF NiIInv, AcceptsAddUp
<1> QED
  BY <1>10, <1>12, <1>13, <1>14, <1>15 DEF NiIInv

\* Then it tells the modem what it had to say.
LEMMA ClearKeeps ==
  ASSUME NiIInv, NEW id \in Requests, ThreadClears(id)
  PROVE  NiIInv'
<1>1. PICK s \in Sessions :
        /\ thread[id] = <<s, "clearing">>
        /\ thread' = [thread EXCEPT ![id] = <<s, "ended">>]
        /\ reqID' = [reqID EXCEPT ![s] = 0]
        /\ answers' = IF message[id] = None THEN answers ELSE answers \cup {message[id]}
        /\ message' = [message EXCEPT ![id] = None]
        /\ UNCHANGED <<rawRequest, resp, respRecvd, reqIDCounter, user, reset, restarts,
                       said, freed>>
  BY DEF ThreadClears
<1> DEFINE words == message[id]
<1>2. /\ words \in {None} \cup (Requests \X Responses)
      /\ words # None => words[2] # "IGNORE" /\ words \in Requests \X (Responses \ {"IGNORE"})
  BY DEF NiIInv, NiTypeOK, SpeakersAreAwake
<1>3. answers' = IF words = None THEN answers ELSE answers \cup {words}
  BY <1>1
<1>4. \A i \in Requests : message'[i] = IF i = id THEN None ELSE message[i]
  BY <1>1 DEF NiIInv, NiTypeOK
<1>5. \A i \in Requests : thread'[i] = IF i = id THEN <<s, "ended">> ELSE thread[i]
  BY <1>1 DEF NiIInv, NiTypeOK
<1>6. NiTypeOK'
  <2>1. message' \in [Requests -> {None} \cup (Requests \X Responses)]
    BY <1>1 DEF NiIInv, NiTypeOK
  <2>2. thread' \in [Requests -> Sessions \X {"none", "waiting", "clearing", "ended"}]
    BY <1>1 DEF NiIInv, NiTypeOK
  <2>3. reqID' \in [Sessions -> 0..MaxRequests]
    BY <1>1, NiAssumption DEF NiIInv, NiTypeOK
  <2>4. answers' \subseteq Requests \X (Responses \ {"IGNORE"})
    BY <1>2, <1>3 DEF NiIInv, NiTypeOK
  <2> QED
    BY <1>1, <2>1, <2>2, <2>3, <2>4 DEF NiIInv, NiTypeOK
<1>7. ResetHasSession'
  BY <1>1 DEF NiIInv, ResetHasSession
<1>8. words # None =>
        /\ words[1] <= reqIDCounter
        /\ \A t \in Sessions : rawRequest[t] # words[1]
        /\ \A a \in answers : a[1] # words[1]
        /\ \A i \in Requests : message[i] # None /\ i # id => message[i][1] # words[1]
  BY DEF NiIInv, RequestsAreOnce
<1> HIDE DEF words
<1>9. RequestsAreOnce'
  <2>1. \A a \in answers' : a \in answers \/ (words # None /\ a = words)
    BY <1>3
  <2>2. ASSUME NEW a \in answers'
        PROVE  a[1] <= reqIDCounter /\ \A t \in Sessions : rawRequest[t] # a[1]
    BY <1>8, <2>1 DEF NiIInv, RequestsAreOnce
  <2>3. ASSUME NEW i \in Requests, message'[i] # None
        PROVE  /\ message'[i][1] <= reqIDCounter
               /\ \A t \in Sessions : rawRequest[t] # message'[i][1]
               /\ \A a \in answers' : a[1] # message'[i][1]
    <3>1. i # id /\ message'[i] = message[i] /\ message[i] # None
      BY <1>4, <2>3
    <3> QED
      BY <1>8, <2>1, <3>1 DEF NiIInv, RequestsAreOnce
  <2>4. \A i, j \in Requests : message'[i] # None /\ message'[j] # None
          /\ message'[i][1] = message'[j][1] => i = j
    BY <1>4 DEF NiIInv, RequestsAreOnce
  <2>5. \A a, b \in answers' : a[1] = b[1] => a = b
    BY <1>8, <2>1 DEF NiIInv, RequestsAreOnce
  <2> QED
    BY <1>1, <2>2, <2>3, <2>4, <2>5 DEF NiIInv, RequestsAreOnce
<1>10. SpeakersAreAwake'
  <2>1. <<s, "clearing">>[2] = "clearing"
    OBVIOUS
  <2>2. ~(id > reqIDCounter)
    BY <1>1, <2>1 DEF NiIInv, SpeakersAreAwake
  <2> QED
    BY <1>1, <1>4, <1>5, <2>2 DEF NiIInv, SpeakersAreAwake
<1>11. AcceptsAddUp'
  <2>1. InCall' = InCall /\ Received' = Received /\ Accepted' = Accepted
    BY <1>1 DEF InCall, Received, Accepted
  <2>2. /\ Cardinality(InCall) \in Nat /\ Cardinality(Told') \in Nat
        /\ Cardinality(Received) \in Nat /\ Cardinality(Spoken) \in Nat
        /\ Cardinality(Spoken') \in Nat
        /\ Cardinality(Told) \in Nat /\ Cardinality(Accepted) \in Nat
        /\ IsFiniteSet(Told) /\ IsFiniteSet(Spoken)
    BY <1>6, Countable, CountableNext DEF NiIInv, CountsAreNumbers
  <2>3. Spoken' \subseteq Spoken \ {id}
    BY <1>4 DEF Spoken
  <2>4. Cardinality(Spoken') + Cardinality(Told') <= Cardinality(Spoken) + Cardinality(Told)
    <3>1. CASE words # None /\ words[2] = "ACCEPT"
      <4>1. id \in Spoken
        BY <3>1 DEF Spoken, words
      <4>2. Cardinality(Spoken') + 1 <= Cardinality(Spoken)
        BY <2>2, <2>3, <4>1, OneLess
      <4>3. Told' \subseteq Told \cup {words}
        BY <1>3 DEF Told
      <4>4. Cardinality(Told') <= Cardinality(Told) + 1
        BY <2>2, <4>3, AtMostOneMore
      <4> QED
        BY <2>2, <4>2, <4>4
    <3>2. CASE ~(words # None /\ words[2] = "ACCEPT")
      <4>1. Told' \subseteq Told /\ Spoken' \subseteq Spoken
        BY <1>3, <2>3, <3>2 DEF Told
      <4>2. Cardinality(Spoken') <= Cardinality(Spoken)
        BY <2>2, <4>1, NoMore
      <4>3. Cardinality(Told') <= Cardinality(Told)
        BY <2>2, <4>1, NoMore
      <4> QED
        BY <2>2, <4>2, <4>3
    <3> QED
      BY <3>1, <3>2
  <2> QED
    BY <1>1, <2>1, <2>2, <2>4 DEF NiIInv, AcceptsAddUp
<1> QED
  BY <1>6, <1>7, <1>9, <1>10, <1>11 DEF NiIInv

\* Every step keeps the sessions in order.
LEMMA NiNextKeeps == NiIInv /\ [NiNext]_niAll => NiIInv'
<1> SUFFICES ASSUME NiIInv, [NiNext]_niAll PROVE NiIInv'
  OBVIOUS
<1>1. CASE NiEngineDown \/ Reset
  BY <1>1, ResetKeeps
<1>2. CASE Network
  BY <1>2, RequestKeeps DEF Network
<1>3. CASE User \/ RespondIgnores \/ RespondAnswers
  BY <1>3, UserKeeps
<1>4. CASE \E id \in Requests : Thread(id)
  BY <1>4, WakeKeeps, ClearKeeps DEF Thread
<1>5. CASE UNCHANGED niAll
  BY <1>5 DEF niAll, niVars, slots, workers, told, NiIInv, NiTypeOK, ResetHasSession,
    RequestsAreOnce, SpeakersAreAwake, AcceptsAddUp, InCall, Received, Spoken, Told, Accepted
<1> QED
  BY <1>1, <1>2, <1>3, <1>4, <1>5 DEF NiNext

\* Every request of the network is in one place at most, and no acceptance goes to
\* the modem that the user has not given, whatever the three sorts of threads do
\* to the sessions they share.
THEOREM NiAlwaysSound == NiSpec => []NiIInv
<1>1. Init /\ NiInit => NiIInv
  BY InitNi
<1>2. NiIInv /\ [NiNext]_niAll => NiIInv'
  BY NiNextKeeps
<1> QED
  BY <1>1, <1>2, PTL DEF NiSpec

\* The modem is told at most one answer to a request, and without restarts it is
\* told no more acceptances than the user has given (loc_eng_ni.cpp).
THEOREM NiSound == NiSpec => []NiInv
<1>1. ASSUME NiIInv PROVE AnsweredOnce
  <2> DEFINE underway == {message[id] : id \in Requests} \ {None}
  <2>1. ASSUME NEW a \in answers \cup underway, NEW b \in answers \cup underway, a[1] = b[1]
        PROVE  a = b
    <3>1. CASE a \in answers /\ b \in answers
      BY <1>1, <2>1, <3>1 DEF NiIInv, RequestsAreOnce
    <3>2. ASSUME NEW x \in answers, NEW y \in underway PROVE x[1] # y[1]
      BY <1>1 DEF NiIInv, RequestsAreOnce
    <3>3. CASE a \in underway /\ b \in underway
      BY <1>1, <2>1, <3>3 DEF NiIInv, RequestsAreOnce
    <3> QED
      BY <2>1, <3>1, <3>2, <3>3
  <2> QED
    BY <2>1 DEF AnsweredOnce
<1>2. ASSUME NiIInv PROVE AcceptServesOnce
  <2>1. /\ Cardinality(InCall) \in Nat /\ Cardinality(Received) \in Nat
        /\ Cardinality(Spoken) \in Nat /\ Cardinality(Told) \in Nat
        /\ Cardinality(Accepted) \in Nat
    BY <1>2, Countable DEF NiIInv, CountsAreNumbers
  <2>2. restarts = 0 => Cardinality(Told) <= Cardinality(Accepted)
    BY <1>2, <2>1 DEF NiIInv, AcceptsAddUp
  <2> QED
    BY <2>2 DEF AcceptServesOnce, Told, Accepted
<1>3. NiIInv => NiInv
  BY <1>1, <1>2 DEF NiIInv, NiInv
<1> QED
  BY <1>3, NiAlwaysSound, PTL

-----------------------------------------------------------------------------
(* The heap, for any objects and ranks and any pushes, pops and removals.  *)
(* A tree has finitely many places, with each the whole way to it; its     *)
(* nodes count their subtrees, are in order from the top down and hold     *)
(* different objects.  push() and pop() change the nodes on one way only:  *)
(* what a recursion of the code hands from node to node is a sequence      *)
(* along that way, and what holds of it is shown from number to number.    *)

\* Places are turns.

Places == Seq({"left", "right"})

\* What a prefix is.
LEMMA PrefixAt ==
  ASSUME NEW p \in Places, NEW q \in Places
  PROVE  IsPrefix(p, q) <=> Len(p) <= Len(q) /\ \A i \in 1 .. Len(p) : p[i] = q[i]
<1>1. CASE Len(p) <= Len(q)
  <2>1. SubSeq(q, 1, Len(p)) \in Places /\ Len(SubSeq(q, 1, Len(p))) = Len(p)
        /\ \A i \in 1 .. Len(p) : SubSeq(q, 1, Len(p))[i] = q[i]
    BY <1>1 DEF Places
  <2>2. SubSeq(p, 1, Len(p)) = p
    BY DEF Places
  <2>3. p = SubSeq(q, 1, Len(p)) <=> \A i \in 1 .. Len(p) : p[i] = q[i]
    BY <2>1, SeqEqual DEF Places
  <2> QED
    BY <1>1, <2>2, <2>3 DEF IsPrefix
<1>2. CASE ~(Len(p) <= Len(q))
  BY <1>2 DEF IsPrefix
<1> QED
  BY <1>1, <1>2

\* Prefixes order the places.
LEMMA PrefixOrder ==
  /\ \A p \in Places : IsPrefix(p, p) /\ IsPrefix(Top, p)
  /\ \A p, q, r \in Places : IsPrefix(p, q) /\ IsPrefix(q, r) => IsPrefix(p, r)
  /\ \A p, q \in Places : IsPrefix(p, q) /\ Len(q) <= Len(p) => p = q
  /\ \A p, q, r \in Places : IsPrefix(p, r) /\ IsPrefix(q, r) /\ Len(p) <= Len(q) => IsPrefix(p, q)
<1>1. Top \in Places /\ Len(Top) = 0
  BY DEF Top, Places
<1>2. \A p \in Places : IsPrefix(p, p) /\ IsPrefix(Top, p)
  <2> SUFFICES ASSUME NEW p \in Places PROVE IsPrefix(p, p) /\ IsPrefix(Top, p)
    OBVIOUS
  <2>1. Len(p) \in Nat
    BY DEF Places
  <2> QED
    BY <1>1, <2>1, PrefixAt
<1>3. \A p, q, r \in Places : IsPrefix(p, q) /\ IsPrefix(q, r) => IsPrefix(p, r)
  <2> SUFFICES ASSUME NEW p \in Places, NEW q \in Places, NEW r \in Places, IsPrefix(p, q), IsPrefix(q, r)
               PROVE  IsPrefix(p, r)
    OBVIOUS
  <2>1. Len(p) \in Nat /\ Len(q) \in Nat /\ Len(r) \in Nat
    BY DEF Places
  <2>2. Len(p) <= Len(q) /\ Len(q) <= Len(r)
    BY PrefixAt
  <2>3. \A i \in 1 .. Len(p) : i \in 1 .. Len(q) /\ p[i] = q[i] /\ q[i] = r[i]
    BY <2>1, <2>2, PrefixAt
  <2> QED
    BY <2>1, <2>2, <2>3, PrefixAt
<1>4. \A p, q \in Places : IsPrefix(p, q) /\ Len(q) <= Len(p) => p = q
  <2> SUFFICES ASSUME NEW p \in Places, NEW q \in Places, IsPrefix(p, q), Len(q) <= Len(p) PROVE p = q
    OBVIOUS
  <2>1. Len(p) \in Nat /\ Len(q) \in Nat
    BY DEF Places
  <2>2. Len(p) = Len(q) /\ \A i \in 1 .. Len(p) : p[i] = q[i]
    BY <2>1, PrefixAt
  <2> QED
    BY <2>2, SeqEqual DEF Places
<1>5. \A p, q, r \in Places : IsPrefix(p, r) /\ IsPrefix(q, r) /\ Len(p) <= Len(q) => IsPrefix(p, q)
  <2> SUFFICES ASSUME NEW p \in Places, NEW q \in Places, NEW r \in Places,
                      IsPrefix(p, r), IsPrefix(q, r), Len(p) <= Len(q)
               PROVE  IsPrefix(p, q)
    OBVIOUS
  <2>1. Len(p) \in Nat /\ Len(q) \in Nat
    BY DEF Places
  <2>2. \A i \in 1 .. Len(p) : i \in 1 .. Len(q) /\ p[i] = r[i] /\ q[i] = r[i]
    BY <2>1, PrefixAt
  <2> QED
    BY <2>1, <2>2, PrefixAt
<1> QED
  BY <1>2, <1>3, <1>4, <1>5

\* The places on the way to another.
LEMMA WayOf ==
  ASSUME NEW q \in Places, NEW n \in 0 .. Len(q)
  PROVE  /\ Way(q, n) \in Places /\ Len(Way(q, n)) = n /\ IsPrefix(Way(q, n), q)
         /\ n < Len(q) => Way(q, n + 1) \in {mLeft(Way(q, n)), mRight(Way(q, n))}
         /\ n = Len(q) => Way(q, n) = q
<1>1. Len(q) \in Nat
  BY DEF Places
<1>2. Way(q, n) \in Places /\ Len(Way(q, n)) = n /\ \A i \in 1 .. n : Way(q, n)[i] = q[i]
  BY <1>1 DEF Places, Way
<1>3. IsPrefix(Way(q, n), q)
  BY <1>1, <1>2, PrefixAt
<1>4. ASSUME n < Len(q) PROVE Way(q, n + 1) \in {mLeft(Way(q, n)), mRight(Way(q, n))}
  <2>1. n + 1 \in 1 .. Len(q) /\ q[n + 1] \in {"left", "right"}
    BY <1>1, <1>4 DEF Places
  <2>2. Way(q, n + 1) \in Places /\ Len(Way(q, n + 1)) = n + 1 /\ \A i \in 1 .. n + 1 : Way(q, n + 1)[i] = q[i]
    BY <1>1, <2>1 DEF Places, Way
  <2>3. Append(Way(q, n), q[n + 1]) \in Places /\ Len(Append(Way(q, n), q[n + 1])) = n + 1
        /\ \A i \in 1 .. n : Append(Way(q, n), q[n + 1])[i] = q[i]
        /\ Append(Way(q, n), q[n + 1])[n + 1] = q[n + 1]
    BY <1>2, <2>1 DEF Places
  <2>4. \A i \in 1 .. n + 1 : Append(Way(q, n), q[n + 1])[i] = q[i]
    BY <2>3
  <2>5. Way(q, n + 1) = Append(Way(q, n), q[n + 1])
    BY <2>2, <2>3, <2>4, SeqEqual DEF Places
  <2> QED
    BY <2>1, <2>5 DEF mLeft, mRight
<1>5. ASSUME n = Len(q) PROVE Way(q, n) = q
  BY <1>2, <1>3, <1>5, PrefixOrder
<1> QED
  BY <1>2, <1>3, <1>4, <1>5

\* The two places below a place.
LEMMA Children ==
  ASSUME NEW p \in Places, NEW c \in {mLeft(p), mRight(p)}
  PROVE  /\ c \in Places /\ Len(c) = Len(p) + 1 /\ IsPrefix(p, c)
         /\ mLeft(p) # mRight(p)
         /\ Way(c, Len(p)) = p
         /\ \A q \in Places : IsPrefix(q, c) => q = c \/ IsPrefix(q, p)
<1>1. PICK s \in {"left", "right"} : c = Append(p, s)
  BY DEF mLeft, mRight
<1>2. Len(p) \in Nat
  BY DEF Places
<1>3. c \in Places /\ Len(c) = Len(p) + 1 /\ (\A i \in 1 .. Len(p) : c[i] = p[i]) /\ c[Len(p) + 1] = s
  BY <1>1, <1>2 DEF Places
<1>4. IsPrefix(p, c)
  BY <1>2, <1>3, PrefixAt
<1>5. mLeft(p) # mRight(p)
  <2>1. mLeft(p)[Len(p) + 1] = "left" /\ mRight(p)[Len(p) + 1] = "right"
    BY <1>2 DEF mLeft, mRight, Places
  <2> QED
    BY <2>1
<1>6. Way(c, Len(p)) = p
  <2>1. Len(p) \in 0 .. Len(c)
    BY <1>2, <1>3
  <2>2. Way(c, Len(p)) \in Places /\ Len(Way(c, Len(p))) = Len(p) /\ IsPrefix(Way(c, Len(p)), c)
    BY <1>3, <2>1, WayOf
  <2>3. IsPrefix(Way(c, Len(p)), p)
    BY <1>2, <1>3, <1>4, <2>2, PrefixOrder
  <2> QED
    BY <1>2, <2>2, <2>3, PrefixOrder
<1>7. ASSUME NEW q \in Places, IsPrefix(q, c) PROVE q = c \/ IsPrefix(q, p)
  <2>1. Len(q) \in Nat /\ Len(q) <= Len(c)
    BY <1>3, <1>7, PrefixAt DEF Places
  <2>2. CASE Len(q) = Len(c)
    BY <1>3, <1>7, <2>1, <2>2, PrefixOrder
  <2>3. CASE Len(q) <= Len(p)
    BY <1>3, <1>4, <1>7, <2>3, PrefixOrder
  <2> QED
    BY <1>2, <1>3, <2>1, <2>2, <2>3
<1> QED
  BY <1>3, <1>4, <1>5, <1>6, <1>7

\* The step from a place to another below it.
LEMMA StepDown ==
  ASSUME NEW p \in Places, NEW q \in Places, IsPrefix(p, q), p # q
  PROVE  /\ Len(p) < Len(q) /\ Len(p) \in 0 .. Len(q) - 1 /\ p = Way(q, Len(p))
         /\ Way(q, Len(p) + 1) \in {mLeft(p), mRight(p)}
         /\ Way(q, Len(p) + 1) \in Places /\ IsPrefix(Way(q, Len(p) + 1), q)
<1>1. Len(p) \in Nat /\ Len(q) \in Nat /\ Len(p) <= Len(q)
  BY PrefixAt DEF Places
<1>2. Len(p) < Len(q)
  BY <1>1, PrefixOrder
<1>3. Len(p) \in 0 .. Len(q) /\ Len(p) + 1 \in 0 .. Len(q)
  BY <1>1, <1>2
<1>4. Way(q, Len(p)) \in Places /\ Len(Way(q, Len(p))) = Len(p) /\ IsPrefix(Way(q, Len(p)), q)
  BY <1>3, WayOf
<1>5. IsPrefix(p, Way(q, Len(p)))
  BY <1>1, <1>4, PrefixOrder
<1>6. p = Way(q, Len(p))
  BY <1>1, <1>4, <1>5, PrefixOrder
<1>7. Way(q, Len(p) + 1) \in {mLeft(Way(q, Len(p))), mRight(Way(q, Len(p)))}
  BY <1>2, <1>3, WayOf
<1>8. Way(q, Len(p) + 1) \in Places /\ IsPrefix(Way(q, Len(p) + 1), q)
  BY <1>3, WayOf
<1>9. Way(q, Len(p) + 1) \in {mLeft(p), mRight(p)}
  BY <1>6, <1>7
<1> QED
  BY <1>1, <1>2, <1>6, <1>8, <1>9

\* What holds at 0, and is passed on, holds up to any number.
LEMMA UpToNumber ==
  ASSUME NEW N \in Nat, NEW S, 0 \in S, \A n \in 0 .. N - 1 : n \in S => n + 1 \in S
  PROVE  \A n \in 0 .. N : n \in S
<1> DEFINE T == {n \in 0 .. N : n \notin S}
<1>1. SUFFICES ASSUME T # {} PROVE FALSE
  OBVIOUS
<1>2. T \in SUBSET Nat
  OBVIOUS
<1>3. PICK m \in T : \A k \in T : m <= k
  BY <1>1, <1>2, LeastNumber
<1>4. m \in 0 .. N /\ m # 0
  OBVIOUS
<1>5. m - 1 \in 0 .. N - 1 /\ m - 1 \notin T
  BY <1>3, <1>4
<1>6. m - 1 \in S
  BY <1>5
<1>7. (m - 1) + 1 \in S
  BY <1>5, <1>6
<1>8. (m - 1) + 1 = m
  BY <1>4
<1> QED
  BY <1>7, <1>8

\* What is handed on from number to number.
Hands(g, x, N, step) == g[0] = x /\ \A n \in 1 .. N : g[n] = step[n][g[n - 1]]

LEMMA HandedOn ==
  ASSUME NEW S, NEW x \in S, NEW N \in Nat, NEW step \in [1 .. N -> [S -> S]]
  PROVE  \E g \in [0 .. N -> S] : Hands(g, x, N, step)
<1> DEFINE Good(n) == \E g \in [0 .. n -> S] : g[0] = x /\ \A k \in 1 .. n : g[k] = step[k][g[k - 1]]
<1> DEFINE T == {n \in 0 .. N : Good(n)}
<1>1. 0 \in T
  <2>1. Good(0)
    <3> DEFINE h == [k \in 0 .. 0 |-> x]
    <3>1. h \in [0 .. 0 -> S] /\ h[0] = x /\ \A k \in 1 .. 0 : h[k] = step[k][h[k - 1]]
      OBVIOUS
    <3> HIDE DEF h
    <3> QED
      BY <3>1
  <2> QED
    BY <2>1
<1>2. ASSUME NEW n \in 0 .. N - 1, n \in T PROVE n + 1 \in T
  <2>1. PICK g \in [0 .. n -> S] : g[0] = x /\ \A k \in 1 .. n : g[k] = step[k][g[k - 1]]
    BY <1>2
  <2>2. n + 1 \in 1 .. N /\ n + 1 \in 0 .. N
    OBVIOUS
  <2> DEFINE h == [k \in 0 .. n + 1 |-> IF k = n + 1 THEN step[n + 1][g[n]] ELSE g[k]]
  <2>3. h \in [0 .. n + 1 -> S]
    <3>1. g[n] \in S
      BY <2>1
    <3>2. step[n + 1][g[n]] \in S
      BY <2>2, <3>1
    <3>3. \A k \in 0 .. n + 1 : k # n + 1 => k \in 0 .. n
      OBVIOUS
    <3> QED
      BY <3>2, <3>3
  <2>4. h[0] = x
    BY <2>1
  <2>5. ASSUME NEW k \in 1 .. n + 1 PROVE h[k] = step[k][h[k - 1]]
    <3>1. CASE k = n + 1
      BY <3>1
    <3>2. CASE k # n + 1
      <4>1. k \in 1 .. n /\ k \in 0 .. n + 1 /\ k - 1 \in 0 .. n + 1 /\ k - 1 # n + 1
        BY <3>2
      <4>2. h[k] = g[k] /\ h[k - 1] = g[k - 1]
        BY <3>2, <4>1
      <4> QED
        BY <2>1, <4>1, <4>2
    <3> QED
      BY <3>1, <3>2
  <2>6. Good(n + 1)
    <3> HIDE DEF h
    <3> QED
      BY <2>3, <2>4, <2>5
  <2> QED
    BY <2>2, <2>6
<1>3. N \in T
  <2>1. \A n \in 0 .. N - 1 : n \in T => n + 1 \in T
    BY <1>2
  <2> HIDE DEF T
  <2>2. \A n \in 0 .. N : n \in T
    BY <1>1, <2>1, UpToNumber
  <2> QED
    BY <2>2
<1> QED
  BY <1>3 DEF Hands

-----------------------------------------------------------------------------
(* Trees. *)

IsTree(t) ==
  /\ IsFiniteSet(DOMAIN t) /\ DOMAIN t \subseteq Places
  /\ t \in [DOMAIN t -> [data : Rankables, size : Nat]]
  /\ \A q \in DOMAIN t, p \in Places : IsPrefix(p, q) => p \in DOMAIN t

Sized(t)     == \A p \in DOMAIN t : t[p].size = 1 + mSize(t, mLeft(p)) + mSize(t, mRight(p))
Ordered(t)   == \A p, q \in DOMAIN t : IsPrefix(p, q) => Rank[t[q].data] <= Rank[t[p].data]
Different(t) == \A p, q \in DOMAIN t : t[p].data = t[q].data => p = q
Objects(t)   == {t[p].data : p \in DOMAIN t}

IsHeap(t) == IsTree(t) /\ Sized(t) /\ Ordered(t) /\ Different(t)

\* A place that is free has the way to it taken, and nothing below.
LEMMA FreePlace ==
  ASSUME NEW t, IsTree(t), NEW e \in Free(t)
  PROVE  /\ e \in Places /\ e \notin DOMAIN t
         /\ \A p \in Places : IsPrefix(p, e) /\ p # e => p \in DOMAIN t
         /\ \A p \in DOMAIN t : ~IsPrefix(e, p)
<1>1. e \notin DOMAIN t /\ (e = Top \/ \E p \in DOMAIN t : e \in {mLeft(p), mRight(p)})
  BY DEF Free
<1>2. CASE e = Top
  <2>1. e \in Places /\ Len(e) = 0
    BY <1>2 DEF Top, Places
  <2>2. \A p \in Places : IsPrefix(p, e) => p = e
    BY <1>2, <2>1, PrefixOrder, PrefixAt DEF Places
  <2>3. \A p \in DOMAIN t : ~IsPrefix(e, p)
    BY <1>1, <2>1 DEF IsTree
  <2> QED
    BY <1>1, <2>1, <2>2, <2>3
<1>3. ASSUME NEW q \in DOMAIN t, e \in {mLeft(q), mRight(q)} PROVE
         /\ e \in Places
         /\ \A p \in Places : IsPrefix(p, e) /\ p # e => p \in DOMAIN t
         /\ \A p \in DOMAIN t : ~IsPrefix(e, p)
  <2>1. q \in Places
    BY DEF IsTree
  <2>2. e \in Places /\ \A p \in Places : IsPrefix(p, e) => p = e \/ IsPrefix(p, q)
    BY <1>3, <2>1, Children
  <2> QED
    BY <1>1, <2>2 DEF IsTree
<1> QED
  BY <1>1, <1>2, <1>3

-----------------------------------------------------------------------------
(* push() *)

\* The objects on the way of a push: at each node the higher one stays, k, and the
\* lower one goes on, o.  Those that were there before, h, are in order and differ.
Meets(N, h, o, k) ==
  /\ \A n \in 0 .. N - 1 :
       \/ OutRanks(o[n], h[n]) /\ k[n] = o[n] /\ o[n + 1] = h[n]
       \/ ~OutRanks(o[n], h[n]) /\ k[n] = h[n] /\ o[n + 1] = o[n]
  /\ \A m, n \in 0 .. N - 1 : m <= n => Rank[h[n]] <= Rank[h[m]]
  /\ \A m, n \in 0 .. N - 1 : h[m] = h[n] => m = n
  /\ \A n \in 0 .. N - 1 : h[n] # o[0]

\* Those that stay, and the last that goes on, are the old ones and the new one, in the
\* order of their ranks.
Settles(N, h, o, k) ==
  /\ \A m, n \in 0 .. N - 1 : m <= n => Rank[k[n]] <= Rank[k[m]]
  /\ \A n \in 0 .. N - 1 : Rank[h[n]] <= Rank[k[n]] /\ Rank[o[N]] <= Rank[k[n]]
  /\ {k[n] : n \in 0 .. N - 1} \cup {o[N]} = {h[n] : n \in 0 .. N - 1} \cup {o[0]}
  /\ \A m, n \in 0 .. N - 1 : k[m] = k[n] => m = n
  /\ \A n \in 0 .. N - 1 : k[n] # o[N]

LEMMA Cascade ==
  ASSUME NEW N \in Nat, NEW h \in [0 .. N - 1 -> Rankables], NEW o \in [0 .. N -> Rankables],
         NEW k \in [0 .. N - 1 -> Rankables], Meets(N, h, o, k)
  PROVE  Settles(N, h, o, k)
<1>00. \A n \in 0 .. N - 1 :
         \/ OutRanks(o[n], h[n]) /\ k[n] = o[n] /\ o[n + 1] = h[n]
         \/ ~OutRanks(o[n], h[n]) /\ k[n] = h[n] /\ o[n + 1] = o[n]
  BY DEF Meets
<1>01. \A m, n \in 0 .. N - 1 : m <= n => Rank[h[n]] <= Rank[h[m]]
  BY DEF Meets
<1>02. (\A m, n \in 0 .. N - 1 : h[m] = h[n] => m = n) /\ \A n \in 0 .. N - 1 : h[n] # o[0]
  BY DEF Meets
<1>0. \A d \in Rankables : Rank[d] \in Nat
  BY HeapAssumption
<1>1. ASSUME NEW n \in 0 .. N - 1
      PROVE  /\ Rank[h[n]] <= Rank[k[n]] /\ Rank[o[n]] <= Rank[k[n]] /\ Rank[o[n + 1]] <= Rank[k[n]]
             /\ Rank[o[n + 1]] <= Rank[o[n]]
             /\ \/ k[n] = o[n] /\ o[n + 1] = h[n]
                \/ k[n] = h[n] /\ o[n + 1] = o[n]
             /\ n \in 0 .. N /\ n + 1 \in 0 .. N
  <2>1. n \in 0 .. N /\ n + 1 \in 0 .. N
    OBVIOUS
  <2>2. Rank[h[n]] \in Nat /\ Rank[o[n]] \in Nat
    BY <1>0, <2>1
  <2>3. CASE OutRanks(o[n], h[n]) /\ k[n] = o[n] /\ o[n + 1] = h[n]
    BY <2>1, <2>2, <2>3 DEF OutRanks
  <2>4. CASE ~OutRanks(o[n], h[n]) /\ k[n] = h[n] /\ o[n + 1] = o[n]
    BY <2>1, <2>2, <2>4 DEF OutRanks
  <2> QED
    BY <1>00, <2>3, <2>4
<1>2. \A n \in 0 .. N, m \in 0 .. N : m <= n => Rank[o[n]] <= Rank[o[m]]
  <2> DEFINE S == {n \in 0 .. N : \A m \in 0 .. N : m <= n => Rank[o[n]] <= Rank[o[m]]}
  <2>1. 0 \in S
    <3> SUFFICES ASSUME NEW m \in 0 .. N, m <= 0 PROVE Rank[o[0]] <= Rank[o[m]]
      OBVIOUS
    <3>1. m = 0 /\ Rank[o[0]] \in Nat
      BY <1>0
    <3> QED
      BY <3>1
  <2>2. ASSUME NEW n \in 0 .. N - 1, n \in S PROVE n + 1 \in S
    <3>1. n + 1 \in 0 .. N /\ n \in 0 .. N
      OBVIOUS
    <3> SUFFICES ASSUME NEW m \in 0 .. N, m <= n + 1 PROVE Rank[o[n + 1]] <= Rank[o[m]]
      BY <3>1
    <3>2. Rank[o[m]] \in Nat /\ Rank[o[n]] \in Nat /\ Rank[o[n + 1]] \in Nat
      BY <1>0, <3>1
    <3>3. CASE m = n + 1
      BY <3>2, <3>3
    <3>4. CASE m <= n
      BY <1>1, <2>2, <3>2, <3>4
    <3> QED
      BY <3>3, <3>4
  <2> HIDE DEF S
  <2>3. \A n \in 0 .. N : n \in S
    BY <2>1, <2>2, UpToNumber
  <2> QED
    BY <2>3 DEF S
<1>3. ASSUME NEW m \in 0 .. N - 1, NEW n \in 0 .. N - 1, m <= n PROVE Rank[k[n]] <= Rank[k[m]]
  <2>1. Rank[k[n]] \in Nat /\ Rank[k[m]] \in Nat /\ Rank[h[m]] \in Nat /\ Rank[h[n]] \in Nat
    BY <1>0
  <2>2. CASE m = n
    BY <2>1, <2>2
  <2>3. CASE m < n
    <3>1. m + 1 \in 0 .. N /\ n \in 0 .. N /\ m + 1 <= n
      BY <2>3
    <3>2. Rank[o[m + 1]] \in Nat /\ Rank[o[n]] \in Nat
      BY <1>0, <3>1
    <3>3. Rank[o[n]] <= Rank[o[m + 1]] /\ Rank[o[m + 1]] <= Rank[k[m]]
      BY <1>1, <1>2, <3>1
    <3>4. Rank[h[n]] <= Rank[h[m]] /\ Rank[h[m]] <= Rank[k[m]]
      BY <1>01, <1>1, <1>3
    <3>5. k[n] = o[n] \/ k[n] = h[n]
      BY <1>1
    <3> QED
      BY <2>1, <3>2, <3>3, <3>4, <3>5
  <2> QED
    BY <1>3, <2>2, <2>3
<1>4. ASSUME NEW n \in 0 .. N - 1 PROVE Rank[o[N]] <= Rank[k[n]]
  <2>1. n + 1 \in 0 .. N /\ N \in 0 .. N /\ n + 1 <= N
    OBVIOUS
  <2>2. Rank[o[N]] \in Nat /\ Rank[o[n + 1]] \in Nat /\ Rank[k[n]] \in Nat
    BY <1>0, <2>1
  <2>3. Rank[o[N]] <= Rank[o[n + 1]] /\ Rank[o[n + 1]] <= Rank[k[n]]
    BY <1>1, <1>2, <2>1
  <2> QED
    BY <2>2, <2>3
<1> DEFINE Kept(n) == {k[m] : m \in 0 .. n - 1}
<1> DEFINE Had(n) == {h[m] : m \in 0 .. n - 1}
<1> DEFINE S == {n \in 0 .. N : /\ Kept(n) \cup {o[n]} = Had(n) \cup {o[0]}
                                /\ o[n] \notin Kept(n)
                                /\ \A i, j \in 0 .. n - 1 : k[i] = k[j] => i = j}
<1>5. 0 \in S
  OBVIOUS
<1>6. ASSUME NEW n \in 0 .. N - 1, n \in S PROVE n + 1 \in S
  <2>1. n + 1 \in 0 .. N /\ n \in 0 .. N /\ (n + 1) - 1 = n /\ 0 .. n = (0 .. n - 1) \cup {n}
    OBVIOUS
  <2>2. Kept(n + 1) = Kept(n) \cup {k[n]} /\ Had(n + 1) = Had(n) \cup {h[n]}
    BY <2>1
  <2>3. h[n] \notin Had(n) /\ h[n] # o[0]
    <3>1. \A m \in 0 .. n - 1 : m \in 0 .. N - 1 /\ m # n
      OBVIOUS
    <3> QED
      BY <1>02, <3>1
  <2>4. h[n] \notin Kept(n) /\ h[n] # o[n]
    BY <1>6, <2>3
  <2>5. k[n] \notin Kept(n)
    BY <1>1, <1>6, <2>4
  <2>6. o[n + 1] \notin Kept(n) /\ o[n + 1] # k[n]
    BY <1>1, <1>6, <2>4
  <2>7. Kept(n + 1) \cup {o[n + 1]} = Had(n + 1) \cup {o[0]}
    <3>1. {k[n], o[n + 1]} = {o[n], h[n]}
      BY <1>1
    <3>2. Kept(n) \cup {o[n]} = Had(n) \cup {o[0]}
      BY <1>6
    <3> HIDE DEF Kept, Had
    <3> QED
      BY <2>2, <3>1, <3>2
  <2>8. ASSUME NEW i \in 0 .. (n + 1) - 1, NEW j \in 0 .. (n + 1) - 1, k[i] = k[j] PROVE i = j
    <3>1. (i \in 0 .. n - 1 \/ i = n) /\ (j \in 0 .. n - 1 \/ j = n)
      BY <2>1
    <3>2. \A m \in 0 .. n - 1 : k[m] # k[n]
      BY <2>5
    <3>3. \A a, b \in 0 .. n - 1 : k[a] = k[b] => a = b
      BY <1>6
    <3> QED
      BY <2>8, <3>1, <3>2, <3>3
  <2>9. o[n + 1] \notin Kept(n + 1)
    BY <2>2, <2>6
  <2> QED
    BY <2>1, <2>7, <2>8, <2>9
<1>7. N \in S
  <2>1. \A n \in 0 .. N - 1 : n \in S => n + 1 \in S
    BY <1>6
  <2> HIDE DEF S
  <2>2. \A n \in 0 .. N : n \in S
    BY <1>5, <2>1, UpToNumber
  <2> QED
    BY <2>2
<1>8. /\ Kept(N) \cup {o[N]} = Had(N) \cup {o[0]} /\ o[N] \notin Kept(N)
      /\ \A i, j \in 0 .. N - 1 : k[i] = k[j] => i = j
  BY <1>7
<1>9. \A n \in 0 .. N - 1 : k[n] \in Kept(N)
  OBVIOUS
<1>10. \A n \in 0 .. N - 1 : k[n] # o[N]
  <2> HIDE DEF Kept, Had, S
  <2> QED
    BY <1>8, <1>9
<1>11. {k[n] : n \in 0 .. N - 1} \cup {o[N]} = {h[n] : n \in 0 .. N - 1} \cup {o[0]}
  BY <1>8
<1> HIDE DEF S, Kept, Had
<1> QED
  BY <1>1, <1>3, <1>4, <1>8, <1>10, <1>11 DEF Settles

\* The recursion of push() has a solution.
LEMMA Arriving ==
  ASSUME NEW t, IsTree(t), NEW d \in Rankables, NEW e \in Places,
         \A n \in 0 .. Len(e) - 1 : Way(e, n) \in DOMAIN t,
         NEW o, o = Arrives(t, e, d)
  PROVE  /\ o \in [0 .. Len(e) -> Rankables] /\ o[0] = d
         /\ \A n \in 1 .. Len(e) :
              o[n] = IF OutRanks(o[n - 1], t[Way(e, n - 1)].data) THEN t[Way(e, n - 1)].data ELSE o[n - 1]
<1>1. PICK N \in Nat : N = Len(e)
  BY DEF Places
<1> DEFINE H(n) == t[Way(e, n - 1)].data
<1>2. \A n \in 1 .. N : H(n) \in Rankables
  <2> SUFFICES ASSUME NEW n \in 1 .. N PROVE H(n) \in Rankables
    OBVIOUS
  <2>1. n - 1 \in 0 .. N - 1
    OBVIOUS
  <2>2. Way(e, n - 1) \in DOMAIN t
    BY <1>1, <2>1
  <2> QED
    BY <2>2 DEF IsTree
<1> HIDE DEF H
<1>3. PICK step \in [1 .. N -> [Rankables -> Rankables]] :
        \A n \in 1 .. N, x \in Rankables : step[n][x] = IF OutRanks(x, H(n)) THEN H(n) ELSE x
  <2> DEFINE f == [n \in 1 .. N |-> [x \in Rankables |-> IF OutRanks(x, H(n)) THEN H(n) ELSE x]]
  <2>1. f \in [1 .. N -> [Rankables -> Rankables]]
    BY <1>2
  <2>2. \A n \in 1 .. N, x \in Rankables : f[n][x] = IF OutRanks(x, H(n)) THEN H(n) ELSE x
    OBVIOUS
  <2> HIDE DEF f
  <2> QED
    BY <2>1, <2>2
<1>4. \A n \in 1 .. N, x \in Rankables : step[n][x] = IF OutRanks(x, H(n)) THEN H(n) ELSE x
  BY <1>3
<1>5. PICK g \in [0 .. N -> Rankables] : g[0] = d /\ \A n \in 1 .. N : g[n] = step[n][g[n - 1]]
  <2>1. \E g \in [0 .. N -> Rankables] : Hands(g, d, N, step)
    BY HandedOn
  <2> QED
    BY <2>1 DEF Hands
<1> DEFINE Solves(f) == f = [n \in 0 .. N |-> IF n = 0 THEN d ELSE IF OutRanks(f[n - 1], H(n)) THEN H(n) ELSE f[n - 1]]
<1>6. Solves(g)
  <2>1. ASSUME NEW n \in 1 .. N PROVE g[n] = IF OutRanks(g[n - 1], H(n)) THEN H(n) ELSE g[n - 1]
    <3>1. n - 1 \in 0 .. N
      OBVIOUS
    <3>2. g[n - 1] \in Rankables
      BY <3>1
    <3> QED
      BY <1>4, <1>5, <3>2
  <2>2. \A n \in 0 .. N : g[n] = IF n = 0 THEN d ELSE IF OutRanks(g[n - 1], H(n)) THEN H(n) ELSE g[n - 1]
    BY <1>5, <2>1
  <2> QED
    BY <2>2
<1>7. o = CHOOSE f : Solves(f)
  BY <1>1 DEF Arrives, H
<1>8. Solves(o)
  <2> HIDE DEF Solves
  <2> QED
    BY <1>6, <1>7
<1>9. /\ DOMAIN o = 0 .. N /\ o[0] = d
      /\ \A n \in 1 .. N : o[n] = IF OutRanks(o[n - 1], H(n)) THEN H(n) ELSE o[n - 1]
  BY <1>8
<1>10. o \in [0 .. N -> Rankables]
  <2> DEFINE S == {n \in 0 .. N : o[n] \in Rankables}
  <2>1. 0 \in S
    BY <1>9
  <2>2. ASSUME NEW n \in 0 .. N - 1, n \in S PROVE n + 1 \in S
    <3>1. n + 1 \in 1 .. N /\ (n + 1) - 1 = n
      OBVIOUS
    <3>2. o[n + 1] = IF OutRanks(o[n], H(n + 1)) THEN H(n + 1) ELSE o[n]
      BY <1>9, <3>1
    <3> QED
      BY <1>2, <2>2, <3>1, <3>2
  <2>3. \A n \in 0 .. N : n \in S
    <3> HIDE DEF S
    <3> QED
      BY <2>1, <2>2, UpToNumber
  <2>4. o = [n \in 0 .. N |-> o[n]]
    BY <1>8
  <2> QED
    BY <2>3, <2>4
<1> QED
  BY <1>1, <1>9, <1>10 DEF H

\* What a push does to the nodes: those on the way to e keep the higher object and
\* count one more.
Pushed(t, e, u) ==
  /\ DOMAIN u = DOMAIN t \cup {e} /\ e \in Places
  /\ \A n \in 0 .. Len(e) - 1 : Way(e, n) \in DOMAIN t /\ IsPrefix(Way(e, n), e) /\ Len(Way(e, n)) = n
  /\ \A p \in DOMAIN t : IsPrefix(p, e) => p # e /\ Len(p) \in 0 .. Len(e) - 1 /\ p = Way(e, Len(p))
  /\ \A p \in DOMAIN t : ~IsPrefix(p, e) => u[p] = t[p]
  /\ \A p \in DOMAIN t : IsPrefix(p, e) => u[p].size = t[p].size + 1
  /\ u[e].size = 1

Cascades(t, d, e, u, o, k) ==
  /\ o[0] = d /\ u[e] = Leaf(o[Len(e)])
  /\ \A n \in 0 .. Len(e) - 1 :
       /\ u[Way(e, n)] = [data |-> k[n], size |-> t[Way(e, n)].size + 1]
       /\ \/ OutRanks(o[n], t[Way(e, n)].data) /\ k[n] = o[n] /\ o[n + 1] = t[Way(e, n)].data
          \/ ~OutRanks(o[n], t[Way(e, n)].data) /\ k[n] = t[Way(e, n)].data /\ o[n + 1] = o[n]

LEMMA PushNodes ==
  ASSUME NEW t, IsTree(t), NEW d \in Rankables, NEW e \in Free(t), NEW u, u = PushNode(t, e, d)
  PROVE  /\ Pushed(t, e, u)
         /\ \E o \in [0 .. Len(e) -> Rankables], k \in [0 .. Len(e) - 1 -> Rankables] : Cascades(t, d, e, u, o, k)
<1>1. /\ e \in Places /\ e \notin DOMAIN t
      /\ \A p \in Places : IsPrefix(p, e) /\ p # e => p \in DOMAIN t
  BY FreePlace
<1>2. PICK N \in Nat : N = Len(e)
  BY <1>1 DEF Places
<1>3. \A n \in 0 .. N - 1 : Way(e, n) \in DOMAIN t /\ IsPrefix(Way(e, n), e) /\ Len(Way(e, n)) = n
  <2> SUFFICES ASSUME NEW n \in 0 .. N - 1
               PROVE  Way(e, n) \in DOMAIN t /\ IsPrefix(Way(e, n), e) /\ Len(Way(e, n)) = n
    OBVIOUS
  <2>1. n \in 0 .. Len(e) /\ n # N
    BY <1>2
  <2>2. Way(e, n) \in Places /\ Len(Way(e, n)) = n /\ IsPrefix(Way(e, n), e)
    BY <1>1, <2>1, WayOf
  <2>3. Way(e, n) # e
    BY <1>2, <2>1, <2>2
  <2> QED
    BY <1>1, <2>2, <2>3
<1>4. \A p \in DOMAIN t : IsPrefix(p, e) => p # e /\ Len(p) \in 0 .. N - 1 /\ p = Way(e, Len(p))
  <2> SUFFICES ASSUME NEW p \in DOMAIN t, IsPrefix(p, e) PROVE p # e /\ Len(p) \in 0 .. N - 1 /\ p = Way(e, Len(p))
    OBVIOUS
  <2>1. p \in Places /\ p # e
    BY <1>1 DEF IsTree
  <2> QED
    BY <1>1, <1>2, <2>1, StepDown
<1>5. PICK o : o = Arrives(t, e, d)
  OBVIOUS
<1>6. /\ o \in [0 .. N -> Rankables] /\ o[0] = d
      /\ \A n \in 1 .. N :
           o[n] = IF OutRanks(o[n - 1], t[Way(e, n - 1)].data) THEN t[Way(e, n - 1)].data ELSE o[n - 1]
  <2>1. \A n \in 0 .. Len(e) - 1 : Way(e, n) \in DOMAIN t
    BY <1>2, <1>3
  <2> QED
    BY <1>1, <1>2, <1>5, <2>1, Arriving
<1> DEFINE Keeps(p) == IF OutRanks(o[Len(p)], t[p].data) THEN o[Len(p)] ELSE t[p].data
<1>7. u = [p \in DOMAIN t \cup {e} |->
             IF p = e THEN Leaf(o[N])
             ELSE IF IsPrefix(p, e) THEN [data |-> Keeps(p), size |-> t[p].size + 1]
             ELSE t[p]]
  BY <1>2, <1>5 DEF PushNode
<1>8. DOMAIN u = DOMAIN t \cup {e} /\ u[e] = Leaf(o[N]) /\ u[e].size = 1
  BY <1>7 DEF Leaf
<1>9. \A p \in DOMAIN t : p # e /\ (~IsPrefix(p, e) => u[p] = t[p])
        /\ (IsPrefix(p, e) => u[p] = [data |-> Keeps(p), size |-> t[p].size + 1])
  BY <1>1, <1>7
<1> DEFINE k == [n \in 0 .. N - 1 |-> Keeps(Way(e, n))]
<1>10. \A n \in 0 .. N - 1 :
         /\ k[n] = Keeps(Way(e, n)) /\ k[n] \in Rankables
         /\ u[Way(e, n)] = [data |-> k[n], size |-> t[Way(e, n)].size + 1]
         /\ \/ OutRanks(o[n], t[Way(e, n)].data) /\ k[n] = o[n] /\ o[n + 1] = t[Way(e, n)].data
            \/ ~OutRanks(o[n], t[Way(e, n)].data) /\ k[n] = t[Way(e, n)].data /\ o[n + 1] = o[n]
  <2> SUFFICES ASSUME NEW n \in 0 .. N - 1
               PROVE  /\ k[n] = Keeps(Way(e, n)) /\ k[n] \in Rankables
                      /\ u[Way(e, n)] = [data |-> k[n], size |-> t[Way(e, n)].size + 1]
                      /\ \/ OutRanks(o[n], t[Way(e, n)].data) /\ k[n] = o[n] /\ o[n + 1] = t[Way(e, n)].data
                         \/ ~OutRanks(o[n], t[Way(e, n)].data) /\ k[n] = t[Way(e, n)].data /\ o[n + 1] = o[n]
    OBVIOUS
  <2>1. n \in 0 .. N /\ n + 1 \in 1 .. N /\ (n + 1) - 1 = n
    OBVIOUS
  <2>2. o[n] \in Rankables /\ o[n + 1] = IF OutRanks(o[n], t[Way(e, n)].data) THEN t[Way(e, n)].data ELSE o[n]
    BY <1>6, <2>1
  <2>3. Way(e, n) \in DOMAIN t /\ IsPrefix(Way(e, n), e) /\ Len(Way(e, n)) = n
    BY <1>3
  <2>4. t[Way(e, n)].data \in Rankables
    BY <2>3 DEF IsTree
  <2>5. k[n] = IF OutRanks(o[n], t[Way(e, n)].data) THEN o[n] ELSE t[Way(e, n)].data
    BY <2>3
  <2>6. u[Way(e, n)] = [data |-> k[n], size |-> t[Way(e, n)].size + 1]
    BY <1>9, <2>3
  <2> HIDE DEF k
  <2>7. k[n] = Keeps(Way(e, n))
    BY <2>3, <2>5
  <2> QED
    BY <2>2, <2>4, <2>5, <2>6, <2>7
<1>11. k \in [0 .. N - 1 -> Rankables]
  BY <1>10
<1> HIDE DEF k, Keeps
<1>12. ASSUME NEW p \in DOMAIN t, IsPrefix(p, e) PROVE u[p].size = t[p].size + 1
  <2>1. u[p] = [data |-> Keeps(p), size |-> t[p].size + 1]
    BY <1>9, <1>12
  <2> QED
    BY <2>1
<1>13. Cascades(t, d, e, u, o, k)
  BY <1>2, <1>6, <1>8, <1>10 DEF Cascades
<1>14. Pushed(t, e, u)
  BY <1>1, <1>2, <1>3, <1>4, <1>8, <1>9, <1>12 DEF Pushed
<1> QED
  BY <1>2, <1>6, <1>11, <1>13, <1>14

\* A child that is on the way to a place, and one that is not.
LEMMA OneChildOnTheWay ==
  ASSUME NEW p \in Places, NEW e \in Places
  PROVE  /\ ~IsPrefix(p, e) \/ p = e => ~IsPrefix(mLeft(p), e) /\ ~IsPrefix(mRight(p), e)
         /\ IsPrefix(p, e) /\ p # e =>
              \/ Way(e, Len(p) + 1) = mLeft(p) /\ IsPrefix(mLeft(p), e) /\ ~IsPrefix(mRight(p), e)
              \/ Way(e, Len(p) + 1) = mRight(p) /\ IsPrefix(mRight(p), e) /\ ~IsPrefix(mLeft(p), e)
<1>1. /\ mLeft(p) \in Places /\ mRight(p) \in Places /\ mLeft(p) # mRight(p)
      /\ IsPrefix(p, mLeft(p)) /\ IsPrefix(p, mRight(p))
      /\ Len(mLeft(p)) = Len(p) + 1 /\ Len(mRight(p)) = Len(p) + 1 /\ Len(p) \in Nat
  BY Children DEF Places
<1>2. ASSUME ~IsPrefix(p, e) PROVE ~IsPrefix(mLeft(p), e) /\ ~IsPrefix(mRight(p), e)
  BY <1>1, <1>2, PrefixOrder
<1>3. ASSUME p = e PROVE ~IsPrefix(mLeft(p), e) /\ ~IsPrefix(mRight(p), e)
  BY <1>1, <1>3, PrefixAt
<1>4. ~(IsPrefix(mLeft(p), e) /\ IsPrefix(mRight(p), e))
  <2> SUFFICES ASSUME IsPrefix(mLeft(p), e), IsPrefix(mRight(p), e) PROVE FALSE
    OBVIOUS
  <2>1. Len(mLeft(p)) <= Len(mRight(p)) /\ Len(mRight(p)) <= Len(mLeft(p))
    BY <1>1
  <2>2. IsPrefix(mLeft(p), mRight(p))
    BY <1>1, <2>1, PrefixOrder
  <2> QED
    BY <1>1, <2>1, <2>2, PrefixOrder
<1>5. ASSUME IsPrefix(p, e), p # e
      PROVE  \/ Way(e, Len(p) + 1) = mLeft(p) /\ IsPrefix(mLeft(p), e)
             \/ Way(e, Len(p) + 1) = mRight(p) /\ IsPrefix(mRight(p), e)
  <2>1. Way(e, Len(p) + 1) \in {mLeft(p), mRight(p)} /\ IsPrefix(Way(e, Len(p) + 1), e)
    BY <1>5, StepDown
  <2> QED
    BY <2>1
<1> QED
  BY <1>2, <1>3, <1>4, <1>5

\* What a push does to the sizes, and where.
LEMMA PushSizes ==
  ASSUME NEW t, IsTree(t), NEW d \in Rankables, NEW e \in Free(t), NEW u, u = PushNode(t, e, d)
  PROVE  \A c \in Places : mSize(t, c) \in Nat /\ mSize(u, c) = IF IsPrefix(c, e) THEN mSize(t, c) + 1 ELSE mSize(t, c)
<1> SUFFICES ASSUME NEW c \in Places
             PROVE  mSize(t, c) \in Nat /\ mSize(u, c) = IF IsPrefix(c, e) THEN mSize(t, c) + 1 ELSE mSize(t, c)
  OBVIOUS
<1>1. /\ DOMAIN u = DOMAIN t \cup {e} /\ e \in Places /\ u[e].size = 1
      /\ \A p \in DOMAIN t : ~IsPrefix(p, e) => u[p] = t[p]
      /\ \A p \in DOMAIN t : IsPrefix(p, e) => p # e /\ u[p].size = t[p].size + 1
  <2>1. Pushed(t, e, u)
    BY PushNodes
  <2> QED
    BY <2>1 DEF Pushed
<1>2. e \notin DOMAIN t /\ \A p \in Places : IsPrefix(p, e) /\ p # e => p \in DOMAIN t
  BY FreePlace
<1>3. \A p \in DOMAIN t : t[p].size \in Nat
  BY DEF IsTree
<1>4. CASE c = e
  <2>1. IsPrefix(c, e)
    BY <1>1, <1>4, PrefixOrder
  <2> QED
    BY <1>1, <1>2, <1>4, <2>1 DEF mSize
<1>5. CASE c # e /\ IsPrefix(c, e)
  BY <1>1, <1>2, <1>3, <1>5 DEF mSize
<1>6. CASE c # e /\ ~IsPrefix(c, e)
  BY <1>1, <1>3, <1>6 DEF mSize
<1> QED
  BY <1>4, <1>5, <1>6

\* A tree stays a tree.
LEMMA PushKeepsTree ==
  ASSUME NEW t, IsTree(t), NEW d \in Rankables, NEW e \in Free(t), NEW u, u = PushNode(t, e, d)
  PROVE  IsTree(u)
<1>1. /\ DOMAIN u = DOMAIN t \cup {e} /\ e \in Places
      /\ \A p \in DOMAIN t : IsPrefix(p, e) => Len(p) \in 0 .. Len(e) - 1 /\ p = Way(e, Len(p))
      /\ \A p \in DOMAIN t : ~IsPrefix(p, e) => u[p] = t[p]
  <2>1. Pushed(t, e, u)
    BY PushNodes
  <2> QED
    BY <2>1 DEF Pushed
<1>2. PICK o \in [0 .. Len(e) -> Rankables], k \in [0 .. Len(e) - 1 -> Rankables] : Cascades(t, d, e, u, o, k)
  BY PushNodes
<1>3. e \notin DOMAIN t /\ \A p \in Places : IsPrefix(p, e) /\ p # e => p \in DOMAIN t
  BY FreePlace
<1>4. IsFiniteSet(DOMAIN u) /\ DOMAIN u \subseteq Places
  BY <1>1, FS_AddElement DEF IsTree
<1>5. ASSUME NEW p \in DOMAIN u PROVE u[p] \in [data : Rankables, size : Nat]
  <2>1. CASE p = e
    <3>1. Len(e) \in 0 .. Len(e)
      BY <1>1 DEF Places
    <3> QED
      BY <1>2, <2>1, <3>1 DEF Cascades, Leaf
  <2>2. CASE p # e /\ IsPrefix(p, e)
    <3>1. p \in DOMAIN t /\ Len(p) \in 0 .. Len(e) - 1 /\ p = Way(e, Len(p))
      BY <1>1, <2>2
    <3>2. u[p] = [data |-> k[Len(p)], size |-> t[p].size + 1]
      BY <1>2, <3>1 DEF Cascades
    <3>3. k[Len(p)] \in Rankables /\ t[p].size \in Nat
      BY <3>1 DEF IsTree
    <3> QED
      BY <3>2, <3>3
  <2>3. CASE p # e /\ ~IsPrefix(p, e)
    BY <1>1, <2>3 DEF IsTree
  <2> QED
    BY <2>1, <2>2, <2>3
<1>6. u \in [DOMAIN u -> [data : Rankables, size : Nat]]
  <2>1. u = [p \in DOMAIN u |-> u[p]]
    BY DEF PushNode
  <2> QED
    BY <1>5, <2>1
<1>7. \A q \in DOMAIN u, p \in Places : IsPrefix(p, q) => p \in DOMAIN u
  BY <1>1, <1>3 DEF IsTree
<1> QED
  BY <1>4, <1>6, <1>7 DEF IsTree

\* The sizes stay right.
LEMMA PushKeepsSizes ==
  ASSUME NEW t, IsTree(t), Sized(t), NEW d \in Rankables, NEW e \in Free(t), NEW u, u = PushNode(t, e, d)
  PROVE  Sized(u)
<1>1. /\ DOMAIN u = DOMAIN t \cup {e} /\ e \in Places
      /\ \A p \in DOMAIN t : IsPrefix(p, e) => p # e
  <2>1. Pushed(t, e, u)
    BY PushNodes
  <2> QED
    BY <2>1 DEF Pushed
<1>2. \A c \in Places : mSize(t, c) \in Nat /\ mSize(u, c) = IF IsPrefix(c, e) THEN mSize(t, c) + 1 ELSE mSize(t, c)
  BY PushSizes
<1>3. \A p \in DOMAIN u : u[p].size = mSize(u, p)
  BY DEF mSize
<1>4. ASSUME NEW p \in DOMAIN u PROVE mSize(u, p) = 1 + mSize(u, mLeft(p)) + mSize(u, mRight(p))
  <2>1. p \in Places /\ mLeft(p) \in Places /\ mRight(p) \in Places
    BY <1>1, Children DEF IsTree
  <2>2. mSize(t, mLeft(p)) \in Nat /\ mSize(t, mRight(p)) \in Nat /\ mSize(t, p) \in Nat
    BY <1>2, <2>1
  <2>3. p \in DOMAIN t => mSize(t, p) = 1 + mSize(t, mLeft(p)) + mSize(t, mRight(p))
    BY DEF Sized, mSize
  <2>4. CASE p = e
    <3>1. IsPrefix(p, e) /\ ~IsPrefix(mLeft(p), e) /\ ~IsPrefix(mRight(p), e)
      BY <2>1, <2>4, PrefixOrder, OneChildOnTheWay
    <3>2. mLeft(p) \notin DOMAIN t /\ mRight(p) \notin DOMAIN t /\ e \notin DOMAIN t
      BY <2>1, <2>4, FreePlace, Children
    <3>3. mSize(t, p) = 0 /\ mSize(t, mLeft(p)) = 0 /\ mSize(t, mRight(p)) = 0
      BY <2>4, <3>2 DEF mSize
    <3>4. mSize(u, p) = 1 /\ mSize(u, mLeft(p)) = 0 /\ mSize(u, mRight(p)) = 0
      BY <1>2, <2>1, <3>1, <3>3
    <3> QED
      BY <3>4
  <2>5. CASE p # e /\ IsPrefix(p, e)
    <3>1. p \in DOMAIN t
      BY <1>1, <2>5
    <3>2. \/ IsPrefix(mLeft(p), e) /\ ~IsPrefix(mRight(p), e)
          \/ IsPrefix(mRight(p), e) /\ ~IsPrefix(mLeft(p), e)
      BY <1>1, <2>1, <2>5, OneChildOnTheWay
    <3>3. mSize(u, p) = mSize(t, p) + 1
      BY <1>2, <2>1, <2>5
    <3>4. mSize(u, mLeft(p)) + mSize(u, mRight(p)) = mSize(t, mLeft(p)) + mSize(t, mRight(p)) + 1
      BY <1>2, <2>1, <2>2, <3>2
    <3>5. mSize(u, mLeft(p)) \in Nat /\ mSize(u, mRight(p)) \in Nat
      BY <1>2, <2>1, <2>2
    <3> QED
      BY <2>2, <2>3, <3>1, <3>3, <3>4, <3>5
  <2>6. CASE p # e /\ ~IsPrefix(p, e)
    <3>1. p \in DOMAIN t /\ ~IsPrefix(mLeft(p), e) /\ ~IsPrefix(mRight(p), e)
      BY <1>1, <2>1, <2>6, OneChildOnTheWay
    <3> QED
      BY <1>2, <2>1, <2>2, <2>3, <2>6, <3>1
  <2> QED
    BY <2>4, <2>5, <2>6
<1> QED
  BY <1>3, <1>4 DEF Sized


\* The tree stays ordered, and gains the new object.
LEMMA PushKeepsOrder ==
  ASSUME NEW t, IsTree(t), Ordered(t), Different(t), NEW d \in Rankables, d \notin Objects(t),
         NEW e \in Free(t), NEW u, u = PushNode(t, e, d)
  PROVE  Ordered(u) /\ Different(u) /\ Objects(u) = Objects(t) \cup {d}
<1>1. /\ DOMAIN u = DOMAIN t \cup {e} /\ e \in Places
      /\ \A n \in 0 .. Len(e) - 1 : Way(e, n) \in DOMAIN t /\ IsPrefix(Way(e, n), e) /\ Len(Way(e, n)) = n
      /\ \A p \in DOMAIN t : IsPrefix(p, e) => p # e /\ Len(p) \in 0 .. Len(e) - 1 /\ p = Way(e, Len(p))
      /\ \A p \in DOMAIN t : ~IsPrefix(p, e) => u[p] = t[p]
  <2>1. Pushed(t, e, u)
    BY PushNodes
  <2> QED
    BY <2>1 DEF Pushed
<1>2. PICK N \in Nat : N = Len(e)
  BY <1>1 DEF Places
<1>3. PICK o \in [0 .. N -> Rankables], k \in [0 .. N - 1 -> Rankables] : Cascades(t, d, e, u, o, k)
  BY <1>2, PushNodes
<1>4. e \notin DOMAIN t /\ \A p \in DOMAIN t : ~IsPrefix(e, p)
  BY FreePlace
<1>5. /\ \A p \in DOMAIN t : p \in Places /\ t[p].data \in Rankables
      /\ \A p \in DOMAIN u : p \in Places /\ u[p].data \in Rankables
  BY PushKeepsTree DEF IsTree
<1>6. \A x \in Rankables : Rank[x] \in Nat
  BY HeapAssumption
<1> DEFINE h == [n \in 0 .. N - 1 |-> t[Way(e, n)].data]
<1>7. h \in [0 .. N - 1 -> Rankables] /\ \A n \in 0 .. N - 1 : h[n] = t[Way(e, n)].data
  BY <1>1, <1>2, <1>5
<1> HIDE DEF h
<1>8. \A m, n \in 0 .. N - 1 : m <= n => IsPrefix(Way(e, m), Way(e, n))
  <2> SUFFICES ASSUME NEW m \in 0 .. N - 1, NEW n \in 0 .. N - 1, m <= n PROVE IsPrefix(Way(e, m), Way(e, n))
    OBVIOUS
  <2>1. /\ Way(e, m) \in Places /\ IsPrefix(Way(e, m), e) /\ Len(Way(e, m)) = m
        /\ Way(e, n) \in Places /\ IsPrefix(Way(e, n), e) /\ Len(Way(e, n)) = n
    BY <1>1, <1>2, <1>5
  <2> QED
    BY <1>1, <2>1, PrefixOrder
<1>9. /\ o[0] = d /\ u[e].data = o[N]
      /\ \A n \in 0 .. N - 1 : u[Way(e, n)].data = k[n]
  <2>1. o[0] = d /\ u[e].data = o[N]
    BY <1>2, <1>3 DEF Cascades, Leaf
  <2>2. ASSUME NEW n \in 0 .. N - 1 PROVE u[Way(e, n)].data = k[n]
    <3>1. u[Way(e, n)] = [data |-> k[n], size |-> t[Way(e, n)].size + 1]
      BY <1>2, <1>3 DEF Cascades
    <3> QED
      BY <3>1
  <2> QED
    BY <2>1, <2>2
<1>10. Meets(N, h, o, k)
  <2>1. \A m, n \in 0 .. N - 1 : m <= n => Rank[h[n]] <= Rank[h[m]]
    BY <1>1, <1>2, <1>7, <1>8 DEF Ordered
  <2>2. ASSUME NEW m \in 0 .. N - 1, NEW n \in 0 .. N - 1, h[m] = h[n] PROVE m = n
    <3>1. Way(e, m) = Way(e, n)
      <4>1. Way(e, m) \in DOMAIN t /\ Way(e, n) \in DOMAIN t
        BY <1>1, <1>2
      <4>2. t[Way(e, m)].data = t[Way(e, n)].data
        BY <1>7, <2>2
      <4> QED
        BY <4>1, <4>2 DEF Different
    <3> QED
      BY <1>1, <1>2, <3>1
  <2>3. \A n \in 0 .. N - 1 : h[n] # o[0]
    BY <1>1, <1>2, <1>7, <1>9 DEF Objects
  <2>4. ASSUME NEW n \in 0 .. N - 1
        PROVE  \/ OutRanks(o[n], h[n]) /\ k[n] = o[n] /\ o[n + 1] = h[n]
               \/ ~OutRanks(o[n], h[n]) /\ k[n] = h[n] /\ o[n + 1] = o[n]
    <3>1. \/ OutRanks(o[n], t[Way(e, n)].data) /\ k[n] = o[n] /\ o[n + 1] = t[Way(e, n)].data
          \/ ~OutRanks(o[n], t[Way(e, n)].data) /\ k[n] = t[Way(e, n)].data /\ o[n + 1] = o[n]
      BY <1>2, <1>3 DEF Cascades
    <3>2. h[n] = t[Way(e, n)].data
      BY <1>7
    <3> QED
      BY <3>1, <3>2
  <2> QED
    BY <2>1, <2>2, <2>3, <2>4 DEF Meets
<1>11. /\ \A m, n \in 0 .. N - 1 : m <= n => Rank[k[n]] <= Rank[k[m]]
       /\ \A n \in 0 .. N - 1 : Rank[h[n]] <= Rank[k[n]] /\ Rank[o[N]] <= Rank[k[n]]
       /\ {k[n] : n \in 0 .. N - 1} \cup {o[N]} = {h[n] : n \in 0 .. N - 1} \cup {o[0]}
       /\ \A m, n \in 0 .. N - 1 : k[m] = k[n] => m = n
       /\ \A n \in 0 .. N - 1 : k[n] # o[N]
  <2>1. Settles(N, h, o, k)
    BY <1>7, <1>10, Cascade
  <2> QED
    BY <2>1 DEF Settles
<1>12. \A p \in DOMAIN u :
         \/ p = e /\ u[p].data = o[N]
         \/ p \in DOMAIN t /\ IsPrefix(p, e) /\ Len(p) \in 0 .. N - 1 /\ p = Way(e, Len(p))
            /\ u[p].data = k[Len(p)] /\ t[p].data = h[Len(p)]
         \/ p \in DOMAIN t /\ ~IsPrefix(p, e) /\ u[p].data = t[p].data
  <2> SUFFICES ASSUME NEW p \in DOMAIN u, p # e
               PROVE  \/ p \in DOMAIN t /\ IsPrefix(p, e) /\ Len(p) \in 0 .. N - 1 /\ p = Way(e, Len(p))
                         /\ u[p].data = k[Len(p)] /\ t[p].data = h[Len(p)]
                      \/ p \in DOMAIN t /\ ~IsPrefix(p, e) /\ u[p].data = t[p].data
    BY <1>9
  <2>1. p \in DOMAIN t
    BY <1>1
  <2>2. CASE IsPrefix(p, e)
    <3>1. Len(p) \in 0 .. N - 1 /\ p = Way(e, Len(p))
      BY <1>1, <1>2, <2>1, <2>2
    <3>2. u[Way(e, Len(p))].data = k[Len(p)] /\ h[Len(p)] = t[Way(e, Len(p))].data
      BY <1>7, <1>9, <3>1
    <3> QED
      BY <2>1, <2>2, <3>1, <3>2
  <2>3. CASE ~IsPrefix(p, e)
    BY <1>1, <2>1, <2>3
  <2> QED
    BY <2>2, <2>3
<1>13. ASSUME NEW p \in DOMAIN u, NEW q \in DOMAIN u, IsPrefix(p, q) PROVE Rank[u[q].data] <= Rank[u[p].data]
  <2>0. Rank[u[q].data] \in Nat /\ Rank[u[p].data] \in Nat
    BY <1>5, <1>6
  <2>1. CASE p = e
    <3>1. p = q
      BY <1>1, <1>4, <1>13, <2>1
    <3> QED
      BY <2>0, <3>1
  <2>2. CASE p \in DOMAIN t /\ IsPrefix(p, e) /\ Len(p) \in 0 .. N - 1 /\ u[p].data = k[Len(p)] /\ t[p].data = h[Len(p)]
    <3>1. CASE q = e /\ u[q].data = o[N]
      BY <1>11, <2>2, <3>1
    <3>2. CASE q \in DOMAIN t /\ IsPrefix(q, e) /\ Len(q) \in 0 .. N - 1 /\ u[q].data = k[Len(q)]
      <4>1. Len(p) <= Len(q)
        BY <1>5, <1>13, PrefixAt
      <4> QED
        BY <1>11, <2>2, <3>2, <4>1
    <3>3. CASE q \in DOMAIN t /\ ~IsPrefix(q, e) /\ u[q].data = t[q].data
      <4>1. Rank[t[q].data] <= Rank[t[p].data]
        BY <1>13, <2>2, <3>3 DEF Ordered
      <4>2. Rank[h[Len(p)]] <= Rank[k[Len(p)]]
        BY <1>11, <2>2
      <4>3. Rank[h[Len(p)]] \in Nat
        BY <1>6, <1>7, <2>2
      <4> QED
        BY <2>0, <2>2, <3>3, <4>1, <4>2, <4>3
    <3> QED
      BY <1>12, <3>1, <3>2, <3>3
  <2>3. CASE p \in DOMAIN t /\ ~IsPrefix(p, e) /\ u[p].data = t[p].data
    <3>1. ~IsPrefix(q, e) /\ q # e
      BY <1>1, <1>5, <1>13, <2>3, PrefixOrder
    <3>2. q \in DOMAIN t /\ u[q].data = t[q].data
      BY <1>12, <3>1
    <3> QED
      BY <1>13, <2>3, <3>2 DEF Ordered
  <2> QED
    BY <1>12, <2>1, <2>2, <2>3
<1>14. {k[n] : n \in 0 .. N - 1} \cup {u[e].data} = {h[n] : n \in 0 .. N - 1} \cup {d}
  BY <1>9, <1>11
<1>15. ASSUME NEW p \in DOMAIN u, NEW q \in DOMAIN u, u[p].data = u[q].data PROVE p = q
  <2>1. \A x \in DOMAIN t, y \in DOMAIN t : ~IsPrefix(x, e) /\ IsPrefix(y, e) => t[x].data # t[y].data
    BY DEF Different
  <2>2. ASSUME NEW x \in DOMAIN t, ~IsPrefix(x, e)
        PROVE  t[x].data # d /\ \A n \in 0 .. N - 1 : t[x].data # h[n]
    <3>1. \A n \in 0 .. N - 1 : Way(e, n) \in DOMAIN t /\ IsPrefix(Way(e, n), e) /\ h[n] = t[Way(e, n)].data
      BY <1>1, <1>2, <1>7
    <3> QED
      BY <2>1, <2>2, <3>1 DEF Objects
  <2>3. ASSUME NEW x \in DOMAIN t, ~IsPrefix(x, e)
        PROVE  t[x].data # o[N] /\ \A n \in 0 .. N - 1 : t[x].data # k[n]
    <3>1. t[x].data \notin {h[n] : n \in 0 .. N - 1} \cup {d}
      BY <2>2, <2>3
    <3>2. t[x].data \notin {k[n] : n \in 0 .. N - 1} \cup {o[N]}
      BY <1>9, <1>14, <3>1
    <3> QED
      BY <3>2
  <2>4. CASE p = e
    BY <1>11, <1>12, <1>15, <2>3, <2>4, <1>9
  <2>5. CASE q = e
    BY <1>11, <1>12, <1>15, <2>3, <2>5, <1>9
  <2>6. CASE p # e /\ q # e
    <3>1. CASE IsPrefix(p, e) /\ IsPrefix(q, e)
      <4>1. /\ Len(p) \in 0 .. N - 1 /\ p = Way(e, Len(p)) /\ u[p].data = k[Len(p)]
            /\ Len(q) \in 0 .. N - 1 /\ q = Way(e, Len(q)) /\ u[q].data = k[Len(q)]
        BY <1>12, <2>6, <3>1
      <4>2. Len(p) = Len(q)
        BY <1>11, <1>15, <4>1
      <4> QED
        BY <4>1, <4>2
    <3>2. CASE ~IsPrefix(p, e) /\ ~IsPrefix(q, e)
      BY <1>12, <1>15, <2>6, <3>2 DEF Different
    <3>3. CASE IsPrefix(p, e) /\ ~IsPrefix(q, e)
      BY <1>12, <1>15, <2>3, <2>6, <3>3
    <3>4. CASE ~IsPrefix(p, e) /\ IsPrefix(q, e)
      BY <1>12, <1>15, <2>3, <2>6, <3>4
    <3> QED
      BY <3>1, <3>2, <3>3, <3>4
  <2> QED
    BY <2>4, <2>5, <2>6
<1>16. Objects(u) = Objects(t) \cup {d}
  <2> DEFINE Off == {t[p].data : p \in {q \in DOMAIN t : ~IsPrefix(q, e)}}
  <2>1. Objects(t) = Off \cup {h[n] : n \in 0 .. N - 1}
    <3>1. \A n \in 0 .. N - 1 : h[n] \in Objects(t)
      BY <1>1, <1>2, <1>7 DEF Objects
    <3>2. \A p \in DOMAIN t : IsPrefix(p, e) => t[p].data \in {h[n] : n \in 0 .. N - 1}
      BY <1>1, <1>2, <1>7
    <3> QED
      BY <3>1, <3>2 DEF Objects
  <2>2. Objects(u) = Off \cup {k[n] : n \in 0 .. N - 1} \cup {u[e].data}
    <3>1. \A n \in 0 .. N - 1 : k[n] \in Objects(u)
      BY <1>1, <1>2, <1>9 DEF Objects
    <3>2. \A p \in DOMAIN u : p = e \/ u[p].data \in Off \/ u[p].data \in {k[n] : n \in 0 .. N - 1}
      BY <1>12
    <3>3. Off \subseteq Objects(u)
      BY <1>1 DEF Objects
    <3> QED
      BY <1>1, <3>1, <3>2, <3>3 DEF Objects
  <2> HIDE DEF Off
  <2> QED
    BY <1>14, <2>1, <2>2
<1> QED
  BY <1>13, <1>15, <1>16 DEF Ordered, Different

\* A push makes no node more than one out of balance, if it was not.
LEMMA PushBalances ==
  ASSUME NEW t, IsTree(t), NEW d \in Rankables, NEW e \in Free(t), DropsTo(t, e), NEW u, u = PushNode(t, e, d)
  PROVE  \A p \in DOMAIN u : Imbalance(u, p) <= 1 \/ (p \in DOMAIN t /\ Imbalance(u, p) <= Imbalance(t, p))
<1> SUFFICES ASSUME NEW p \in DOMAIN u
             PROVE  Imbalance(u, p) <= 1 \/ (p \in DOMAIN t /\ Imbalance(u, p) <= Imbalance(t, p))
  OBVIOUS
<1>1. DOMAIN u = DOMAIN t \cup {e} /\ e \in Places
  <2>1. Pushed(t, e, u)
    BY PushNodes
  <2> QED
    BY <2>1 DEF Pushed
<1>2. p \in Places /\ mLeft(p) \in Places /\ mRight(p) \in Places /\ mLeft(p) # mRight(p)
  BY <1>1, Children DEF IsTree
<1>3. \A c \in Places : mSize(t, c) \in Nat /\ mSize(u, c) = IF IsPrefix(c, e) THEN mSize(t, c) + 1 ELSE mSize(t, c)
  BY PushSizes
<1>4. PICK l \in Nat, r \in Nat : l = mSize(t, mLeft(p)) /\ r = mSize(t, mRight(p))
  BY <1>2, <1>3
<1>5. CASE p = e
  <2>1. ~IsPrefix(mLeft(p), e) /\ ~IsPrefix(mRight(p), e)
    BY <1>2, <1>5, OneChildOnTheWay
  <2>2. mLeft(p) \notin DOMAIN t /\ mRight(p) \notin DOMAIN t
    BY <1>2, <1>5, FreePlace, Children
  <2>3. mSize(u, mLeft(p)) = 0 /\ mSize(u, mRight(p)) = 0
    BY <1>2, <1>3, <2>1, <2>2 DEF mSize
  <2> QED
    BY <2>3 DEF Imbalance
<1>6. CASE p # e /\ ~IsPrefix(p, e)
  <2>1. ~IsPrefix(mLeft(p), e) /\ ~IsPrefix(mRight(p), e) /\ p \in DOMAIN t
    BY <1>1, <1>2, <1>6, OneChildOnTheWay
  <2>2. mSize(u, mLeft(p)) = l /\ mSize(u, mRight(p)) = r
    BY <1>2, <1>3, <1>4, <2>1
  <2> QED
    BY <1>4, <2>1, <2>2 DEF Imbalance
<1>7. CASE p # e /\ IsPrefix(p, e)
  <2>1. Len(p) \in 0 .. Len(e) - 1 /\ p = Way(e, Len(p))
    BY <1>1, <1>2, <1>7, StepDown
  <2>2. Way(e, Len(p) + 1) = SmallerChild(t, p)
    BY <2>1 DEF DropsTo
  <2>3. CASE l <= r
    <3>1. Way(e, Len(p) + 1) = mLeft(p)
      BY <1>4, <2>2, <2>3 DEF SmallerChild
    <3>2. IsPrefix(mLeft(p), e) /\ ~IsPrefix(mRight(p), e)
      BY <1>1, <1>2, <1>7, <3>1, OneChildOnTheWay
    <3>3. mSize(u, mLeft(p)) = l + 1 /\ mSize(u, mRight(p)) = r
      BY <1>2, <1>3, <1>4, <3>2
    <3>4. Imbalance(u, p) = (IF l + 1 > r THEN (l + 1) - r ELSE r - (l + 1)) /\ Imbalance(t, p) = IF l > r THEN l - r ELSE r - l
      BY <1>4, <3>3 DEF Imbalance
    <3> QED
      BY <1>1, <1>7, <2>3, <3>4
  <2>4. CASE ~(l <= r)
    <3>1. Way(e, Len(p) + 1) = mRight(p)
      BY <1>4, <2>2, <2>4 DEF SmallerChild
    <3>2. ~IsPrefix(mLeft(p), e) /\ IsPrefix(mRight(p), e)
      BY <1>1, <1>2, <1>7, <3>1, OneChildOnTheWay
    <3>3. mSize(u, mLeft(p)) = l /\ mSize(u, mRight(p)) = r + 1
      BY <1>2, <1>3, <1>4, <3>2
    <3>4. Imbalance(u, p) = (IF l > r + 1 THEN l - (r + 1) ELSE (r + 1) - l) /\ Imbalance(t, p) = IF l > r THEN l - r ELSE r - l
      BY <1>4, <3>3 DEF Imbalance
    <3> QED
      BY <1>1, <1>7, <2>4, <3>4
  <2> QED
    BY <2>3, <2>4
<1> QED
  BY <1>5, <1>6, <1>7

-----------------------------------------------------------------------------
(* pop() and remove() *)

\* Where the object comes from that is at p after the node at r is popped.
From(r, l, p) == IF IsPrefix(p, l) /\ IsPrefix(r, p) THEN Way(l, Len(p) + 1) ELSE p

\* What a pop does to the nodes.
Popped(t, r, l, u) ==
  /\ DOMAIN u = DOMAIN t \ {l}
  /\ \A p \in DOMAIN u : u[p].data = t[From(r, l, p)].data
  /\ \A p \in DOMAIN u : u[p].size = IF IsPrefix(p, l) THEN t[p].size - 1 ELSE t[p].size
  /\ u = [p \in DOMAIN u |-> [data |-> u[p].data, size |-> u[p].size]]

LEMMA PopNodes ==
  ASSUME NEW t, IsTree(t), NEW r, NEW l, NEW u, u = PopNode(t, r, l)
  PROVE  Popped(t, r, l, u)
<1>1. u = [p \in DOMAIN t \ {l} |->
             IF IsPrefix(p, l)
               THEN [data |-> IF IsPrefix(r, p) THEN t[Way(l, Len(p) + 1)].data ELSE t[p].data, size |-> t[p].size - 1]
               ELSE t[p]]
  BY DEF PopNode
<1>2. DOMAIN u = DOMAIN t \ {l}
  BY <1>1
<1>3. ASSUME NEW p \in DOMAIN u
      PROVE  /\ u[p] = [data |-> u[p].data, size |-> u[p].size]
             /\ u[p].data = t[From(r, l, p)].data
             /\ u[p].size = IF IsPrefix(p, l) THEN t[p].size - 1 ELSE t[p].size
  <2>1. CASE IsPrefix(p, l)
    <3>1. u[p] = [data |-> IF IsPrefix(r, p) THEN t[Way(l, Len(p) + 1)].data ELSE t[p].data, size |-> t[p].size - 1]
      BY <1>1, <1>2, <2>1
    <3>2. u[p].data = (IF IsPrefix(r, p) THEN t[Way(l, Len(p) + 1)].data ELSE t[p].data) /\ u[p].size = t[p].size - 1
      BY <3>1
    <3> QED
      BY <2>1, <3>1, <3>2 DEF From
  <2>2. CASE ~IsPrefix(p, l)
    <3>1. u[p] = t[p] /\ t[p] \in [data : Rankables, size : Nat]
      BY <1>1, <1>2, <2>2 DEF IsTree
    <3> QED
      BY <2>2, <3>1 DEF From
  <2> QED
    BY <2>1, <2>2
<1>4. u = [p \in DOMAIN u |-> u[p]]
  BY <1>1
<1>5. u = [p \in DOMAIN u |-> [data |-> u[p].data, size |-> u[p].size]]
  BY <1>3, <1>4
<1> QED
  BY <1>2, <1>3, <1>5 DEF Popped

\* The way down from r to the leaf l.
LEMMA WayDown ==
  ASSUME NEW t, IsTree(t), NEW r \in DOMAIN t, NEW l \in DOMAIN t, SwapsDownTo(t, r, l)
  PROVE  /\ r \in Places /\ l \in Places /\ IsPrefix(r, l)
         /\ mLeft(l) \notin DOMAIN t /\ mRight(l) \notin DOMAIN t
         /\ \A p \in DOMAIN t : IsPrefix(l, p) => p = l
         /\ \A p \in DOMAIN t : IsPrefix(p, l) /\ IsPrefix(r, p) /\ p # l =>
              Way(l, Len(p) + 1) = HigherChild(t, p)
<1>1. /\ r \in Places /\ l \in Places /\ IsPrefix(r, l)
      /\ mLeft(l) \notin DOMAIN t /\ mRight(l) \notin DOMAIN t
      /\ \A n \in Len(r) .. Len(l) - 1 : Way(l, n + 1) = HigherChild(t, Way(l, n))
  BY DEF IsTree, SwapsDownTo
<1>2. ASSUME NEW p \in DOMAIN t, IsPrefix(l, p) PROVE p = l
  <2>1. SUFFICES ASSUME p # l PROVE FALSE
    OBVIOUS
  <2>2. p \in Places
    BY DEF IsTree
  <2>3. /\ Way(p, Len(l) + 1) \in {mLeft(l), mRight(l)}
        /\ Way(p, Len(l) + 1) \in Places /\ IsPrefix(Way(p, Len(l) + 1), p)
    BY <1>1, <1>2, <2>1, <2>2, StepDown
  <2>4. Way(p, Len(l) + 1) \in DOMAIN t
    BY <2>3 DEF IsTree
  <2> QED
    BY <1>1, <2>3, <2>4
<1>3. ASSUME NEW p \in DOMAIN t, IsPrefix(p, l), IsPrefix(r, p), p # l
      PROVE  Way(l, Len(p) + 1) = HigherChild(t, p)
  <2>1. p \in Places
    BY DEF IsTree
  <2>2. Len(p) \in 0 .. Len(l) - 1 /\ p = Way(l, Len(p))
    BY <1>1, <1>3, <2>1, StepDown
  <2>3. Len(r) <= Len(p) /\ Len(r) \in Nat /\ Len(l) \in Nat
    BY <1>1, <1>3, <2>1, PrefixAt DEF Places
  <2>4. Len(p) \in Len(r) .. Len(l) - 1
    BY <2>2, <2>3
  <2> QED
    BY <1>1, <2>2, <2>4
<1> QED
  BY <1>1, <1>2, <1>3

\* The subtree that comes up is there, and its top is the highest of what is below.
LEMMA HighestBelow ==
  ASSUME NEW t, IsTree(t), Ordered(t), NEW p \in DOMAIN t, NEW q \in DOMAIN t, IsPrefix(p, q), p # q
  PROVE  HigherChild(t, p) \in DOMAIN t /\ Rank[t[q].data] <= Rank[t[HigherChild(t, p)].data]
<1>1. p \in Places /\ q \in Places /\ \A x \in DOMAIN t : Rank[t[x].data] \in Nat
  BY HeapAssumption DEF IsTree
<1>2. PICK b : b = Way(q, Len(p) + 1)
  OBVIOUS
<1>3. b \in {mLeft(p), mRight(p)} /\ b \in Places /\ IsPrefix(b, q)
  BY <1>1, <1>2, StepDown
<1>4. b \in DOMAIN t
  BY <1>3 DEF IsTree
<1>5. Rank[t[q].data] <= Rank[t[b].data]
  BY <1>3, <1>4 DEF Ordered
<1>6. HigherChild(t, p) \in DOMAIN t /\ Rank[t[b].data] <= Rank[t[HigherChild(t, p)].data]
  <2>1. CASE mRight(p) \notin DOMAIN t
    <3>1. b = mLeft(p) /\ HigherChild(t, p) = mLeft(p)
      BY <1>3, <1>4, <2>1 DEF HigherChild
    <3> QED
      BY <1>1, <1>4, <3>1
  <2>2. CASE mRight(p) \in DOMAIN t /\ mLeft(p) \notin DOMAIN t
    <3>1. b = mRight(p) /\ HigherChild(t, p) = mRight(p)
      BY <1>3, <1>4, <2>2 DEF HigherChild
    <3> QED
      BY <1>1, <1>4, <3>1
  <2>3. CASE mRight(p) \in DOMAIN t /\ mLeft(p) \in DOMAIN t
    <3>1. Rank[t[mLeft(p)].data] \in Nat /\ Rank[t[mRight(p)].data] \in Nat
      BY <1>1, <2>3
    <3>2. CASE Rank[t[mLeft(p)].data] > Rank[t[mRight(p)].data]
      <4>1. HigherChild(t, p) = mLeft(p)
        BY <2>3, <3>2 DEF HigherChild, OutRanks
      <4> QED
        BY <1>3, <2>3, <3>1, <3>2, <4>1
    <3>3. CASE ~(Rank[t[mLeft(p)].data] > Rank[t[mRight(p)].data])
      <4>1. HigherChild(t, p) = mRight(p)
        BY <2>3, <3>3 DEF HigherChild, OutRanks
      <4> QED
        BY <1>3, <2>3, <3>1, <3>3, <4>1
    <3> QED
      BY <3>2, <3>3
  <2> QED
    BY <2>1, <2>2, <2>3
<1> QED
  BY <1>1, <1>4, <1>5, <1>6

\* The objects that stay, each in one place: those of all nodes but r.
LEMMA ComesFrom ==
  ASSUME NEW t, IsTree(t), NEW r \in DOMAIN t, NEW l \in DOMAIN t, SwapsDownTo(t, r, l)
  PROVE  /\ \A p \in DOMAIN t \ {l} :
              From(r, l, p) \in DOMAIN t /\ IsPrefix(p, From(r, l, p)) /\ From(r, l, p) # r
         /\ \A p, q \in DOMAIN t \ {l} : From(r, l, p) = From(r, l, q) => p = q
         /\ \A x \in DOMAIN t \ {r} : \E p \in DOMAIN t \ {l} : x = From(r, l, p)
<1>1. r \in Places /\ l \in Places /\ IsPrefix(r, l) /\ DOMAIN t \subseteq Places
  BY WayDown DEF IsTree
<1>2. \A p \in DOMAIN t, q \in Places : IsPrefix(q, p) => q \in DOMAIN t
  BY DEF IsTree
<1>3. \A p \in Places : Len(p) \in Nat
  BY DEF Places
<1>4. ASSUME NEW p \in DOMAIN t \ {l}, IsPrefix(p, l)
      PROVE  /\ Way(l, Len(p) + 1) \in DOMAIN t /\ IsPrefix(Way(l, Len(p) + 1), l)
             /\ IsPrefix(p, Way(l, Len(p) + 1)) /\ Len(Way(l, Len(p) + 1)) = Len(p) + 1
  <2>1. /\ Way(l, Len(p) + 1) \in {mLeft(p), mRight(p)} /\ Way(l, Len(p) + 1) \in Places
        /\ IsPrefix(Way(l, Len(p) + 1), l)
    BY <1>1, <1>4, StepDown
  <2> QED
    BY <1>1, <1>2, <2>1, Children
<1>5. ASSUME NEW p \in DOMAIN t \ {l}
      PROVE  From(r, l, p) \in DOMAIN t /\ IsPrefix(p, From(r, l, p)) /\ From(r, l, p) # r
  <2>1. CASE IsPrefix(p, l) /\ IsPrefix(r, p)
    <3>1. From(r, l, p) = Way(l, Len(p) + 1)
      BY <2>1 DEF From
    <3>2. Len(r) <= Len(p)
      BY <1>1, <2>1, PrefixAt
    <3> QED
      BY <1>1, <1>3, <1>4, <2>1, <3>1, <3>2
  <2>2. CASE ~(IsPrefix(p, l) /\ IsPrefix(r, p))
    <3>1. From(r, l, p) = p
      BY <2>2 DEF From
    <3> QED
      BY <1>1, <2>2, <3>1, PrefixOrder
  <2> QED
    BY <2>1, <2>2
<1>6. ASSUME NEW p \in DOMAIN t \ {l}, NEW q \in DOMAIN t \ {l}, IsPrefix(p, l), IsPrefix(r, p),
             From(r, l, p) = From(r, l, q)
      PROVE  p = q
  <2>1. From(r, l, p) = Way(l, Len(p) + 1)
    BY <1>6 DEF From
  <2>2. CASE IsPrefix(q, l) /\ IsPrefix(r, q)
    <3>1. From(r, l, q) = Way(l, Len(q) + 1)
      BY <2>2 DEF From
    <3>2. Len(p) = Len(q)
      <4>1. Len(Way(l, Len(p) + 1)) = Len(p) + 1 /\ Len(Way(l, Len(q) + 1)) = Len(q) + 1
        BY <1>4, <1>6, <2>2
      <4>2. Way(l, Len(p) + 1) = Way(l, Len(q) + 1) /\ Len(p) \in Nat /\ Len(q) \in Nat
        BY <1>1, <1>3, <1>6, <2>1, <3>1
      <4>3. Len(p) + 1 = Len(q) + 1
        BY <4>1, <4>2
      <4> QED
        BY <4>2, <4>3
    <3>3. IsPrefix(p, q)
      BY <1>1, <1>3, <1>6, <2>2, <3>2, PrefixOrder
    <3> QED
      BY <1>1, <1>3, <3>2, <3>3, PrefixOrder
  <2>3. CASE ~(IsPrefix(q, l) /\ IsPrefix(r, q))
    <3>1. q = Way(l, Len(p) + 1)
      BY <1>6, <2>1, <2>3 DEF From
    <3>2. IsPrefix(q, l) /\ IsPrefix(p, q)
      BY <1>4, <1>6, <3>1
    <3>3. IsPrefix(r, q)
      BY <1>1, <1>6, <3>2, PrefixOrder
    <3> QED
      BY <2>3, <3>2, <3>3
  <2> QED
    BY <2>2, <2>3
<1>7. ASSUME NEW p \in DOMAIN t \ {l}, NEW q \in DOMAIN t \ {l}, From(r, l, p) = From(r, l, q) PROVE p = q
  <2>1. CASE IsPrefix(p, l) /\ IsPrefix(r, p)
    BY <1>6, <1>7, <2>1
  <2>2. CASE IsPrefix(q, l) /\ IsPrefix(r, q)
    BY <1>6, <1>7, <2>2
  <2>3. CASE ~(IsPrefix(p, l) /\ IsPrefix(r, p)) /\ ~(IsPrefix(q, l) /\ IsPrefix(r, q))
    BY <1>7, <2>3 DEF From
  <2> QED
    BY <2>1, <2>2, <2>3
<1>8. ASSUME NEW x \in DOMAIN t \ {r} PROVE \E p \in DOMAIN t \ {l} : x = From(r, l, p)
  <2>1. CASE IsPrefix(x, l) /\ IsPrefix(r, x)
    <3>1. Len(r) < Len(x) /\ Len(x) <= Len(l) /\ Len(r) \in Nat /\ Len(x) \in Nat /\ Len(l) \in Nat
      BY <1>1, <1>3, <2>1, StepDown, PrefixAt
    <3>2. PICK n \in Nat : n = Len(x) - 1
      BY <3>1
    <3>3. n \in 0 .. Len(l) /\ n < Len(l) /\ n + 1 = Len(x) /\ Len(r) <= n
      BY <3>1, <3>2
    <3>4. Way(l, n) \in Places /\ Len(Way(l, n)) = n /\ IsPrefix(Way(l, n), l)
      BY <1>1, <3>3, WayOf
    <3>5. IsPrefix(r, Way(l, n)) /\ IsPrefix(Way(l, n), x)
      BY <1>1, <3>3, <3>4, <2>1, <3>1, PrefixOrder
    <3>6. Way(l, n) \in DOMAIN t \ {l}
      BY <1>2, <1>1, <3>3, <3>4
    <3>7. From(r, l, Way(l, n)) = Way(l, Len(x))
      BY <3>3, <3>4, <3>5 DEF From
    <3>8. Way(l, Len(x)) = x
      <4>1. CASE x = l
        <5>1. Len(l) \in 0 .. Len(l)
          BY <3>1
        <5> QED
          BY <1>1, <4>1, <5>1, WayOf
      <4>2. CASE x # l
        BY <1>1, <2>1, <4>2, StepDown
      <4> QED
        BY <4>1, <4>2
    <3> QED
      BY <3>6, <3>7, <3>8
  <2>2. CASE ~(IsPrefix(x, l) /\ IsPrefix(r, x))
    <3>1. From(r, l, x) = x
      BY <2>2 DEF From
    <3>2. x # l
      BY <1>1, <2>2, PrefixOrder
    <3> QED
      BY <3>1, <3>2
  <2> QED
    BY <2>1, <2>2
<1> QED
  BY <1>5, <1>7, <1>8

\* What a pop does to the sizes, and where.
LEMMA PopSizes ==
  ASSUME NEW t, IsTree(t), Sized(t), NEW r \in DOMAIN t, NEW l \in DOMAIN t, SwapsDownTo(t, r, l),
         NEW u, u = PopNode(t, r, l)
  PROVE  \A c \in Places : /\ mSize(t, c) \in Nat /\ mSize(u, c) \in Nat
                           /\ IsPrefix(c, l) => mSize(u, c) + 1 = mSize(t, c)
                           /\ ~IsPrefix(c, l) => mSize(u, c) = mSize(t, c)
<1> SUFFICES ASSUME NEW c \in Places
             PROVE  /\ mSize(t, c) \in Nat /\ mSize(u, c) \in Nat
                    /\ IsPrefix(c, l) => mSize(u, c) + 1 = mSize(t, c)
                    /\ ~IsPrefix(c, l) => mSize(u, c) = mSize(t, c)
  OBVIOUS
<1>1. /\ l \in Places /\ mLeft(l) \notin DOMAIN t /\ mRight(l) \notin DOMAIN t
  BY WayDown
<1>2. /\ DOMAIN u = DOMAIN t \ {l}
      /\ \A p \in DOMAIN u : u[p].size = IF IsPrefix(p, l) THEN t[p].size - 1 ELSE t[p].size
  <2>1. Popped(t, r, l, u)
    BY PopNodes
  <2> QED
    BY <2>1 DEF Popped
<1>3. \A x : mSize(t, x) \in Nat
  BY DEF mSize, IsTree
<1>4. \A p \in DOMAIN t : t[p].size \in Nat /\ t[p].size - 1 \in Nat
  <2> SUFFICES ASSUME NEW p \in DOMAIN t PROVE t[p].size \in Nat /\ t[p].size - 1 \in Nat
    OBVIOUS
  <2>1. t[p].size = 1 + mSize(t, mLeft(p)) + mSize(t, mRight(p))
    BY DEF Sized
  <2>2. mSize(t, mLeft(p)) \in Nat /\ mSize(t, mRight(p)) \in Nat
    BY <1>3
  <2> QED
    BY <2>1, <2>2
<1>5. CASE c = l
  <2>1. t[l].size = 1 + mSize(t, mLeft(l)) + mSize(t, mRight(l))
    BY DEF Sized
  <2>2. mSize(t, mLeft(l)) = 0 /\ mSize(t, mRight(l)) = 0
    BY <1>1 DEF mSize
  <2>3. mSize(t, l) = 1 /\ mSize(u, l) = 0
    BY <1>2, <2>1, <2>2 DEF mSize
  <2> QED
    BY <1>1, <1>5, <2>3, PrefixOrder
<1>6. CASE c # l /\ IsPrefix(c, l)
  <2>1. c \in DOMAIN t /\ c \in DOMAIN u
    BY <1>2, <1>6 DEF IsTree
  <2>2. mSize(u, c) = t[c].size - 1 /\ mSize(t, c) = t[c].size
    BY <1>2, <1>6, <2>1 DEF mSize
  <2> QED
    BY <1>4, <1>6, <2>1, <2>2
<1>7. CASE c # l /\ ~IsPrefix(c, l)
  <2>1. mSize(u, c) = mSize(t, c)
    BY <1>2, <1>7 DEF mSize
  <2> QED
    BY <1>3, <1>7, <2>1
<1> QED
  BY <1>5, <1>6, <1>7

\* A tree stays a tree, and its sizes stay right.
LEMMA PopKeepsTree ==
  ASSUME NEW t, IsTree(t), Sized(t), NEW r \in DOMAIN t, NEW l \in DOMAIN t, SwapsDownTo(t, r, l),
         NEW u, u = PopNode(t, r, l)
  PROVE  IsTree(u) /\ Sized(u)
<1>1. l \in Places /\ \A p \in DOMAIN t : IsPrefix(l, p) => p = l
  BY WayDown
<1>2. /\ DOMAIN u = DOMAIN t \ {l}
      /\ \A p \in DOMAIN u : u[p].data = t[From(r, l, p)].data
      /\ u = [p \in DOMAIN u |-> [data |-> u[p].data, size |-> u[p].size]]
  <2>1. Popped(t, r, l, u)
    BY PopNodes
  <2> QED
    BY <2>1 DEF Popped
<1>3. \A c \in Places : /\ mSize(t, c) \in Nat /\ mSize(u, c) \in Nat
                        /\ IsPrefix(c, l) => mSize(u, c) + 1 = mSize(t, c)
                        /\ ~IsPrefix(c, l) => mSize(u, c) = mSize(t, c)
  BY PopSizes
<1>4. DOMAIN u \subseteq Places /\ IsFiniteSet(DOMAIN u)
  BY <1>2, FS_Subset DEF IsTree
<1>5. \A p \in DOMAIN u : u[p].size = mSize(u, p)
  BY DEF mSize
<1>6. u \in [DOMAIN u -> [data : Rankables, size : Nat]]
  <2>1. ASSUME NEW p \in DOMAIN u PROVE u[p].data \in Rankables /\ u[p].size \in Nat
    <3>1. From(r, l, p) \in DOMAIN t
      BY <1>2, ComesFrom
    <3>2. t[From(r, l, p)].data \in Rankables
      BY <3>1 DEF IsTree
    <3> QED
      BY <1>2, <1>3, <1>4, <1>5, <3>2
  <2>2. \A p \in DOMAIN u : [data |-> u[p].data, size |-> u[p].size] \in [data : Rankables, size : Nat]
    BY <2>1
  <2> QED
    BY <1>2, <2>2
<1>7. ASSUME NEW q \in DOMAIN u, NEW p \in Places, IsPrefix(p, q) PROVE p \in DOMAIN u
  BY <1>1, <1>2, <1>7 DEF IsTree
<1>8. ASSUME NEW p \in DOMAIN u PROVE mSize(u, p) = 1 + mSize(u, mLeft(p)) + mSize(u, mRight(p))
  <2>1. p \in Places /\ mLeft(p) \in Places /\ mRight(p) \in Places /\ p # l
    BY <1>2, <1>4, Children
  <2>2. mSize(t, p) = 1 + mSize(t, mLeft(p)) + mSize(t, mRight(p))
    BY <1>2 DEF Sized, mSize
  <2>3. /\ mSize(t, p) \in Nat /\ mSize(t, mLeft(p)) \in Nat /\ mSize(t, mRight(p)) \in Nat
        /\ mSize(u, p) \in Nat /\ mSize(u, mLeft(p)) \in Nat /\ mSize(u, mRight(p)) \in Nat
    BY <1>3, <2>1
  <2>4. CASE ~IsPrefix(p, l)
    <3>1. ~IsPrefix(mLeft(p), l) /\ ~IsPrefix(mRight(p), l)
      BY <1>1, <2>1, <2>4, OneChildOnTheWay
    <3> QED
      BY <1>3, <2>1, <2>2, <2>4, <3>1
  <2>5. CASE IsPrefix(p, l)
    <3>1. \/ IsPrefix(mLeft(p), l) /\ ~IsPrefix(mRight(p), l)
          \/ IsPrefix(mRight(p), l) /\ ~IsPrefix(mLeft(p), l)
      BY <1>1, <2>1, <2>5, OneChildOnTheWay
    <3>2. mSize(u, p) + 1 = mSize(t, p)
      BY <1>3, <2>1, <2>5
    <3>3. CASE IsPrefix(mLeft(p), l) /\ ~IsPrefix(mRight(p), l)
      <4>1. mSize(u, mLeft(p)) + 1 = mSize(t, mLeft(p)) /\ mSize(u, mRight(p)) = mSize(t, mRight(p))
        BY <1>3, <2>1, <3>3
      <4> QED
        BY <2>2, <2>3, <3>2, <4>1
    <3>4. CASE IsPrefix(mRight(p), l) /\ ~IsPrefix(mLeft(p), l)
      <4>1. mSize(u, mRight(p)) + 1 = mSize(t, mRight(p)) /\ mSize(u, mLeft(p)) = mSize(t, mLeft(p))
        BY <1>3, <2>1, <3>4
      <4> QED
        BY <2>2, <2>3, <3>2, <4>1
    <3> QED
      BY <3>1, <3>3, <3>4
  <2> QED
    BY <2>4, <2>5
<1>9. Sized(u)
  BY <1>5, <1>8 DEF Sized
<1> QED
  BY <1>4, <1>6, <1>7, <1>9 DEF IsTree

\* The tree stays ordered, and loses the object at r only.
LEMMA PopKeepsOrder ==
  ASSUME NEW t, IsTree(t), Ordered(t), Different(t), NEW r \in DOMAIN t, NEW l \in DOMAIN t,
         SwapsDownTo(t, r, l), NEW u, u = PopNode(t, r, l)
  PROVE  Ordered(u) /\ Different(u) /\ Objects(u) = Objects(t) \ {t[r].data}
<1>1. /\ l \in Places
      /\ \A p \in DOMAIN t : IsPrefix(p, l) /\ IsPrefix(r, p) /\ p # l => Way(l, Len(p) + 1) = HigherChild(t, p)
  BY WayDown
<1>2. DOMAIN u = DOMAIN t \ {l} /\ \A p \in DOMAIN u : u[p].data = t[From(r, l, p)].data
  <2>1. Popped(t, r, l, u)
    BY PopNodes
  <2> QED
    BY <2>1 DEF Popped
<1>3. /\ \A p \in DOMAIN u : From(r, l, p) \in DOMAIN t /\ IsPrefix(p, From(r, l, p)) /\ From(r, l, p) # r
      /\ \A p, q \in DOMAIN u : From(r, l, p) = From(r, l, q) => p = q
      /\ \A x \in DOMAIN t \ {r} : \E p \in DOMAIN u : x = From(r, l, p)
  BY <1>2, ComesFrom
<1>4. DOMAIN t \subseteq Places /\ \A p \in DOMAIN t : Rank[t[p].data] \in Nat
  BY HeapAssumption DEF IsTree
<1>5. ASSUME NEW p \in DOMAIN u, NEW q \in DOMAIN u, IsPrefix(p, q) PROVE Rank[u[q].data] <= Rank[u[p].data]
  <2>1. PICK y \in DOMAIN t : y = From(r, l, q)
    BY <1>3
  <2>2. u[q].data = t[y].data /\ IsPrefix(q, y) /\ p \in DOMAIN t /\ q \in DOMAIN t /\ p # l
    BY <1>2, <1>3, <2>1
  <2>3. IsPrefix(p, y)
    BY <1>4, <1>5, <2>2, PrefixOrder
  <2>4. CASE p = q
    BY <1>4, <2>2, <2>4
  <2>5. CASE p # q
    <3>1. p # y
      BY <1>4, <1>5, <2>2, <2>5, PrefixOrder, PrefixAt
    <3>2. CASE IsPrefix(p, l) /\ IsPrefix(r, p)
      <4>1. From(r, l, p) = HigherChild(t, p)
        BY <1>1, <2>2, <3>2 DEF From
      <4>2. Rank[t[y].data] <= Rank[t[HigherChild(t, p)].data]
        BY <2>2, <2>3, <3>1, HighestBelow
      <4> QED
        BY <1>2, <2>2, <4>1, <4>2
    <3>3. CASE ~(IsPrefix(p, l) /\ IsPrefix(r, p))
      <4>1. u[p].data = t[p].data
        BY <1>2, <3>3 DEF From
      <4> QED
        BY <2>2, <2>3, <4>1 DEF Ordered
    <3> QED
      BY <3>2, <3>3
  <2> QED
    BY <2>4, <2>5
<1>6. Different(u)
  <2> SUFFICES ASSUME NEW p \in DOMAIN u, NEW q \in DOMAIN u, u[p].data = u[q].data PROVE p = q
    BY DEF Different
  <2>1. From(r, l, p) \in DOMAIN t /\ From(r, l, q) \in DOMAIN t /\ t[From(r, l, p)].data = t[From(r, l, q)].data
    BY <1>2, <1>3
  <2>2. From(r, l, p) = From(r, l, q)
    BY <2>1 DEF Different
  <2> QED
    BY <1>3, <2>2
<1>7. Objects(u) = Objects(t) \ {t[r].data}
  <2>1. ASSUME NEW p \in DOMAIN u PROVE u[p].data \in Objects(t) \ {t[r].data}
    <3>1. From(r, l, p) \in DOMAIN t /\ From(r, l, p) # r /\ u[p].data = t[From(r, l, p)].data
      BY <1>2, <1>3
    <3> QED
      BY <3>1 DEF Objects, Different
  <2>2. ASSUME NEW x \in DOMAIN t, t[x].data # t[r].data PROVE t[x].data \in Objects(u)
    <3>1. PICK p \in DOMAIN u : x = From(r, l, p)
      BY <1>3, <2>2
    <3>2. u[p].data = t[x].data
      BY <1>2, <3>1
    <3> QED
      BY <3>2 DEF Objects
  <2> QED
    BY <2>1, <2>2 DEF Objects
<1> QED
  BY <1>5, <1>6, <1>7 DEF Ordered

\* remove() finds an object that is there, and does nothing for one that is not.
LEMMA RemoveFinds ==
  ASSUME NEW t, IsTree(t), Ordered(t), NEW d \in Rankables, NEW u, RemoveNode(t, d, u)
  PROVE  \/ d \notin Objects(t) /\ u = t
         \/ \E r \in DOMAIN t, l \in DOMAIN t : t[r].data = d /\ SwapsDownTo(t, r, l) /\ u = PopNode(t, r, l)
<1>1. PICK found : found = {r \in Searched(t, d) : t[r].data = d}
  OBVIOUS
<1>2. \/ found = {} /\ u = t
      \/ \E r \in found, l \in DOMAIN t : SwapsDownTo(t, r, l) /\ u = PopNode(t, r, l)
  BY <1>1 DEF RemoveNode
<1>3. \A r \in DOMAIN t : t[r].data = d => r \in found
  <2> SUFFICES ASSUME NEW r \in DOMAIN t, t[r].data = d,
                      NEW p \in DOMAIN t, IsPrefix(p, r)
               PROVE  ~OutRanks(d, t[p].data)
    BY <1>1 DEF Searched
  <2>1. Rank[d] <= Rank[t[p].data]
    BY DEF Ordered
  <2>2. Rank[d] \in Nat /\ Rank[t[p].data] \in Nat
    BY HeapAssumption DEF IsTree
  <2> QED
    BY <2>1, <2>2 DEF OutRanks
<1>4. \A r \in found : r \in DOMAIN t /\ t[r].data = d
  BY <1>1 DEF Searched
<1>5. CASE found = {} /\ u = t
  BY <1>3, <1>5 DEF Objects
<1>6. ASSUME NEW r \in found, NEW l \in DOMAIN t, SwapsDownTo(t, r, l), u = PopNode(t, r, l)
      PROVE  \E s \in DOMAIN t, m \in DOMAIN t : t[s].data = d /\ SwapsDownTo(t, s, m) /\ u = PopNode(t, s, m)
  BY <1>4, <1>6
<1> QED
  BY <1>2, <1>5, <1>6

-----------------------------------------------------------------------------
(* The ways end. *)

\* Of some places, finitely many, one is longest.
LEMMA LongestPlace ==
  ASSUME NEW D \in SUBSET Places, IsFiniteSet(D), D # {}
  PROVE  \E q \in D : \A p \in D : Len(p) <= Len(q)
<1> DEFINE Longer(q) == {p \in D : Len(p) > Len(q)}
<1> DEFINE Parts == {Longer(q) : q \in D}
<1>1. Parts \subseteq FiniteSubsetsOf(Places)
  <2> SUFFICES ASSUME NEW q \in D PROVE Longer(q) \in SUBSET Places /\ IsFiniteSet(Longer(q))
    BY DEF FiniteSubsetsOf
  <2>1. Longer(q) \subseteq D
    OBVIOUS
  <2> QED
    BY <2>1, FS_Subset
<1>2. Parts # {}
  OBVIOUS
<1>3. \E L \in Parts : \A E \in Parts : <<E, L>> \notin StrictSubsetOrdering(Places)
  BY <1>1, <1>2, FS_StrictSubsetOrderingWellFounded, WFMin
<1>4. PICK q \in D : \A p \in D : <<Longer(p), Longer(q)>> \notin StrictSubsetOrdering(Places)
  BY <1>3
<1>5. ASSUME NEW p \in D, ~(Len(p) <= Len(q)) PROVE FALSE
  <2>0. \A x \in D : Len(x) \in Nat
    BY DEF Places
  <2>1. Longer(p) \subseteq Longer(q)
    BY <1>5, <2>0
  <2>2. p \in Longer(q) /\ p \notin Longer(p)
    BY <1>5, <2>0
  <2>3. Longer(p) \in SUBSET Places /\ Longer(q) \in SUBSET Places /\ Longer(p) # Longer(q)
    BY <2>2
  <2> HIDE DEF Longer
  <2>4. <<Longer(p), Longer(q)>> \in StrictSubsetOrdering(Places)
    BY <2>1, <2>3 DEF StrictSubsetOrdering
  <2> QED
    BY <1>4, <2>4
<1> QED
  BY <1>5

\* A way that a rule gives turn by turn: next[p] is the place that comes after p.
Follows(next, r, q) == IsPrefix(r, q) /\ \A n \in Len(r) .. Len(q) - 1 : Way(q, n + 1) = next[Way(q, n)]

\* Of two ways by the same rule, one is the beginning of the other.
LEMMA OneWay ==
  ASSUME NEW next, NEW r \in Places, NEW p \in Places, NEW q \in Places,
         Follows(next, r, p), Follows(next, r, q), Len(p) <= Len(q)
  PROVE  IsPrefix(p, q)
<1>1. PICK a \in Nat, b \in Nat, c \in Nat : a = Len(r) /\ b = Len(p) /\ c = Len(q)
  BY DEF Places
<1>2. a <= b /\ b <= c
  BY <1>1, PrefixAt DEF Follows
<1> DEFINE S == {i \in 0 .. b - a : Way(p, a + i) = Way(q, a + i)}
<1>3. 0 \in S
  <2>1. Way(p, a) = r /\ Way(q, a) = r
    <3>1. a \in 0 .. Len(p) /\ a \in 0 .. Len(q)
      BY <1>1, <1>2
    <3>2. /\ Way(p, a) \in Places /\ Len(Way(p, a)) = a /\ IsPrefix(Way(p, a), p)
          /\ Way(q, a) \in Places /\ Len(Way(q, a)) = a /\ IsPrefix(Way(q, a), q)
      BY <3>1, WayOf
    <3>3. IsPrefix(r, Way(p, a)) /\ IsPrefix(r, Way(q, a))
      BY <1>1, <3>2, PrefixOrder DEF Follows
    <3> QED
      BY <1>1, <3>2, <3>3, PrefixOrder
  <2>2. 0 \in 0 .. b - a /\ a + 0 = a
    BY <1>2
  <2> QED
    BY <2>1, <2>2
<1>4. ASSUME NEW i \in 0 .. (b - a) - 1, i \in S PROVE i + 1 \in S
  <2>1. a + i \in a .. b - 1 /\ a + i \in a .. c - 1 /\ (a + i) + 1 = a + (i + 1) /\ i + 1 \in 0 .. b - a
    BY <1>2
  <2>2. Way(p, (a + i) + 1) = next[Way(p, a + i)]
    BY <1>1, <2>1 DEF Follows
  <2>3. Way(q, (a + i) + 1) = next[Way(q, a + i)]
    BY <1>1, <2>1 DEF Follows
  <2>4. Way(p, a + i) = Way(q, a + i)
    BY <1>4
  <2> QED
    BY <2>1, <2>2, <2>3, <2>4
<1>5. b - a \in Nat /\ b - a \in 0 .. b - a /\ a + (b - a) = b
  BY <1>2
<1>6. b - a \in S
  <2>1. \A i \in 0 .. (b - a) - 1 : i \in S => i + 1 \in S
    BY <1>4
  <2> HIDE DEF S
  <2>2. \A i \in 0 .. b - a : i \in S
    BY <1>3, <1>5, <2>1, UpToNumber
  <2> QED
    BY <1>5, <2>2
<1>7. Way(p, b) = Way(q, b)
  BY <1>5, <1>6
<1>8. Way(p, b) = p /\ IsPrefix(Way(q, b), q)
  <2>1. b \in 0 .. Len(p) /\ b \in 0 .. Len(q)
    BY <1>1, <1>2
  <2> QED
    BY <1>1, <2>1, WayOf
<1> QED
  BY <1>7, <1>8

\* A way goes on by one turn.
LEMMA GoesOn ==
  ASSUME NEW next, NEW r \in Places, NEW q \in Places, Follows(next, r, q),
         NEW c \in {mLeft(q), mRight(q)}, next[q] = c
  PROVE  c \in Places /\ Follows(next, r, c) /\ Len(c) = Len(q) + 1
<1>1. c \in Places /\ Len(c) = Len(q) + 1 /\ IsPrefix(q, c)
  BY Children
<1>2. IsPrefix(r, c)
  BY <1>1, PrefixOrder DEF Follows
<1>3. PICK a \in Nat, b \in Nat : a = Len(r) /\ b = Len(q) /\ Len(c) = b + 1
  BY <1>1 DEF Places
<1>4. ASSUME NEW n \in 0 .. b PROVE Way(c, n) = Way(q, n)
  <2>1. n \in 0 .. Len(q) /\ n \in 0 .. Len(c)
    BY <1>3
  <2>2. /\ Way(q, n) \in Places /\ Len(Way(q, n)) = n /\ IsPrefix(Way(q, n), q)
        /\ Way(c, n) \in Places /\ Len(Way(c, n)) = n /\ IsPrefix(Way(c, n), c)
    BY <1>1, <2>1, WayOf
  <2>3. IsPrefix(Way(q, n), c)
    BY <1>1, <2>2, PrefixOrder
  <2>4. n <= n
    OBVIOUS
  <2>5. IsPrefix(Way(q, n), Way(c, n))
    BY <1>1, <2>2, <2>3, <2>4, PrefixOrder
  <2> QED
    BY <2>2, <2>4, <2>5, PrefixOrder
<1>5. ASSUME NEW n \in a .. (b + 1) - 1 PROVE Way(c, n + 1) = next[Way(c, n)]
  <2>1. CASE n = b
    <3>1. Way(c, b + 1) = c /\ Way(q, b) = q
      <4>1. b + 1 \in 0 .. Len(c) /\ b \in 0 .. Len(q)
        BY <1>3
      <4> QED
        BY <1>1, <1>3, <4>1, WayOf
    <3>2. Way(c, b) = Way(q, b)
      BY <1>4
    <3> QED
      BY <2>1, <3>1, <3>2
  <2>2. CASE n # b
    <3>1. n \in a .. b - 1 /\ n \in 0 .. b /\ n + 1 \in 0 .. b
      BY <2>2
    <3>2. Way(q, n + 1) = next[Way(q, n)]
      BY <1>3, <3>1 DEF Follows
    <3> QED
      BY <1>4, <3>1, <3>2
  <2> QED
    BY <2>1, <2>2
<1> QED
  BY <1>1, <1>2, <1>3, <1>5 DEF Follows

\* One place for a new node.
LEMMA PushEnds ==
  ASSUME NEW t, IsTree(t)
  PROVE  /\ \E e \in Free(t) : DropsTo(t, e)
         /\ \A e, f \in Free(t) : DropsTo(t, e) /\ DropsTo(t, f) => e = f
<1> DEFINE next == [p \in Places |-> SmallerChild(t, p)]
<1>1. \A p \in Places : next[p] = SmallerChild(t, p) /\ next[p] \in {mLeft(p), mRight(p)}
  BY DEF SmallerChild
<1>2. Top \in Places /\ Len(Top) = 0
  BY DEF Top, Places
<1>3. ASSUME NEW e \in Places PROVE DropsTo(t, e) <=> Follows(next, Top, e)
  <2>1. Len(e) \in Nat /\ IsPrefix(Top, e)
    BY PrefixOrder DEF Places
  <2>2. \A n \in 0 .. Len(e) - 1 : Way(e, n) \in Places
    BY <2>1, WayOf
  <2>3. \A n \in 0 .. Len(e) - 1 : next[Way(e, n)] = SmallerChild(t, Way(e, n))
    BY <1>1, <2>2
  <2> HIDE DEF next
  <2> QED
    BY <1>2, <2>1, <2>3 DEF DropsTo, Follows
<1> HIDE DEF next
<1>4. \A e \in Free(t) : e \in Places /\ e \notin DOMAIN t /\ \A p \in Places : IsPrefix(p, e) /\ p # e => p \in DOMAIN t
  BY FreePlace
<1>5. ASSUME NEW e \in Free(t), NEW f \in Free(t), DropsTo(t, e), DropsTo(t, f), Len(e) <= Len(f) PROVE e = f
  <2>1. IsPrefix(e, f)
    BY <1>2, <1>3, <1>4, <1>5, OneWay
  <2> QED
    BY <1>4, <2>1
<1>6. ASSUME NEW e \in Free(t), NEW f \in Free(t), DropsTo(t, e), DropsTo(t, f) PROVE e = f
  <2>1. Len(e) \in Nat /\ Len(f) \in Nat
    BY <1>4 DEF Places
  <2>2. Len(e) <= Len(f) \/ Len(f) <= Len(e)
    BY <2>1
  <2> QED
    BY <1>5, <1>6, <2>2
<1>7. \E e \in Free(t) : DropsTo(t, e)
  <2> DEFINE D == {p \in DOMAIN t : Follows(next, Top, p)}
  <2>1. CASE D = {}
    <3>1. Follows(next, Top, Top)
      BY <1>2, PrefixOrder DEF Follows
    <3>2. Top \notin DOMAIN t
      BY <2>1, <3>1
    <3> QED
      BY <1>2, <1>3, <3>1, <3>2 DEF Free
  <2>2. CASE D # {}
    <3>1. D \in SUBSET Places /\ IsFiniteSet(D)
      <4>1. D \subseteq DOMAIN t
        OBVIOUS
      <4> QED
        BY <4>1, FS_Subset DEF IsTree
    <3>2. PICK q \in D : \A p \in D : Len(p) <= Len(q)
      BY <2>2, <3>1, LongestPlace
    <3>3. q \in Places /\ q \in DOMAIN t /\ Follows(next, Top, q)
      BY <3>1
    <3>4. PICK e : e = next[q]
      OBVIOUS
    <3>5. e \in {mLeft(q), mRight(q)}
      BY <1>1, <3>3, <3>4
    <3>6. e \in Places /\ Follows(next, Top, e) /\ Len(e) = Len(q) + 1
      BY <1>2, <3>3, <3>4, <3>5, GoesOn
    <3>7. e \notin DOMAIN t
      <4>1. Len(q) \in Nat /\ ~(Len(e) <= Len(q))
        BY <3>3, <3>6 DEF Places
      <4> QED
        BY <3>2, <3>6, <4>1
    <3>8. e \in Free(t)
      BY <3>3, <3>5, <3>7 DEF Free
    <3> QED
      BY <1>3, <3>6, <3>8
  <2> QED
    BY <2>1, <2>2
<1> QED
  BY <1>6, <1>7

\* One leaf below a node.
LEMMA PopEnds ==
  ASSUME NEW t, IsTree(t), NEW r \in DOMAIN t
  PROVE  /\ \E l \in DOMAIN t : SwapsDownTo(t, r, l)
         /\ \A l, m \in DOMAIN t : SwapsDownTo(t, r, l) /\ SwapsDownTo(t, r, m) => l = m
<1> DEFINE next == [p \in Places |-> HigherChild(t, p)]
<1>1. \A p \in Places : next[p] = HigherChild(t, p) /\ next[p] \in {mLeft(p), mRight(p)}
  BY DEF HigherChild
<1>2. r \in Places /\ DOMAIN t \subseteq Places
  BY DEF IsTree
<1>3. ASSUME NEW l \in Places
      PROVE  SwapsDownTo(t, r, l) <=> Follows(next, r, l) /\ mLeft(l) \notin DOMAIN t /\ mRight(l) \notin DOMAIN t
  <2>1. Len(l) \in Nat /\ Len(r) \in Nat
    BY <1>2 DEF Places
  <2>2. \A n \in Len(r) .. Len(l) - 1 : Way(l, n) \in Places
    BY <2>1, WayOf
  <2>3. \A n \in Len(r) .. Len(l) - 1 : next[Way(l, n)] = HigherChild(t, Way(l, n))
    BY <1>1, <2>2
  <2> HIDE DEF next
  <2> QED
    BY <2>3 DEF SwapsDownTo, Follows
<1> HIDE DEF next
<1>4. ASSUME NEW l \in DOMAIN t, NEW m \in DOMAIN t, SwapsDownTo(t, r, l), SwapsDownTo(t, r, m), Len(l) <= Len(m)
      PROVE  l = m
  <2>1. IsPrefix(l, m)
    BY <1>2, <1>3, <1>4, OneWay
  <2> QED
    BY <1>4, <2>1, WayDown
<1>5. ASSUME NEW l \in DOMAIN t, NEW m \in DOMAIN t, SwapsDownTo(t, r, l), SwapsDownTo(t, r, m) PROVE l = m
  <2>1. Len(l) \in Nat /\ Len(m) \in Nat
    BY <1>2 DEF Places
  <2>2. Len(l) <= Len(m) \/ Len(m) <= Len(l)
    BY <2>1
  <2> QED
    BY <1>4, <1>5, <2>2
<1>6. \E l \in DOMAIN t : SwapsDownTo(t, r, l)
  <2> DEFINE D == {p \in DOMAIN t : Follows(next, r, p)}
  <2>1. D \in SUBSET Places /\ IsFiniteSet(D)
    <3>1. D \subseteq DOMAIN t
      OBVIOUS
    <3> QED
      BY <3>1, FS_Subset DEF IsTree
  <2>2. r \in D
    <3>1. \A n \in Len(r) .. Len(r) - 1 : FALSE
      <4>1. Len(r) \in Nat
        BY <1>2 DEF Places
      <4> QED
        BY <4>1
    <3> QED
      BY <1>2, <3>1, PrefixOrder DEF Follows
  <2>3. PICK q \in D : \A p \in D : Len(p) <= Len(q)
    BY <2>1, <2>2, LongestPlace
  <2>4. q \in Places /\ q \in DOMAIN t /\ Follows(next, r, q)
    BY <2>1
  <2>5. PICK c : c = next[q]
    OBVIOUS
  <2>6. c \in {mLeft(q), mRight(q)} /\ c = HigherChild(t, q)
    BY <1>1, <2>4, <2>5
  <2>7. c \in Places /\ Follows(next, r, c) /\ Len(c) = Len(q) + 1
    BY <1>2, <2>4, <2>5, <2>6, GoesOn
  <2>8. c \notin DOMAIN t
    <3>1. Len(q) \in Nat /\ ~(Len(c) <= Len(q))
      BY <2>4, <2>7 DEF Places
    <3> QED
      BY <2>3, <2>7, <3>1
  <2>9. mLeft(q) \notin DOMAIN t /\ mRight(q) \notin DOMAIN t
    BY <2>6, <2>8 DEF HigherChild
  <2> QED
    BY <1>3, <2>4, <2>9
<1> QED
  BY <1>5, <1>6

-----------------------------------------------------------------------------
(* The invariant. *)

\* The tree is a heap, of the members, and its top counts them.
HeapInv ==
  /\ IsHeap(tree) /\ Objects(tree) = members
  /\ IsFiniteSet(members) /\ mSize(tree, Top) = Cardinality(members)

\* A tree that is not empty has a top.
LEMMA TopTaken ==
  ASSUME NEW t, IsTree(t), t # Nil
  PROVE  Top \in DOMAIN t
<1>1. DOMAIN t # {}
  <2>1. t = [p \in DOMAIN t |-> t[p]]
    BY DEF IsTree
  <2>2. DOMAIN t = {} => t = [p \in {} |-> 0]
    BY <2>1
  <2> QED
    BY <2>2 DEF Nil
<1>2. PICK p \in DOMAIN t : TRUE
  BY <1>1
<1>3. p \in Places /\ IsPrefix(Top, p) /\ Top \in Places
  BY PrefixOrder DEF IsTree, Top, Places
<1> QED
  BY <1>3 DEF IsTree

\* The empty tree is a heap.
LEMMA EmptyHeap == IsHeap(Nil) /\ Objects(Nil) = {} /\ mSize(Nil, Top) = 0
<1>1. DOMAIN Nil = {}
  BY DEF Nil
<1>2. IsFiniteSet({})
  BY FS_EmptySet
<1>3. IsTree(Nil)
  BY <1>1, <1>2 DEF IsTree, Nil
<1>4. Sized(Nil) /\ Ordered(Nil) /\ Different(Nil)
  BY <1>1 DEF Sized, Ordered, Different
<1> QED
  BY <1>1, <1>3, <1>4 DEF IsHeap, Objects, mSize

\* A push makes a heap of what was there and the new object.
LEMMA PushMakesHeap ==
  ASSUME NEW t, IsHeap(t), NEW d \in Rankables, d \notin Objects(t), NEW e \in Free(t), NEW u, u = PushNode(t, e, d)
  PROVE  IsHeap(u) /\ Objects(u) = Objects(t) \cup {d} /\ mSize(u, Top) = mSize(t, Top) + 1
<1>1. IsTree(t) /\ Sized(t) /\ Ordered(t) /\ Different(t)
  BY DEF IsHeap
<1>2. IsTree(u) /\ Sized(u)
  BY <1>1, PushKeepsTree, PushKeepsSizes
<1>3. Ordered(u) /\ Different(u) /\ Objects(u) = Objects(t) \cup {d}
  BY <1>1, PushKeepsOrder
<1>4. mSize(u, Top) = mSize(t, Top) + 1
  <2>1. Top \in Places /\ IsPrefix(Top, e)
    BY <1>1, FreePlace, PrefixOrder DEF Top, Places
  <2> QED
    BY <1>1, <2>1, PushSizes
<1> QED
  BY <1>2, <1>3, <1>4 DEF IsHeap

\* A pop makes a heap of what was there but the object of the node.
LEMMA PopMakesHeap ==
  ASSUME NEW t, IsHeap(t), NEW r \in DOMAIN t, NEW l \in DOMAIN t, SwapsDownTo(t, r, l), NEW u, u = PopNode(t, r, l)
  PROVE  /\ IsHeap(u) /\ Objects(u) = Objects(t) \ {t[r].data} /\ mSize(u, Top) + 1 = mSize(t, Top)
         /\ mSize(u, Top) \in Nat
<1>1. IsTree(t) /\ Sized(t) /\ Ordered(t) /\ Different(t)
  BY DEF IsHeap
<1>2. IsTree(u) /\ Sized(u)
  BY <1>1, PopKeepsTree
<1>3. Ordered(u) /\ Different(u) /\ Objects(u) = Objects(t) \ {t[r].data}
  BY <1>1, PopKeepsOrder
<1>4. mSize(u, Top) + 1 = mSize(t, Top) /\ mSize(u, Top) \in Nat
  <2>1. Top \in Places /\ IsPrefix(Top, l)
    BY <1>1, WayDown, PrefixOrder DEF Top, Places
  <2> QED
    BY <1>1, <2>1, PopSizes
<1> QED
  BY <1>2, <1>3, <1>4 DEF IsHeap

\* What a push, a pop and a removal do to the invariant.
LEMMA StepKeepsHeap ==
  HeapInv /\ HeapNext => HeapInv'
<1> SUFFICES ASSUME HeapInv, HeapNext PROVE HeapInv'
  OBVIOUS
<1>0. /\ IsHeap(tree) /\ IsTree(tree) /\ Ordered(tree) /\ Objects(tree) = members
      /\ IsFiniteSet(members) /\ mSize(tree, Top) = Cardinality(members)
  BY DEF HeapInv, IsHeap
<1>1. ASSUME NEW d \in Rankables, HeapPush(d) PROVE HeapInv'
  <2>1. PICK e \in Free(tree) : tree' = PushNode(tree, e, d)
    BY <1>1 DEF HeapPush
  <2>2. d \notin members /\ members' = members \cup {d}
    BY <1>1 DEF HeapPush
  <2>3. PICK u : u = tree'
    OBVIOUS
  <2>4. IsHeap(u) /\ Objects(u) = Objects(tree) \cup {d} /\ mSize(u, Top) = mSize(tree, Top) + 1
    BY <1>0, <2>1, <2>2, <2>3, PushMakesHeap
  <2>5. IsFiniteSet(members') /\ Cardinality(members') = Cardinality(members) + 1
    BY <1>0, <2>2, FS_AddElement
  <2> QED
    BY <1>0, <2>2, <2>3, <2>4, <2>5 DEF HeapInv
<1>2. ASSUME NEW r \in DOMAIN tree, NEW l \in DOMAIN tree, SwapsDownTo(tree, r, l),
             tree' = PopNode(tree, r, l), members' = members \ {tree[r].data}
      PROVE  HeapInv'
  <2>1. PICK u : u = tree'
    OBVIOUS
  <2>2. /\ IsHeap(u) /\ Objects(u) = Objects(tree) \ {tree[r].data}
        /\ mSize(u, Top) + 1 = mSize(tree, Top) /\ mSize(u, Top) \in Nat
    BY <1>0, <1>2, <2>1, PopMakesHeap
  <2>3. tree[r].data \in members
    BY <1>0 DEF Objects
  <2>4. IsFiniteSet(members') /\ Cardinality(members') = Cardinality(members) - 1
    BY <1>0, <1>2, <2>3, FS_RemoveElement
  <2>5. mSize(u, Top) = Cardinality(members')
    BY <1>0, <2>2, <2>4
  <2> QED
    BY <1>0, <1>2, <2>1, <2>2, <2>4, <2>5 DEF HeapInv
<1>3. CASE HeapPop
  <2>1. Top \in DOMAIN tree /\ members' = members \ {tree[Top].data}
    BY <1>0, <1>3, TopTaken DEF HeapPop
  <2>2. PICK l \in DOMAIN tree : SwapsDownTo(tree, Top, l) /\ tree' = PopNode(tree, Top, l)
    BY <1>3 DEF HeapPop
  <2> QED
    BY <1>2, <2>1, <2>2
<1>4. ASSUME NEW d \in Rankables, HeapRemove(d) PROVE HeapInv'
  <2>1. PICK u : u = tree'
    OBVIOUS
  <2>2. RemoveNode(tree, d, u) /\ members' = members \ {d}
    BY <1>4, <2>1 DEF HeapRemove
  <2>3. \/ d \notin Objects(tree) /\ u = tree
        \/ \E r \in DOMAIN tree, l \in DOMAIN tree :
             tree[r].data = d /\ SwapsDownTo(tree, r, l) /\ u = PopNode(tree, r, l)
    BY <1>0, <2>2, RemoveFinds
  <2>4. CASE d \notin Objects(tree) /\ u = tree
    <3>1. tree' = tree /\ members' = members
      BY <1>0, <2>1, <2>2, <2>4
    <3> QED
      BY <1>0, <3>1 DEF HeapInv
  <2>5. ASSUME NEW r \in DOMAIN tree, NEW l \in DOMAIN tree,
               tree[r].data = d, SwapsDownTo(tree, r, l), u = PopNode(tree, r, l)
        PROVE  HeapInv'
    BY <1>2, <2>1, <2>2, <2>5
  <2> QED
    BY <2>3, <2>4, <2>5
<1> QED
  BY <1>1, <1>3, <1>4 DEF HeapNext

\* The invariant holds of every state.
LEMMA HeapAlways == HeapSpec => []HeapInv
<1>1. HeapInit => HeapInv
  <2> SUFFICES ASSUME HeapInit PROVE HeapInv
    OBVIOUS
  <2>1. tree = Nil /\ members = {}
    BY DEF HeapInit
  <2>2. IsFiniteSet({}) /\ Cardinality({}) = 0
    BY FS_EmptySet
  <2> QED
    BY <2>1, <2>2, EmptyHeap DEF HeapInv
<1>2. HeapInv /\ UNCHANGED heapVars => HeapInv'
  BY DEF HeapInv, heapVars
<1>3. HeapInv /\ [HeapNext]_heapVars => HeapInv'
  BY <1>2, StepKeepsHeap
<1> QED
  BY <1>1, <1>3, PTL DEF HeapSpec

\* After any pushes, pops and removals every node counts its subtree and is outranked
\* by none in it, the heap holds what was pushed and neither popped nor removed, and the
\* recursions of push(), pop() and remove() have one end each.
THEOREM HeapIsSound == HeapSpec => []HeapSound
<1>1. HeapInv => HeapInOrder
  <2> SUFFICES ASSUME HeapInv PROVE HeapInOrder
    OBVIOUS
  <2>1. IsTree(tree) /\ Sized(tree) /\ Ordered(tree)
    BY DEF HeapInv, IsHeap
  <2>2. \A p \in DOMAIN tree : Rank[tree[p].data] \in Nat
    BY <2>1, HeapAssumption DEF IsTree
  <2>3. \A p, q \in DOMAIN tree : IsPrefix(p, q) => ~OutRanks(tree[q].data, tree[p].data)
    BY <2>1, <2>2 DEF Ordered, OutRanks
  <2> QED
    BY <2>1, <2>3 DEF HeapInOrder, Sized
<1>2. HeapInv => HeapHoldsMembers
  BY DEF HeapInv, HeapHoldsMembers, Objects
<1>3. HeapInv => HeapWaysEnd
  <2> SUFFICES ASSUME HeapInv PROVE HeapWaysEnd
    OBVIOUS
  <2>1. IsTree(tree)
    BY DEF HeapInv, IsHeap
  <2>2. \E e \in Free(tree) : DropsTo(tree, e) /\ \A f \in Free(tree) : DropsTo(tree, f) => e = f
    BY <2>1, PushEnds
  <2>3. \A r \in DOMAIN tree :
          \E l \in DOMAIN tree : SwapsDownTo(tree, r, l) /\ \A m \in DOMAIN tree : SwapsDownTo(tree, r, m) => l = m
    BY <2>1, PopEnds
  <2> QED
    BY <2>2, <2>3 DEF HeapWaysEnd
<1> QED
  BY <1>1, <1>2, <1>3, HeapAlways, PTL DEF HeapSound

\* A pop gives what none that stays outranks, and a push makes no node more than one out
\* of balance that was not so before.
THEOREM HeapStepsHold == HeapSpec => HeapSteps
<1>1. HeapInv /\ [HeapNext]_heapVars => [\A d \in popped', e \in members : ~OutRanks(e, d)]_heapVars
  <2> SUFFICES ASSUME HeapInv, HeapNext, NEW d \in popped', NEW e \in members PROVE ~OutRanks(e, d)
    OBVIOUS
  <2>1. HeapPop
    BY DEF HeapNext, HeapPush, HeapRemove
  <2>2. IsTree(tree) /\ Ordered(tree) /\ Objects(tree) = members
    BY DEF HeapInv, IsHeap
  <2>3. Top \in DOMAIN tree /\ d = tree[Top].data
    BY <2>1, <2>2, TopTaken DEF HeapPop
  <2>4. PICK p \in DOMAIN tree : e = tree[p].data
    BY <2>2 DEF Objects
  <2>5. IsPrefix(Top, p)
    BY <2>2, PrefixOrder DEF IsTree
  <2>6. Rank[e] \in Nat /\ Rank[d] \in Nat /\ Rank[e] <= Rank[d]
    BY <2>2, <2>3, <2>4, <2>5, HeapAssumption DEF IsTree, Ordered
  <2> QED
    BY <2>6 DEF OutRanks
<1>2. HeapInv /\ [HeapNext]_heapVars =>
        [\A d \in members' \ members, p \in DOMAIN tree' :
           Imbalance(tree', p) <= 1 \/ (p \in DOMAIN tree /\ Imbalance(tree', p) <= Imbalance(tree, p))]_heapVars
  <2> SUFFICES ASSUME HeapInv, HeapNext, NEW c \in members' \ members, NEW p \in DOMAIN tree'
               PROVE  Imbalance(tree', p) <= 1 \/ (p \in DOMAIN tree /\ Imbalance(tree', p) <= Imbalance(tree, p))
    OBVIOUS
  <2>1. PICK d \in Rankables : HeapPush(d)
    BY DEF HeapNext, HeapPop, HeapRemove
  <2>2. PICK e \in Free(tree) : DropsTo(tree, e) /\ tree' = PushNode(tree, e, d)
    BY <2>1 DEF HeapPush
  <2>3. PICK u : u = tree'
    OBVIOUS
  <2>4. IsTree(tree)
    BY DEF HeapInv, IsHeap
  <2>5. \A q \in DOMAIN u : Imbalance(u, q) <= 1 \/ (q \in DOMAIN tree /\ Imbalance(u, q) <= Imbalance(tree, q))
    BY <2>2, <2>3, <2>4, PushBalances
  <2> QED
    BY <2>3, <2>5
<1> QED
  BY <1>1, <1>2, HeapAlways, PTL DEF HeapSpec, HeapSteps, HeapPopsHighest, HeapPushBalances
=============================================================================
