------------------------- MODULE SuplEmergencyProofs -------------------------
(***************************************************************************)
(* The emergency data call, for any set of clients and any number of       *)
(* retries: the machine covers the call, a call is started only when the   *)
(* last one is gone for good, and stopped only when nobody uses it.        *)
(***************************************************************************)
EXTENDS SuplEmergency, SequenceTheorems, FiniteSetTheorems, WellFoundedInduction, TLAPS

-----------------------------------------------------------------------------
(* The elements of a list that are in a set. *)

\* A set of numbers that is not empty has a least member.
LEMMA LeastNumber ==
  ASSUME NEW T \in SUBSET Nat, T # {}
  PROVE  \E m \in T : \A k \in T : m <= k
<1> DEFINE UpTo(m) == {k \in T : k <= m}
<1> DEFINE Parts == {UpTo(m) : m \in T}
<1>1. Parts \subseteq FiniteSubsetsOf(Nat)
  <2> SUFFICES ASSUME NEW m \in T PROVE UpTo(m) \in SUBSET Nat /\ IsFiniteSet(UpTo(m))
    BY DEF FiniteSubsetsOf
  <2>1. UpTo(m) \in SUBSET Nat /\ m \in Nat /\ \A k \in UpTo(m) : k <= m
    OBVIOUS
  <2> QED
    BY <2>1, FS_BoundedSetOfNaturals
<1>2. Parts # {}
  OBVIOUS
<1>3. \E D \in Parts : \A E \in Parts : <<E, D>> \notin StrictSubsetOrdering(Nat)
  BY <1>1, <1>2, FS_StrictSubsetOrderingWellFounded, WFMin
<1>4. PICK m \in T : \A k \in T : <<UpTo(k), UpTo(m)>> \notin StrictSubsetOrdering(Nat)
  BY <1>3
<1>5. ASSUME NEW k \in T, k < m PROVE FALSE
  <2> k \in Nat /\ m \in Nat
    OBVIOUS
  <2>1. UpTo(k) \subseteq UpTo(m)
    <3> SUFFICES ASSUME NEW i \in T, i <= k PROVE i <= m
      OBVIOUS
    <3> i \in Nat
      OBVIOUS
    <3> QED
      BY <1>5
  <2>2. m \in UpTo(m) /\ m \notin UpTo(k)
    BY <1>5
  <2>3. UpTo(k) \in SUBSET Nat /\ UpTo(m) \in SUBSET Nat /\ UpTo(k) # UpTo(m)
    BY <2>2
  <2> HIDE DEF UpTo
  <2>4. <<UpTo(k), UpTo(m)>> \in StrictSubsetOrdering(Nat)
    BY <2>1, <2>3 DEF StrictSubsetOrdering
  <2> QED
    BY <1>4, <2>4
<1> QED
  BY <1>5

\* How far Within has come, for each beginning of the list.
Beginnings(list, S, n, f) ==
  f = [i \in 0..n |-> IF i = 0 THEN <<>>
                      ELSE IF list[i] \in S THEN Append(f[i - 1], list[i]) ELSE f[i - 1]]

\* The recursion of Within has a solution.
LEMMA BeginningsExist ==
  ASSUME NEW list, NEW S, NEW n \in Nat
  PROVE  \E f : Beginnings(list, S, n, f)
<1> DEFINE Without == {m \in Nat : ~\E f : Beginnings(list, S, m, f)}
<1>1. SUFFICES Without = {}
  OBVIOUS
<1>2. SUFFICES ASSUME Without # {} PROVE FALSE
  OBVIOUS
<1>3. PICK m \in Without : \A k \in Without : m <= k
  BY <1>2, LeastNumber
<1>4. CASE m = 0
  <2>1. Beginnings(list, S, 0, [i \in 0..0 |-> <<>>])
    BY DEF Beginnings
  <2> QED
    BY <1>4, <2>1
<1>5. CASE m # 0
  <2>1. m - 1 \in Nat /\ m - 1 \notin Without
    BY <1>3, <1>5
  <2>2. PICK f : Beginnings(list, S, m - 1, f)
    BY <2>1
  <2> DEFINE g == [i \in 0..m |-> IF i < m THEN f[i]
                     ELSE IF list[m] \in S THEN Append(f[m - 1], list[m]) ELSE f[m - 1]]
  <2>3. \A i \in 0..(m - 1) : f[i] = IF i = 0 THEN <<>>
                      ELSE IF list[i] \in S THEN Append(f[i - 1], list[i]) ELSE f[i - 1]
    BY <2>2 DEF Beginnings
  <2>4. ASSUME NEW i \in 0..m
        PROVE  g[i] = IF i = 0 THEN <<>>
                      ELSE IF list[i] \in S THEN Append(g[i - 1], list[i]) ELSE g[i - 1]
    <3>1. CASE i = 0
      BY <3>1, <2>3, <2>1, <1>5
    <3>2. CASE i # 0 /\ i < m
      <4>1. g[i] = f[i] /\ g[i - 1] = f[i - 1] /\ i \in 0..(m - 1)
        BY <3>2, <2>1
      <4> HIDE DEF g
      <4> QED
        BY <4>1, <2>3, <3>2
    <3>3. CASE i = m
      BY <3>3, <2>1, <1>5
    <3> QED
      BY <3>1, <3>2, <3>3
  <2>5. Beginnings(list, S, m, g)
    <3>1. g = [i \in 0..m |-> g[i]]
      OBVIOUS
    <3> HIDE DEF g
    <3> QED
      BY <3>1, <2>4 DEF Beginnings
  <2> QED
    BY <2>5
<1> QED
  BY <1>4, <1>5

LEMMA WithinStep ==
  ASSUME NEW T, NEW list \in Seq(T), NEW S
  PROVE  \E f : Beginnings(list, S, Len(list), f) /\ Within(list, S) = f[Len(list)]
<1>1. \E f : Beginnings(list, S, Len(list), f)
  BY BeginningsExist, LenProperties
<1> QED
  BY <1>1 DEF Within, Beginnings
\* What holds of the elements of S among the first n of a list.
Selected(list, T, S, n, q) ==
  /\ q \in Seq(T)
  /\ \A x : (\E i \in DOMAIN q : q[i] = x) <=> x \in S /\ \E i \in 1..n : list[i] = x
  /\ IsInjective(list) => IsInjective(q)

\* One element more.
LEMMA SelectsOneMore ==
  ASSUME NEW T, NEW list \in Seq(T), NEW S, NEW n \in 1..Len(list), NEW q,
         Selected(list, T, S, n - 1, q)
  PROVE  Selected(list, T, S, n, IF list[n] \in S THEN Append(q, list[n]) ELSE q)
<1> DEFINE r == IF list[n] \in S THEN Append(q, list[n]) ELSE q
<1>0. q \in Seq(T) /\ list[n] \in T /\ n - 1 \in Nat /\ n \in DOMAIN list
  BY DEF Selected
<1>1. \A x : (\E i \in 1..n : list[i] = x) <=> x = list[n] \/ \E i \in 1..(n - 1) : list[i] = x
  BY <1>0
<1>2. CASE list[n] \notin S
  <2>1. r = q
    BY <1>2
  <2> HIDE DEF r
  <2> QED
    BY <1>1, <1>2, <2>1 DEF Selected, r
<1>3. CASE list[n] \in S
  <2>1. r = Append(q, list[n])
    BY <1>3
  <2>2. /\ r \in Seq(T) /\ Len(q) \in Nat /\ DOMAIN r = 1..(Len(q) + 1) /\ DOMAIN q = 1..Len(q)
        /\ \A i \in DOMAIN q : r[i] = q[i]
        /\ r[Len(q) + 1] = list[n]
    BY <1>0, <2>1
  <2> HIDE DEF r
  <2>3. \A x : (\E i \in DOMAIN r : r[i] = x) <=> x = list[n] \/ \E i \in DOMAIN q : q[i] = x
    BY <2>2
  <2>4. ASSUME IsInjective(list) PROVE IsInjective(r)
    <3>1. \A i \in DOMAIN q : q[i] # list[n]
      <4> SUFFICES ASSUME NEW i \in DOMAIN q, q[i] = list[n] PROVE FALSE
        OBVIOUS
      <4>1. PICK j \in 1..(n - 1) : list[j] = list[n]
        BY DEF Selected
      <4> QED
        BY <1>0, <2>4, <4>1 DEF IsInjective
    <3>2. \A i, j \in DOMAIN q : q[i] = q[j] => i = j
      BY <2>4 DEF Selected, IsInjective
    <3>3. ASSUME NEW i \in DOMAIN r, NEW j \in DOMAIN r, r[i] = r[j] PROVE i = j
      BY <2>2, <3>1, <3>2, <3>3
    <3> QED
      BY <3>3 DEF IsInjective
  <2>5. \A x : (\E i \in DOMAIN r : r[i] = x) <=> x \in S /\ \E i \in 1..n : list[i] = x
    BY <1>1, <1>3, <2>3 DEF Selected
  <2> QED
    BY <2>1, <2>2, <2>4, <2>5, <1>3 DEF Selected
<1> QED
  BY <1>2, <1>3

\* Within gives the elements of the list that are in S, each as often as before.
LEMMA WithinSelects ==
  ASSUME NEW T, NEW list \in Seq(T), NEW S
  PROVE  Selected(list, T, S, Len(list), Within(list, S))
<1>1. PICK f : Beginnings(list, S, Len(list), f) /\ Within(list, S) = f[Len(list)]
  BY WithinStep
<1> DEFINE Bad == {n \in 0..Len(list) : ~Selected(list, T, S, n, f[n])}
<1>2. SUFFICES ASSUME Bad # {} PROVE FALSE
  BY <1>1
<1>3. PICK m \in Bad : \A k \in Bad : m <= k
  <2>1. Bad \subseteq Nat
    OBVIOUS
  <2> QED
    BY <1>2, <2>1, LeastNumber
<1>4. \A i \in 0..Len(list) : f[i] = IF i = 0 THEN <<>>
                      ELSE IF list[i] \in S THEN Append(f[i - 1], list[i]) ELSE f[i - 1]
  BY <1>1 DEF Beginnings
<1>5. m # 0
  <2> SUFFICES ASSUME m = 0 PROVE FALSE
    OBVIOUS
  <2>1. f[0] = <<>>
    BY <1>4
  <2>2. Selected(list, T, S, 0, <<>>)
    BY DEF Selected, IsInjective
  <2> QED
    BY <1>3, <2>1, <2>2
<1>6. m - 1 \in 0..Len(list) /\ m \in 1..Len(list) /\ m - 1 \notin Bad
  BY <1>3, <1>5
<1>7. Selected(list, T, S, m - 1, f[m - 1])
  BY <1>6
<1>8. f[m] = IF list[m] \in S THEN Append(f[m - 1], list[m]) ELSE f[m - 1]
  BY <1>4, <1>6
<1> HIDE DEF Bad
<1>9. Selected(list, T, S, m, f[m])
  BY <1>6, <1>7, <1>8, SelectsOneMore
<1> QED
  BY <1>3, <1>9 DEF Bad

\* The same, in the words of the model.
LEMMA WithinFits ==
  ASSUME NEW T, NEW list \in Seq(T), NEW S
  PROVE  /\ Within(list, S) \in Seq(T)
         /\ ToSet(Within(list, S)) = ToSet(list) \cap S
         /\ IsInjective(list) => IsInjective(Within(list, S))
<1>1. Selected(list, T, S, Len(list), Within(list, S))
  BY WithinSelects
<1>2. DOMAIN list = 1..Len(list)
  OBVIOUS
<1> QED
  BY <1>1, <1>2 DEF Selected, ToSet

\* The first of a set's newcomers, of which there is one at most.
LEMMA NewcomerFirst ==
  ASSUME NEW T, NEW h \in T, NEW q \in Seq(T), h \notin ToSet(q), IsInjective(q)
  PROVE  /\ SetToSeq({h}) = <<h>> /\ SetToSeq({}) = <<>>
         /\ <<h>> \o q \in Seq(T) /\ <<>> \o q = q
         /\ ToSet(<<h>> \o q) = {h} \cup ToSet(q)
         /\ IsInjective(<<h>> \o q)
<1>1. SetToSeq({h}) = <<h>>
  <2>1. Cardinality({h}) = 1
    BY FS_Singleton
  <2>2. <<h>> \in [1..1 -> {h}] /\ IsInjective(<<h>>)
    BY DEF IsInjective
  <2>3. \A f \in [1..1 -> {h}] : f = <<h>>
    <3> SUFFICES ASSUME NEW f \in [1..1 -> {h}] PROVE f = <<h>>
      OBVIOUS
    <3>1. f[1] = h /\ DOMAIN f = 1..1
      OBVIOUS
    <3> QED
      BY <3>1
  <2> QED
    BY <2>1, <2>2, <2>3 DEF SetToSeq
<1>2. SetToSeq({}) = <<>>
  <2>1. Cardinality({}) = 0
    BY FS_EmptySet
  <2>2. <<>> \in [1..0 -> {}] /\ IsInjective(<<>>)
    BY DEF IsInjective
  <2>3. \A f \in [1..0 -> {}] : f = <<>>
    OBVIOUS
  <2> QED
    BY <2>1, <2>2, <2>3 DEF SetToSeq
<1> DEFINE r == <<h>> \o q
<1>3. /\ r \in Seq(T) /\ <<>> \o q = q /\ DOMAIN q = 1..Len(q) /\ DOMAIN r = 1..(Len(q) + 1) /\ Len(q) \in Nat
      /\ r[1] = h /\ \A i \in 2..(Len(q) + 1) : r[i] = q[i - 1] /\ i - 1 \in DOMAIN q
      /\ \A i \in DOMAIN q : r[i + 1] = q[i] /\ i + 1 \in DOMAIN r
  OBVIOUS
<1> HIDE DEF r
<1>4. ToSet(r) = {h} \cup ToSet(q)
  <2>1. ASSUME NEW x \in ToSet(r) PROVE x \in {h} \cup ToSet(q)
    <3> PICK i \in DOMAIN r : r[i] = x
      BY DEF ToSet
    <3> CASE i = 1
      BY <1>3
    <3> CASE i # 1
      <4>1. i \in 2..(Len(q) + 1)
        BY <1>3
      <4> QED
        BY <4>1, <1>3 DEF ToSet
    <3> QED
      OBVIOUS
  <2>2. ASSUME NEW x \in {h} \cup ToSet(q) PROVE x \in ToSet(r)
    <3> CASE x = h
      BY <1>3 DEF ToSet
    <3> CASE x \in ToSet(q)
      <4> PICK i \in DOMAIN q : q[i] = x
        BY DEF ToSet
      <4> QED
        BY <1>3 DEF ToSet
    <3> QED
      OBVIOUS
  <2> QED
    BY <2>1, <2>2
<1>5. IsInjective(r)
  <2> SUFFICES ASSUME NEW i \in DOMAIN r, NEW j \in DOMAIN r, r[i] = r[j] PROVE i = j
    BY DEF IsInjective
  <2>1. \A k \in DOMAIN q : q[k] # h
    BY DEF ToSet
  <2>2. \A k, l \in DOMAIN q : q[k] = q[l] => k = l
    BY DEF IsInjective
  <2>3. ASSUME NEW k \in DOMAIN r, k # 1
        PROVE  r[k] = q[k - 1] /\ k - 1 \in DOMAIN q /\ r[k] # h
    <3>1. k \in 2..(Len(q) + 1)
      BY <1>3, <2>3
    <3> QED
      BY <1>3, <2>1, <3>1
  <2>4. i \in Int /\ j \in Int
    BY <1>3
  <2>5. CASE i = 1 \/ j = 1
    BY <1>3, <2>3, <2>5
  <2>6. CASE i # 1 /\ j # 1
    <3>1. i - 1 = j - 1
      BY <2>2, <2>3, <2>6
    <3> QED
      BY <2>4, <3>1
  <2> QED
    BY <2>5, <2>6
<1> QED
  BY <1>1, <1>2, <1>3, <1>4, <1>5 DEF r

-----------------------------------------------------------------------------
(* The invariant. *)

In(x, q) == \E i \in DOMAIN q : q[i] = x

Opened == <<"CALL", "OPENED">>
Closed == <<"CALL", "CLOSED">>

\* The news of the call come in the order in which they happen.
InTurn(q) ==
  \A i, j \in DOMAIN q : i < j /\ q[i][1] = "CALL" /\ q[j][1] = "CALL" => q[i] = Opened /\ q[j] = Closed

\* The list is one of the handles, and nobody waits for a close in Released.
ListFits == order \in Seq(Handles) /\ (state = "Released" => inactive = {})

\* The machine covers the call, or the news of its end are on their way.
CallFits ==
  /\ InTurn(queue)
  /\ In(Closed, queue) => call = "idle" /\ state # "Released"
  /\ In(Opened, queue) => call \in {"up", "stopping"} \/ (call = "idle" /\ In(Closed, queue))
  /\ In(Opened, queue) => state \in {"Pending", "Releasing"}
  /\ call = "starting" => state = "Pending"
  /\ call = "up" => state \in {"Pending", "Acquired"}
  /\ call = "stopping" => state = "Releasing"

\* Whoever is inactive, or has a release in the queue, has given the link up.
LeaversGaveUp ==
  \A h \in Handles : h \in inactive \/ In(<<"RELEASE_ATL", h>>, queue) => phase[h] \in {"releasing", "done"}

EmergencyIInv == TypeOK /\ ListFits /\ CallFits /\ LeaversGaveUp

-----------------------------------------------------------------------------
(* The queue. *)

\* Taking the head and posting requests for the ordinary interface.
LEMMA Served ==
  ASSUME NEW q \in Seq(Messages), q # <<>>, NEW s \in Seq({"REQUEST_ATL"} \X Handles), NEW r, r = Tail(q) \o s
  PROVE  /\ r \in Seq(Messages)
         /\ \A x : x[1] # "REQUEST_ATL" => (In(x, q) <=> x = Head(q) \/ In(x, r))
         /\ InTurn(q) => InTurn(r)
         /\ InTurn(q) /\ Head(q)[1] = "CALL" => ~In(Opened, r) /\ (In(Closed, r) => Head(q) = Opened)
         /\ \A i \in DOMAIN Tail(q) : Tail(q)[i] = r[i] /\ i \in DOMAIN r
<1>1. /\ Len(q) \in Nat /\ Len(q) >= 1 /\ DOMAIN q = 1..Len(q) /\ Head(q) = q[1] /\ 1 \in DOMAIN q
      /\ Len(s) \in Nat /\ DOMAIN s = 1..Len(s)
      /\ DOMAIN r = 1..(Len(q) - 1 + Len(s))
      /\ \A i \in 1..(Len(q) - 1) : r[i] = q[i + 1] /\ i \in DOMAIN r /\ i + 1 \in DOMAIN q
      /\ \A i \in DOMAIN q : i # 1 => i - 1 \in 1..(Len(q) - 1) /\ r[i - 1] = q[i]
      /\ DOMAIN Tail(q) = 1..(Len(q) - 1) /\ \A i \in 1..(Len(q) - 1) : Tail(q)[i] = r[i]
  OBVIOUS
<1>2. \A i \in DOMAIN r : i \notin 1..(Len(q) - 1) => r[i] \in {"REQUEST_ATL"} \X Handles
  <2> SUFFICES ASSUME NEW i \in DOMAIN r, i \notin 1..(Len(q) - 1) PROVE r[i] \in {"REQUEST_ATL"} \X Handles
    OBVIOUS
  <2>1. i - (Len(q) - 1) \in DOMAIN s /\ r[i] = s[i - (Len(q) - 1)]
    BY <1>1
  <2> QED
    BY <2>1
<1>3. \A i \in DOMAIN r : i \notin 1..(Len(q) - 1) => r[i][1] = "REQUEST_ATL"
  BY <1>2
<1>4. r \in Seq(Messages)
  <2>1. Tail(q) \in Seq(Messages) /\ s \in Seq(Messages)
    BY DEF Messages
  <2> QED
    BY <2>1
<1>5. ASSUME NEW x, x[1] # "REQUEST_ATL" PROVE In(x, q) <=> x = Head(q) \/ In(x, r)
  <2>1. ASSUME In(x, q), x # Head(q) PROVE In(x, r)
    <3>1. PICK i \in DOMAIN q : q[i] = x
      BY <2>1 DEF In
    <3>2. i # 1
      BY <1>1, <2>1, <3>1
    <3>3. r[i - 1] = x /\ i - 1 \in DOMAIN r
      BY <1>1, <3>1, <3>2
    <3> QED
      BY <3>3 DEF In
  <2>2. ASSUME In(x, r) PROVE In(x, q)
    <3> PICK i \in DOMAIN r : r[i] = x
      BY <2>2 DEF In
    <3>1. i \in 1..(Len(q) - 1)
      BY <1>3, <1>5
    <3> QED
      BY <1>1, <3>1 DEF In
  <2>3. In(Head(q), q)
    BY <1>1 DEF In
  <2> QED
    BY <2>1, <2>2, <2>3
<1>6. ASSUME InTurn(q) PROVE InTurn(r)
  <2> SUFFICES ASSUME NEW i \in DOMAIN r, NEW j \in DOMAIN r, i < j, r[i][1] = "CALL", r[j][1] = "CALL"
               PROVE  r[i] = Opened /\ r[j] = Closed
    BY DEF InTurn
  <2>1. i \in 1..(Len(q) - 1) /\ j \in 1..(Len(q) - 1)
    BY <1>3
  <2>2. /\ r[i] = q[i + 1] /\ r[j] = q[j + 1] /\ i + 1 \in DOMAIN q /\ j + 1 \in DOMAIN q /\ i + 1 < j + 1
    BY <1>1, <2>1
  <2> QED
    BY <1>6, <2>2 DEF InTurn
<1>7. ASSUME InTurn(q), Head(q)[1] = "CALL", NEW e \in {"OPENED", "CLOSED"}, In(<<"CALL", e>>, r)
      PROVE  Head(q) = Opened /\ <<"CALL", e>> = Closed
  <2> PICK i \in DOMAIN r : r[i] = <<"CALL", e>>
    BY <1>7 DEF In
  <2>1. i \in 1..(Len(q) - 1)
    BY <1>3
  <2>2. q[i + 1] = <<"CALL", e>> /\ i + 1 \in DOMAIN q /\ 1 < i + 1 /\ q[1][1] = "CALL"
    BY <1>1, <1>7, <2>1
  <2>3. q[i + 1][1] = "CALL"
    BY <2>2
  <2>4. q[1] = Opened /\ q[i + 1] = Closed
    BY <1>1, <1>7, <2>2, <2>3 DEF InTurn
  <2> QED
    BY <1>1, <2>2, <2>4
<1>8. Opened # Closed
  BY DEF Opened, Closed
<1>9. InTurn(q) /\ Head(q)[1] = "CALL" => ~In(Opened, r) /\ (In(Closed, r) => Head(q) = Opened)
  BY <1>7, <1>8 DEF Opened, Closed
<1> QED
  BY <1>1, <1>4, <1>5, <1>6, <1>9

\* What a queue with one more message at its tail has of the queue before.
Follows(q, m, r) ==
  /\ r \in Seq(Messages)
  /\ \A x : In(x, r) <=> In(x, q) \/ x = m
  /\ InTurn(q) /\ m[1] # "CALL" => InTurn(r)
  /\ InTurn(q) /\ ~In(Opened, q) /\ ~In(Closed, q) => InTurn(r)
  /\ InTurn(q) /\ ~In(Closed, q) /\ m = Closed => InTurn(r)

\* Posting at the tail: news of the call only after those of the same call.
LEMMA PostedLast ==
  ASSUME NEW q \in Seq(Messages), NEW m \in Messages, NEW r, r = Append(q, m)
  PROVE  Follows(q, m, r)
<1>1. /\ r \in Seq(Messages) /\ Len(q) \in Nat /\ DOMAIN q = 1..Len(q) /\ DOMAIN r = 1..(Len(q) + 1)
      /\ r[Len(q) + 1] = m /\ \A i \in DOMAIN q : r[i] = q[i] /\ i \in DOMAIN r /\ q[i] \in Messages
  OBVIOUS
<1>2. \A x : In(x, r) <=> In(x, q) \/ x = m
  BY <1>1 DEF In
<1>3. \A x \in Messages : x[1] = "CALL" => x \in {Opened, Closed}
  BY DEF Messages, Opened, Closed
<1>4. ASSUME InTurn(q), \/ m[1] # "CALL"
                        \/ ~In(Opened, q) /\ ~In(Closed, q)
                        \/ ~In(Closed, q) /\ m = Closed
      PROVE  InTurn(r)
  <2> SUFFICES ASSUME NEW i \in DOMAIN r, NEW j \in DOMAIN r, i < j, r[i][1] = "CALL", r[j][1] = "CALL"
               PROVE  r[i] = Opened /\ r[j] = Closed
    BY DEF InTurn
  <2>0. i \in DOMAIN q /\ r[i] = q[i] /\ r[i] \in {Opened, Closed}
    BY <1>1, <1>3
  <2>1. CASE j \in DOMAIN q
    BY <1>1, <1>4, <2>0, <2>1 DEF InTurn
  <2>2. CASE j \notin DOMAIN q
    <3>1. r[j] = m
      BY <1>1, <2>2
    <3>2. In(r[i], q)
      BY <2>0 DEF In
    <3> QED
      BY <1>4, <2>0, <3>1, <3>2
  <2> QED
    BY <2>1, <2>2
<1> QED
  BY <1>1, <1>2, <1>4 DEF Follows

-----------------------------------------------------------------------------
(* What a step of the machine does to everybody else. *)

\* The list stays the list of the machine's subscribers.
LEMMA ListStays ==
  ASSUME TypeOK, ListFits, NEW h, subs' \subseteq subs \cup {h}, subs' \subseteq Handles,
         subs' \subseteq subs \/ subs \subseteq subs', ListFollows
  PROVE  order' \in Seq(Handles) /\ ToSet(order') = subs' /\ IsInjective(order')
<1> DEFINE w == Within(order, subs')
<1>1. w \in Seq(Handles) /\ ToSet(w) = subs \cap subs' /\ IsInjective(w)
  <2>1. order \in Seq(Handles) /\ ToSet(order) = subs /\ IsInjective(order)
    BY DEF TypeOK, ListFits
  <2> QED
    BY <2>1, WithinFits
<1>2. order' = SetToSeq(subs' \ subs) \o w
  BY DEF ListFollows
<1> HIDE DEF w
<1>3. CASE subs' \subseteq subs
  <2>1. subs' \ subs = {} /\ subs \cap subs' = subs'
    BY <1>3
  <2>2. SetToSeq({}) = <<>>
    <3>1. h \in {h} /\ <<>> \in Seq({h}) /\ h \notin ToSet(<<>>) /\ IsInjective(<<>>)
      BY DEF ToSet, IsInjective
    <3> QED
      BY <3>1, NewcomerFirst
  <2>3. order' = w
    <3>1. order' = <<>> \o w
      BY <1>2, <2>1, <2>2
    <3> QED
      BY <1>1, <3>1, ConcatEmptySeq
  <2> QED
    BY <1>1, <2>1, <2>3
<1>4. CASE ~(subs' \subseteq subs)
  <2>1. h \in Handles /\ subs' \ subs = {h} /\ subs \cap subs' = subs /\ h \notin subs /\ subs' = {h} \cup subs
    BY <1>4
  <2>2. order' = SetToSeq({h}) \o w /\ ToSet(w) = subs
    BY <1>1, <1>2, <2>1
  <2>3. /\ SetToSeq({h}) = <<h>> /\ <<h>> \o w \in Seq(Handles)
        /\ ToSet(<<h>> \o w) = {h} \cup ToSet(w) /\ IsInjective(<<h>> \o w)
    BY <1>1, <2>1, <2>2, NewcomerFirst
  <2> QED
    BY <2>1, <2>2, <2>3
<1> QED
  BY <1>3, <1>4

\* A list of handles makes as many requests for the ordinary interface.
LEMMA FallbackFits ==
  ASSUME NEW list \in Seq(Handles)
  PROVE  Fallback(list) \in Seq({"REQUEST_ATL"} \X Handles)
  BY DEF Fallback

\* What the request for the data services, or its failure, leads to.
LEMMA AskedFits ==
  ASSUME TypeOK, ListFits, NEW r \in Results, CallAsked(r), req' \in {"REQUEST", "RELEASE", "NONE"},
         order' \in Seq(Handles), ToSet(order') = subs',
         req' = "REQUEST" => SM!Active' # {}
  PROVE  /\ \E s \in Seq({"REQUEST_ATL"} \X Handles) : queue' = Tail(queue) \o s
         /\ retries' \in 0..MaxRetries /\ timers' \in Nat /\ call' \in Calls
         /\ req' = "REQUEST" => IF r = "SUCCESS" THEN call = "idle" /\ call' = "starting" ELSE call' = call
         /\ req' = "RELEASE" => call' = IF call \in {"starting", "up"} THEN "stopping" ELSE call
         /\ req' = "NONE" => call' = call
<1> USE EmergencyAssumption
<1>0. /\ queue \in Seq(Messages) /\ retries \in 0..MaxRetries /\ timers \in Nat /\ call \in Calls
      /\ <<>> \in Seq({"REQUEST_ATL"} \X Handles)
  BY DEF TypeOK
<1>1. CASE req' = "REQUEST"
  <2> DEFINE client == NewestActive(order', SM!Active')
             again  == r = "BUSY" /\ retries < MaxRetries
  <2>1. StartCall(r) /\ (r = "SUCCESS" => call = "idle")
    BY <1>1 DEF CallAsked
  <2>2. client \in Handles
    <3> DEFINE w == Within(order', SM!Active')
    <3>1. w \in Seq(Handles) /\ ToSet(w) = subs' \cap SM!Active'
      BY WithinFits
    <3>2. SM!Active' \subseteq subs' /\ SM!Active' # {}
      BY <1>1 DEF SM!Active
    <3> HIDE DEF w
    <3>3. w # <<>>
      BY <3>1, <3>2 DEF ToSet
    <3>4. w[1] \in Handles
      BY <3>1, <3>3
    <3> QED
      BY <3>4 DEF NewestActive, w
  <2>3. Fallback(<<client>>) \in Seq({"REQUEST_ATL"} \X Handles)
    <3> HIDE DEF client
    <3>1. <<client>> \in Seq(Handles)
      BY <2>2
    <3> QED
      BY <3>1, FallbackFits
  <2>4. /\ call' = IF r = "SUCCESS" THEN "starting" ELSE call
        /\ timers' = IF again THEN timers + 1 ELSE timers
        /\ retries' = IF again THEN retries + 1 ELSE IF r = "SUCCESS" THEN retries ELSE 0
        /\ queue' = Tail(queue) \o IF again \/ r = "SUCCESS" THEN <<>> ELSE Fallback(<<client>>)
    BY <2>1 DEF StartCall
  <2> HIDE DEF client
  <2>5. \E s \in Seq({"REQUEST_ATL"} \X Handles) : queue' = Tail(queue) \o s
    BY <1>0, <2>3, <2>4
  <2>6. retries' \in 0..MaxRetries /\ timers' \in Nat /\ call' \in Calls
    BY <1>0, <2>4 DEF Calls
  <2> QED
    BY <1>1, <2>1, <2>4, <2>5, <2>6
<1>2. CASE req' = "RELEASE"
  <2>1. /\ call' = Moves(call, {"starting", "up"}, "stopping")
        /\ queue' = Tail(queue) /\ timers' = timers /\ retries' = retries
    BY <1>2 DEF CallAsked
  <2>2. queue' = Tail(queue) \o <<>>
    BY <1>0, <2>1, ConcatEmptySeq DEF CallAsked
  <2> QED
    BY <1>0, <1>2, <2>1, <2>2 DEF Moves, Calls
<1>3. CASE req' = "NONE"
  <2>1. /\ queue' = Tail(queue) \o Fallback(Denied)
        /\ retries' = IF Denied = <<>> THEN retries ELSE 0
        /\ call' = call /\ timers' = timers
    BY <1>3 DEF CallAsked
  <2>2. Denied \in Seq(Handles)
    BY WithinFits DEF Denied, ListFits
  <2>3. Fallback(Denied) \in Seq({"REQUEST_ATL"} \X Handles)
    BY <2>2, FallbackFits
  <2>4. retries' \in 0..MaxRetries
    BY <1>0, <2>1
  <2> QED
    BY <1>0, <1>3, <2>1, <2>3, <2>4
<1> QED
  BY <1>1, <1>2, <1>3

\* A client opens its link by a grant and is done by an unsubscribe.
LEMMA ToldFits ==
  ASSUME TypeOK, ClientsTold, NEW st, \A h, t : <<h, t>> \in note' => t = st
  PROVE  /\ phase' \in [Handles -> Phases]
         /\ \A h \in Handles : phase[h] \in {"releasing", "done"} => phase'[h] \in {"releasing", "done"}
<1>1. phase \in [Handles -> Phases]
  BY DEF TypeOK
<1> DEFINE After(h) ==
        CASE <<h, "GRANTED">> \in note'     -> Moves(phase[h], {"requesting"}, "open")
          [] <<h, "UNSUBSCRIBE">> \in note' -> Moves(phase[h], {"open", "releasing"}, "done")
          [] OTHER                          -> phase[h]
<1>2. phase' = [h \in Handles |-> After(h)]
  BY Zenon DEF ClientsTold
<1>3. ASSUME NEW h
      PROVE  \/ After(h) = Moves(phase[h], {"requesting"}, "open")
             \/ After(h) = Moves(phase[h], {"open", "releasing"}, "done")
             \/ After(h) = phase[h]
  <2>1. CASE <<h, "GRANTED">> \in note'
    <3>1. <<h, "UNSUBSCRIBE">> \notin note'
      BY <2>1
    <3> QED
      BY <2>1, <3>1, Zenon
  <2>2. CASE <<h, "UNSUBSCRIBE">> \in note'
    <3>1. <<h, "GRANTED">> \notin note'
      BY <2>2
    <3> QED
      BY <2>2, <3>1, Zenon
  <2>3. CASE <<h, "GRANTED">> \notin note' /\ <<h, "UNSUBSCRIBE">> \notin note'
    BY <2>3, Zenon
  <2> QED
    BY <2>1, <2>2, <2>3
<1> HIDE DEF After
<1>4. ASSUME NEW h \in Handles
      PROVE  /\ After(h) \in Phases
             /\ phase[h] \in {"releasing", "done"} => After(h) \in {"releasing", "done"}
  BY <1>1, <1>3 DEF Moves, Phases
<1> QED
  BY <1>2, <1>4

-----------------------------------------------------------------------------
(* The invariant after a message. *)

\* How the LocEng thread moves the machine and the call by one message.
Moved ==
  \/ /\ Head(queue)[1] # "CALL"
     /\ \/ /\ state' = state /\ call' = call
        \/ /\ state = "Released"
           /\ \/ state' = "Pending" /\ call = "idle" /\ call' = "starting"
              \/ state' = "Released" /\ call' = call
        \/ /\ state \in {"Pending", "Acquired"} /\ state' = "Releasing"
           /\ call' = IF call \in {"starting", "up"} THEN "stopping" ELSE call
  \/ /\ Head(queue) = Opened /\ call' = call
     /\ state' = IF state = "Pending" THEN "Acquired" ELSE state
  \/ /\ Head(queue) = Closed
     /\ \/ state' \in {"Released", "Pending"} /\ call' = call
        \/ state' = "Pending" /\ call' = "starting"

\* The machine goes on covering the call.
LEMMA CallStays ==
  ASSUME TypeOK, CallFits, queue # <<>>,
         NEW s \in Seq({"REQUEST_ATL"} \X Handles), queue' = Tail(queue) \o s, Moved
  PROVE  CallFits'
<1> DEFINE o == In(Opened, queue)
           c == In(Closed, queue)
           oo == In(Opened, queue')
           cc == In(Closed, queue')
<1>1. PICK r : r = queue'
  OBVIOUS
<1>2. /\ \A x : x[1] # "REQUEST_ATL" => (In(x, queue) <=> x = Head(queue) \/ In(x, r))
      /\ InTurn(queue) => InTurn(r)
      /\ InTurn(queue) /\ Head(queue)[1] = "CALL" => ~In(Opened, r) /\ (In(Closed, r) => Head(queue) = Opened)
  <2>1. queue \in Seq(Messages) /\ r = Tail(queue) \o s
    BY <1>1 DEF TypeOK
  <2> QED
    BY <2>1, Served
<1>3. /\ InTurn(queue) /\ InTurn(queue') /\ Opened # Closed
      /\ o <=> Opened = Head(queue) \/ oo
      /\ c <=> Closed = Head(queue) \/ cc
      /\ Head(queue) \in {Opened, Closed} => ~oo /\ (cc => Head(queue) = Opened)
  <2>1. Opened[1] = "CALL" /\ Closed[1] = "CALL" /\ Opened # Closed
    BY DEF Opened, Closed
  <2>2. InTurn(queue)
    BY DEF CallFits
  <2>3. oo = In(Opened, r) /\ cc = In(Closed, r) /\ InTurn(queue')
    BY <1>1, <1>2, <2>2
  <2>4. (In(Opened, queue) <=> Opened = Head(queue) \/ In(Opened, r)) /\ (In(Closed, queue) <=> Closed = Head(queue) \/ In(Closed, r))
    BY <1>2, <2>1
  <2>5. Head(queue) \in {Opened, Closed} => ~In(Opened, r) /\ (In(Closed, r) => Head(queue) = Opened)
    BY <1>2, <2>1, <2>2
  <2> QED
    BY <2>1, <2>2, <2>3, <2>4, <2>5
<1>4. /\ c => call = "idle" /\ state # "Released"
      /\ o => call \in {"up", "stopping"} \/ (call = "idle" /\ c)
      /\ o => state \in {"Pending", "Releasing"}
      /\ call = "starting" => state = "Pending"
      /\ call = "up" => state \in {"Pending", "Acquired"}
      /\ call = "stopping" => state = "Releasing"
  BY DEF CallFits
<1> SUFFICES
      /\ cc => call' = "idle" /\ state' # "Released"
      /\ oo => call' \in {"up", "stopping"} \/ (call' = "idle" /\ cc)
      /\ oo => state' \in {"Pending", "Releasing"}
      /\ call' = "starting" => state' = "Pending"
      /\ call' = "up" => state' \in {"Pending", "Acquired"}
      /\ call' = "stopping" => state' = "Releasing"
  BY <1>3, Zenon DEF CallFits
<1>5. /\ call \in {"idle", "starting", "up", "stopping"}
      /\ state \in {"Released", "Pending", "Acquired", "Releasing"}
  BY DEF TypeOK, Calls, SM!TypeOK, SM!States
<1> HIDE DEF o, c, oo, cc
<1>6. CASE Head(queue)[1] # "CALL"
  <2>1. (oo <=> o) /\ (cc <=> c) /\ Head(queue) # Opened /\ Head(queue) # Closed
    BY <1>3, <1>6 DEF Opened, Closed
  <2>2. CASE state' = state /\ call' = call
    BY <1>4, <2>1, <2>2
  <2>3. CASE /\ state = "Released"
             /\ \/ state' = "Pending" /\ call = "idle" /\ call' = "starting"
                \/ state' = "Released" /\ call' = call
    BY <1>4, <1>5, <2>1, <2>3
  <2>4. CASE /\ state \in {"Pending", "Acquired"} /\ state' = "Releasing"
             /\ call' = IF call \in {"starting", "up"} THEN "stopping" ELSE call
    BY <1>4, <1>5, <2>1, <2>4
  <2> QED
    BY <1>6, <2>1, <2>2, <2>3, <2>4 DEF Moved
<1>7. CASE Head(queue) = Opened
  <2>0. Head(queue)[1] = "CALL" /\ Head(queue) # Closed
    <3>1. Opened[1] = "CALL"
      BY DEF Opened
    <3> QED
      BY <1>3, <1>7, <3>1
  <2>1. call' = call /\ state' = IF state = "Pending" THEN "Acquired" ELSE state
    BY <2>0 DEF Moved
  <2> QED
    BY <1>3, <1>4, <1>5, <1>7, <2>1
<1>8. CASE Head(queue) = Closed
  <2>0. Head(queue)[1] = "CALL" /\ Head(queue) # Opened
    <3>1. Closed[1] = "CALL"
      BY DEF Closed
    <3> QED
      BY <1>3, <1>8, <3>1
  <2>1. (state' \in {"Released", "Pending"} /\ call' = call) \/ (state' = "Pending" /\ call' = "starting")
    BY <2>0 DEF Moved
  <2> QED
    BY <1>3, <1>4, <1>5, <1>8, <2>1
<1> QED
  BY <1>6, <1>7, <1>8 DEF Moved

\* A message that reaches the machine keeps the invariant, whatever it moves.
LEMMA ReactionKeeps ==
  ASSUME EmergencyIInv, queue # <<>>, NEW h, NEW r \in Results,
         SM!TypeOK', NEW st, \A g, t : <<g, t>> \in note' => t = st,
         subs' \subseteq subs \cup {h}, subs' \subseteq subs \/ subs \subseteq subs',
         inactive' \subseteq inactive \cup {h}, h \in inactive' => h \in inactive \/ In(<<"RELEASE_ATL", h>>, queue),
         state' = "Released" => inactive' = {},
         req' = "REQUEST" => SM!Active' # {},
         ListFollows, ClientsTold, CallAsked(r), link' = link, Moved
  PROVE  EmergencyIInv'
<1>1. order' \in Seq(Handles) /\ ToSet(order') = subs' /\ IsInjective(order')
  BY ListStays DEF EmergencyIInv, SM!TypeOK
<1>2. /\ \E s \in Seq({"REQUEST_ATL"} \X Handles) : queue' = Tail(queue) \o s
      /\ retries' \in 0..MaxRetries /\ timers' \in Nat /\ call' \in Calls
  <2>1. req' \in {"REQUEST", "RELEASE", "NONE"}
    BY DEF SM!TypeOK, SM!Requests
  <2> QED
    BY <1>1, <2>1, AskedFits DEF EmergencyIInv
<1>3. PICK s \in Seq({"REQUEST_ATL"} \X Handles) : queue' = Tail(queue) \o s
  BY <1>2
<1>4. PICK q : q = queue'
  OBVIOUS
<1>5. /\ q \in Seq(Messages)
      /\ \A x : x[1] # "REQUEST_ATL" => (In(x, queue) <=> x = Head(queue) \/ In(x, q))
  <2>1. queue \in Seq(Messages) /\ q = Tail(queue) \o s
    BY <1>3, <1>4 DEF EmergencyIInv, TypeOK
  <2> QED
    BY <2>1, Served DEF EmergencyIInv
<1>6. /\ phase' \in [Handles -> Phases]
      /\ \A g \in Handles : phase[g] \in {"releasing", "done"} => phase'[g] \in {"releasing", "done"}
  BY ToldFits DEF EmergencyIInv
<1>7. TypeOK'
  BY <1>1, <1>2, <1>4, <1>5, <1>6 DEF EmergencyIInv, TypeOK
<1>8. CallFits'
  BY <1>3, CallStays DEF EmergencyIInv
<1>9. LeaversGaveUp'
  <2> SUFFICES ASSUME NEW g \in Handles, g \in inactive' \/ In(<<"RELEASE_ATL", g>>, queue')
               PROVE  phase'[g] \in {"releasing", "done"}
    BY DEF LeaversGaveUp
  <2>1. g \in inactive \/ In(<<"RELEASE_ATL", g>>, queue)
    BY <1>4, <1>5
  <2>2. phase[g] \in {"releasing", "done"}
    BY <2>1 DEF EmergencyIInv, LeaversGaveUp
  <2> QED
    BY <1>6, <2>2
<1> QED
  BY <1>1, <1>7, <1>8, <1>9 DEF EmergencyIInv, ListFits

-----------------------------------------------------------------------------
(* The LocEng thread. *)

\* REQUEST_SUPL_ES.
LEMMA RequestKeeps ==
  ASSUME EmergencyIInv, NEW h \in Handles, NEW r \in Results, RequestSuplEs(h, r)
  PROVE  /\ EmergencyIInv'
         /\ req' # "RELEASE"
         /\ req' = "REQUEST" => state = "Released"
<1> USE DEF SM!AddSubscriber
<1>0. /\ queue # <<>> /\ Head(queue) = <<"REQUEST_SUPL_ES", h>> /\ SM!SubscribeRsrc(h, r = "SUCCESS")
      /\ ListFollows /\ ClientsTold /\ CallAsked(r) /\ link' = link
  BY DEF RequestSuplEs, Takes
<1>1. /\ SM!TypeOK /\ subs \subseteq Handles /\ inactive \subseteq subs /\ TypeOK
      /\ state = "Released" => inactive = {}
  BY DEF EmergencyIInv, TypeOK, ListFits, SM!TypeOK
<1>2. /\ subs' = subs \cup {h} /\ inactive' = inactive
      /\ \/ /\ state = "Released" /\ req' = "REQUEST" /\ note' = {}
            /\ state' = IF r = "SUCCESS" THEN "Pending" ELSE "Released"
         \/ /\ state \in {"Pending", "Releasing"} /\ state' = state /\ req' = "NONE" /\ note' = {}
         \/ /\ state = "Acquired" /\ state' = state /\ req' = "NONE" /\ note' = {h} \X {"GRANTED"}
  <2>1. CASE SM!SubscribeInReleased(h, r = "SUCCESS")
    BY <2>1 DEF SM!SubscribeInReleased, SM!SendRsrcRequest
  <2>2. CASE SM!SubscribeWhileWaiting(h)
    BY <2>2 DEF SM!SubscribeWhileWaiting
  <2>3. CASE SM!SubscribeInAcquired(h)
    BY <2>3 DEF SM!SubscribeInAcquired, SM!Notify
  <2> QED
    BY <1>0, <2>1, <2>2, <2>3 DEF SM!SubscribeRsrc
<1>3. SM!TypeOK'
  BY <1>1, <1>2 DEF SM!TypeOK, SM!States, SM!Statuses, SM!Events, SM!Requests
<1>4. \A g, t : <<g, t>> \in note' => t = "GRANTED"
  BY <1>2
<1>5. /\ state' = "Released" => inactive' = {}
      /\ req' = "REQUEST" => SM!Active' # {} /\ state = "Released"
      /\ req' \in {"REQUEST", "NONE"}
  BY <1>1, <1>2 DEF SM!Active
<1>6. /\ req' = "REQUEST" => IF r = "SUCCESS" THEN call = "idle" /\ call' = "starting" ELSE call' = call
      /\ req' = "NONE" => call' = call
  <2>1. order' \in Seq(Handles) /\ ToSet(order') = subs'
    <3>1. ListFits
      BY DEF EmergencyIInv
    <3> QED
      BY <1>0, <1>1, <1>2, <3>1, ListStays
  <2>2. ListFits
    BY DEF EmergencyIInv
  <2>3. req' \in {"REQUEST", "RELEASE", "NONE"}
    BY <1>5
  <2> QED
    BY <1>0, <1>1, <1>5, <2>1, <2>2, <2>3, AskedFits
<1>7. Moved
  <2>1. Head(queue)[1] # "CALL"
    BY <1>0
  <2> QED
    BY <1>2, <1>6, <2>1 DEF Moved
<1>8. subs' \subseteq subs \cup {h} /\ subs \subseteq subs' /\ inactive' \subseteq inactive \cup {h} /\ (h \in inactive' => h \in inactive)
  BY <1>2
<1>9. EmergencyIInv'
  BY <1>0, <1>3, <1>4, <1>5, <1>7, <1>8, ReactionKeeps
<1> QED
  BY <1>5, <1>9

\* RELEASE_ATL: the call is stopped for want of active clients.
LEMMA ReleaseKeeps ==
  ASSUME EmergencyIInv, NEW h \in Handles, ReleaseATL(h)
  PROVE  /\ EmergencyIInv'
         /\ req' # "REQUEST"
         /\ req' = "RELEASE" => SM!Active' = {}
<1>0. queue # <<>> /\ Head(queue) = <<"RELEASE_ATL", h>>
  BY DEF ReleaseATL, Takes
<1>1. /\ SM!TypeOK /\ subs \subseteq Handles /\ inactive \subseteq subs /\ TypeOK /\ ListFits
      /\ state = "Released" => inactive = {}
      /\ queue \in Seq(Messages) /\ phase \in [Handles -> Phases] /\ link \in [Handles -> Links]
  BY DEF EmergencyIInv, TypeOK, ListFits, SM!TypeOK
<1>2. 1 \in DOMAIN queue /\ In(<<"RELEASE_ATL", h>>, queue)
  <2>1. 1 \in DOMAIN queue /\ queue[1] = Head(queue)
    BY <1>0, <1>1
  <2> QED
    BY <1>0, <2>1 DEF In
<1>3. CASE /\ link[h] = "none" /\ SM!UnsubscribeRsrc(h)
           /\ ListFollows /\ ClientsTold /\ CallAsked("SUCCESS") /\ link' = link
  <2>1. /\ h \in subs /\ subs' = subs
        /\ note' = {h} \X {"UNSUBSCRIBE"}
        /\ \/ /\ state = "Released" /\ state' = "Released" /\ inactive' = inactive /\ req' = "NONE"
           \/ /\ state \in {"Pending", "Acquired"} /\ inactive' = inactive \cup {h}
              /\ \/ SM!Active' = {} /\ state' = "Releasing" /\ req' = "RELEASE"
                 \/ state' = state /\ req' = "NONE"
           \/ /\ state = "Releasing" /\ state' = "Releasing" /\ inactive' = inactive \cup {h} /\ req' = "NONE"
    <3>0. h \in subs
      BY <1>3 DEF SM!UnsubscribeRsrc
    <3>1. CASE SM!UnsubscribeInReleased(h)
      BY <3>0, <3>1 DEF SM!UnsubscribeInReleased, SM!Notify, SM!machine
    <3>2. CASE SM!UnsubscribeWhileEngaged(h)
      <4>1. inactive' = inactive \cup {h} /\ subs' = subs /\ note' = {h} \X {"UNSUBSCRIBE"}
        BY <3>2 DEF SM!UnsubscribeWhileEngaged, SM!Leave, SM!Notify
      <4>2. \/ SM!Active' = {} /\ state' = "Releasing" /\ req' = "RELEASE"
            \/ state' = state /\ req' = "NONE"
        BY <3>0, <3>2, <4>1 DEF SM!UnsubscribeWhileEngaged, SM!SendRsrcRequest
      <4> QED
        BY <3>0, <3>2, <4>1, <4>2 DEF SM!UnsubscribeWhileEngaged
    <3>3. CASE SM!UnsubscribeInReleasing(h)
      BY <3>0, <3>3 DEF SM!UnsubscribeInReleasing, SM!Leave, SM!Notify
    <3> QED
      BY <1>3, <3>1, <3>2, <3>3 DEF SM!UnsubscribeRsrc
  <2>2. SM!TypeOK'
    BY <1>1, <2>1 DEF SM!TypeOK, SM!States, SM!Statuses, SM!Events, SM!Requests
  <2>3. \A g, t : <<g, t>> \in note' => t = "UNSUBSCRIBE"
    BY <2>1
  <2>4. /\ state' = "Released" => inactive' = {}
        /\ req' \in {"RELEASE", "NONE"} /\ (req' = "RELEASE" => SM!Active' = {})
    BY <1>1, <2>1
  <2>5. order' \in Seq(Handles) /\ ToSet(order') = subs'
    BY <1>1, <1>3, <2>1, ListStays
  <2>6. /\ req' = "RELEASE" => call' = IF call \in {"starting", "up"} THEN "stopping" ELSE call
        /\ req' = "NONE" => call' = call
    <3>1. "SUCCESS" \in Results /\ req' # "REQUEST" /\ req' \in {"REQUEST", "RELEASE", "NONE"}
      BY <2>4 DEF Results
    <3> QED
      BY <1>1, <1>3, <2>5, <3>1, AskedFits
  <2>7. Moved
    <3>1. Head(queue)[1] # "CALL"
      BY <1>0
    <3> QED
      BY <2>1, <2>6, <3>1 DEF Moved
  <2>8. subs' \subseteq subs \cup {h} /\ subs \subseteq subs' /\ inactive' \subseteq inactive \cup {h} /\ "SUCCESS" \in Results
    BY <2>1 DEF Results
  <2>9. EmergencyIInv'
    BY <1>0, <1>2, <1>3, <2>2, <2>3, <2>4, <2>7, <2>8, ReactionKeeps
  <2> QED
    BY <2>4, <2>9
<1>4. CASE /\ link' = [link EXCEPT ![h] = "none"]
           /\ phase' = [phase EXCEPT ![h] = Moves(@, {"open", "releasing"}, "done")]
           /\ queue' = Tail(queue) /\ Quiet
           /\ UNCHANGED <<machine, retries, timers, call>>
  <2>1. /\ note' = {} /\ req' = "NONE" /\ state' = state /\ subs' = subs /\ inactive' = inactive /\ order' = order
        /\ retries' = retries /\ timers' = timers /\ call' = call
    BY <1>4 DEF Quiet, machine
  <2>2. /\ queue' = Tail(queue) \o <<>> /\ <<>> \in Seq({"REQUEST_ATL"} \X Handles) /\ queue' \in Seq(Messages)
    BY <1>0, <1>1, <1>4
  <2>3. CallFits'
    <3>1. Moved
      BY <1>0, <2>1 DEF Moved
    <3> QED
      BY <1>0, <1>1, <2>2, <3>1, CallStays DEF EmergencyIInv
  <2>4. /\ phase' \in [Handles -> Phases] /\ link' \in [Handles -> Links]
        /\ \A g \in Handles : phase[g] \in {"releasing", "done"} => phase'[g] \in {"releasing", "done"}
    BY <1>1, <1>4 DEF Phases, Links, Moves
  <2>5. TypeOK'
    BY <1>1, <2>1, <2>2, <2>4 DEF TypeOK, SM!TypeOK, SM!Requests
  <2>6. LeaversGaveUp'
    <3> SUFFICES ASSUME NEW g \in Handles, g \in inactive' \/ In(<<"RELEASE_ATL", g>>, queue')
                 PROVE  phase'[g] \in {"releasing", "done"}
      BY DEF LeaversGaveUp
    <3>1. PICK q : q = queue'
      OBVIOUS
    <3>2. In(<<"RELEASE_ATL", g>>, q) => In(<<"RELEASE_ATL", g>>, queue)
      BY <1>0, <1>1, <2>2, <3>1, Served
    <3>3. phase[g] \in {"releasing", "done"}
      BY <2>1, <3>1, <3>2 DEF EmergencyIInv, LeaversGaveUp
    <3> QED
      BY <2>4, <3>3
  <2> QED
    BY <1>1, <2>1, <2>3, <2>5, <2>6 DEF EmergencyIInv, ListFits
<1> QED
  BY <1>3, <1>4 DEF ReleaseATL

\* REQUEST_ATL: the ordinary interface is asked.
LEMMA FallbackKeeps ==
  ASSUME EmergencyIInv, NEW h \in Handles, RequestATL(h)
  PROVE  EmergencyIInv' /\ req' = "NONE"
<1>0. queue # <<>> /\ Head(queue) = <<"REQUEST_ATL", h>>
  BY DEF RequestATL, Takes
<1>1. /\ TypeOK /\ SM!TypeOK /\ queue \in Seq(Messages) /\ link \in [Handles -> Links]
  BY DEF EmergencyIInv, TypeOK
<1>2. /\ note' = {} /\ req' = "NONE" /\ state' = state /\ subs' = subs /\ inactive' = inactive /\ order' = order
      /\ retries' = retries /\ timers' = timers /\ call' = call /\ phase' = phase
      /\ queue' = Tail(queue) /\ link' = [link EXCEPT ![h] = "waiting"]
  BY DEF RequestATL, Quiet, machine
<1>3. /\ queue' = Tail(queue) \o <<>> /\ <<>> \in Seq({"REQUEST_ATL"} \X Handles) /\ queue' \in Seq(Messages)
  BY <1>0, <1>1, <1>2
<1>4. CallFits'
  <2>1. Moved
    BY <1>0, <1>2 DEF Moved
  <2> QED
    BY <1>0, <1>1, <1>3, <2>1, CallStays DEF EmergencyIInv
<1>5. link' \in [Handles -> Links]
  BY <1>1, <1>2 DEF Links
<1>6. TypeOK'
  BY <1>1, <1>2, <1>3, <1>5 DEF TypeOK, SM!TypeOK, SM!Requests
<1>7. LeaversGaveUp'
  <2> SUFFICES ASSUME NEW g \in Handles, g \in inactive' \/ In(<<"RELEASE_ATL", g>>, queue')
               PROVE  phase'[g] \in {"releasing", "done"}
    BY DEF LeaversGaveUp
  <2>1. PICK q : q = queue'
    OBVIOUS
  <2>2. In(<<"RELEASE_ATL", g>>, q) => In(<<"RELEASE_ATL", g>>, queue)
    BY <1>0, <1>1, <1>3, <2>1, Served
  <2> QED
    BY <1>2, <2>1, <2>2 DEF EmergencyIInv, LeaversGaveUp
<1> QED
  BY <1>1, <1>2, <1>4, <1>6, <1>7 DEF EmergencyIInv, ListFits

\* The data call is up.
LEMMA OpenedKeeps ==
  ASSUME EmergencyIInv, SuplEsOpened
  PROVE  EmergencyIInv' /\ req' = "NONE"
<1>0. /\ queue # <<>> /\ Head(queue) = Opened /\ SM!OnRsrcEvent("GRANTED")
      /\ ListFollows /\ ClientsTold /\ CallAsked("SUCCESS") /\ link' = link
  BY DEF SuplEsOpened, Takes, Opened
<1>1. /\ SM!TypeOK /\ subs \subseteq Handles /\ inactive \subseteq subs /\ TypeOK /\ ListFits
      /\ state = "Released" => inactive = {}
      /\ queue \in Seq(Messages) /\ "SUCCESS" \in Results
  BY DEF EmergencyIInv, TypeOK, ListFits, SM!TypeOK, Results
<1>2. /\ subs' = subs /\ inactive' = inactive /\ req' = "NONE"
      /\ state' = IF state = "Pending" THEN "Acquired" ELSE state
      /\ note' \subseteq subs \X {"GRANTED"}
  <2>1. CASE SM!Granted
    BY <2>1 DEF SM!Granted, SM!Notify, SM!Active
  <2>2. CASE SM!Ignored("GRANTED")
    BY <2>2 DEF SM!Ignored, SM!machine
  <2> QED
    BY <1>0, <2>1, <2>2 DEF SM!OnRsrcEvent, SM!Denies
<1>3. SM!TypeOK'
  BY <1>1, <1>2 DEF SM!TypeOK, SM!States, SM!Statuses, SM!Events, SM!Requests
<1>4. \A g, t : <<g, t>> \in note' => t = "GRANTED"
  BY <1>2
<1>5. Moved
  <2>1. order' \in Seq(Handles) /\ ToSet(order') = subs'
    BY <1>0, <1>1, <1>2, ListStays
  <2>2. call' = call
    BY <1>0, <1>1, <1>2, <2>1, AskedFits
  <2> QED
    BY <1>0, <1>2, <2>2 DEF Moved
<1>6. state' = "Released" => inactive' = {}
  BY <1>1, <1>2
<1>7. EmergencyIInv'
  BY <1>0, <1>1, <1>2, <1>3, <1>4, <1>5, <1>6, ReactionKeeps
<1> QED
  BY <1>2, <1>7

\* The data call is gone: a new one is asked for if somebody has come meanwhile.
LEMMA ClosedKeeps ==
  ASSUME EmergencyIInv, NEW r \in Results, SuplEsClosed(r)
  PROVE  EmergencyIInv' /\ req' # "RELEASE"
<1>0. /\ queue # <<>> /\ Head(queue) = Closed /\ SM!OnRsrcEvent("RELEASED")
      /\ ListFollows /\ ClientsTold /\ CallAsked(r) /\ link' = link
  BY DEF SuplEsClosed, Takes, Closed
<1>1. /\ SM!TypeOK /\ subs \subseteq Handles /\ inactive \subseteq subs /\ TypeOK /\ ListFits
      /\ state = "Released" => inactive = {}
      /\ state \in {"Released", "Pending", "Acquired", "Releasing"}
      /\ queue \in Seq(Messages)
  BY DEF EmergencyIInv, TypeOK, ListFits, SM!TypeOK, SM!States
<1>2. /\ subs' \subseteq subs /\ inactive' \subseteq inactive /\ inactive' \subseteq subs'
      /\ state' \in {"Released", "Pending"} /\ (state' = "Released" => inactive' = {})
      /\ \E st \in {"DENIED", "RELEASED"} : note' \subseteq subs \X {st}
      /\ \/ req' = "NONE"
         \/ req' = "REQUEST" /\ state' = "Pending" /\ SM!Active' # {}
  <2>1. CASE state = "Pending" /\ SM!DropAll("DENIED")
    BY <2>1 DEF SM!DropAll, SM!Notify
  <2>2. CASE SM!DropAll("RELEASED")
    BY <2>2 DEF SM!DropAll, SM!Notify
  <2>3. CASE SM!ReleaseDone("RELEASED")
    <3>1. /\ subs' = subs \ inactive /\ inactive' = {} /\ note' = inactive \X {"RELEASED"}
      BY <2>3 DEF SM!ReleaseDone, SM!Notify, SM!Active
    <3>2. \/ state' = "Released" /\ req' = "NONE"
          \/ state' = "Pending" /\ req' = "REQUEST" /\ subs \ inactive # {}
      BY <2>3 DEF SM!ReleaseDone, SM!Active, SM!SendRsrcRequest
    <3> QED
      BY <1>1, <3>1, <3>2 DEF SM!Active
  <2>4. CASE SM!Ignored("RELEASED")
    BY <1>1, <2>4 DEF SM!Ignored, SM!machine
  <2> QED
    BY <1>0, <2>1, <2>2, <2>3, <2>4 DEF SM!OnRsrcEvent
<1>3. SM!TypeOK'
  BY <1>1, <1>2 DEF SM!TypeOK, SM!States, SM!Statuses, SM!Events, SM!Requests
<1>4. PICK st \in {"DENIED", "RELEASED"} : note' \subseteq subs \X {st}
  BY <1>2
<1>5. \A g, t : <<g, t>> \in note' => t = st
  BY <1>4
<1>6. Moved
  <2>1. order' \in Seq(Handles) /\ ToSet(order') = subs'
    BY <1>0, <1>1, <1>2, ListStays
  <2>2. /\ req' = "REQUEST" => call' \in {call, "starting"}
        /\ req' = "NONE" => call' = call
    BY <1>0, <1>1, <1>2, <2>1, AskedFits
  <2> QED
    BY <1>0, <1>2, <2>2 DEF Moved
<1>7. EmergencyIInv'
  BY <1>0, <1>1, <1>2, <1>3, <1>5, <1>6, ReactionKeeps
<1> QED
  BY <1>2, <1>7

-----------------------------------------------------------------------------
(* The other threads. *)

\* A message posted at the tail, by those who leave the machine alone.
LEMMA PostKeeps ==
  ASSUME EmergencyIInv, NEW m \in Messages, Posts(m), UNCHANGED <<machine, retries>>,
         timers' \in Nat, link' \in [Handles -> Links], phase' \in [Handles -> Phases], call' \in Calls,
         \A h \in Handles : phase[h] \in {"releasing", "done"} => phase'[h] \in {"releasing", "done"},
         \A h \in Handles : m = <<"RELEASE_ATL", h>> => phase'[h] \in {"releasing", "done"},
         \/ m[1] # "CALL" /\ call' = call
         \/ m = Opened /\ call = "starting" /\ call' = "up"
         \/ m = Closed /\ call # "idle" /\ call' = "idle"
  PROVE  EmergencyIInv' /\ req' = "NONE"
<1>1. /\ TypeOK /\ SM!TypeOK /\ queue \in Seq(Messages) /\ call \in Calls
      /\ state \in {"Released", "Pending", "Acquired", "Releasing"}
  BY DEF EmergencyIInv, TypeOK, SM!TypeOK, SM!States
<1>2. /\ note' = {} /\ req' = "NONE" /\ state' = state /\ subs' = subs /\ inactive' = inactive /\ order' = order
      /\ retries' = retries /\ queue' = Append(queue, m)
  BY DEF Posts, Quiet, machine
<1>3. PICK q : q = queue'
  OBVIOUS
<1>4. /\ q \in Seq(Messages)
      /\ \A x : In(x, q) <=> In(x, queue) \/ x = m
      /\ InTurn(queue) /\ m[1] # "CALL" => InTurn(q)
      /\ InTurn(queue) /\ ~In(Opened, queue) /\ ~In(Closed, queue) => InTurn(q)
      /\ InTurn(queue) /\ ~In(Closed, queue) /\ m = Closed => InTurn(q)
  <2>1. q = Append(queue, m) /\ queue \in Seq(Messages) /\ m \in Messages
    BY <1>1, <1>2, <1>3
  <2>2. Follows(queue, m, q)
    BY <2>1, PostedLast
  <2> QED
    BY <2>2 DEF Follows
<1>5. TypeOK'
  BY <1>1, <1>2, <1>3, <1>4 DEF TypeOK, SM!TypeOK, SM!Requests
<1>6. CallFits'
  <2> DEFINE o == In(Opened, queue)
             c == In(Closed, queue)
  <2>1. /\ InTurn(queue)
        /\ c => call = "idle" /\ state # "Released"
        /\ o => call \in {"up", "stopping"} \/ (call = "idle" /\ c)
        /\ o => state \in {"Pending", "Releasing"}
        /\ call = "starting" => state = "Pending"
        /\ call = "up" => state \in {"Pending", "Acquired"}
        /\ call = "stopping" => state = "Releasing"
    BY DEF EmergencyIInv, CallFits
  <2>2. (In(Opened, q) <=> o \/ Opened = m) /\ (In(Closed, q) <=> c \/ Closed = m) /\ Opened # Closed
    BY <1>4 DEF Opened, Closed
  <2>3. Opened[1] = "CALL" /\ Closed[1] = "CALL" /\ call \in {"idle", "starting", "up", "stopping"}
    BY <1>1 DEF Opened, Closed, Calls
  <2> HIDE DEF o, c
  <2>4. /\ InTurn(q)
        /\ In(Closed, q) => call' = "idle" /\ state # "Released"
        /\ In(Opened, q) => call' \in {"up", "stopping"} \/ (call' = "idle" /\ In(Closed, q))
        /\ In(Opened, q) => state \in {"Pending", "Releasing"}
        /\ call' = "starting" => state = "Pending"
        /\ call' = "up" => state \in {"Pending", "Acquired"}
        /\ call' = "stopping" => state = "Releasing"
    <3>1. CASE m[1] # "CALL" /\ call' = call
      <4>1. (In(Opened, q) <=> o) /\ (In(Closed, q) <=> c) /\ InTurn(q)
        BY <1>4, <2>1, <2>2, <2>3, <3>1
      <4> QED
        BY <2>1, <3>1, <4>1
    <3>2. CASE m = Opened /\ call = "starting" /\ call' = "up"
      <4>1. ~c /\ ~o
        BY <2>1, <3>2
      <4>2. InTurn(q)
        BY <1>4, <2>1, <4>1 DEF o, c
      <4> QED
        BY <2>1, <2>2, <3>2, <4>1, <4>2
    <3>3. CASE m = Closed /\ call # "idle" /\ call' = "idle"
      <4>1. ~c
        BY <2>1, <3>3
      <4>2. InTurn(q)
        BY <1>4, <2>1, <3>3, <4>1 DEF c
      <4>3. state # "Released"
        BY <1>1, <2>1, <2>3, <3>3
      <4> QED
        BY <2>1, <2>2, <3>3, <4>1, <4>2, <4>3
    <3> QED
      BY <3>1, <3>2, <3>3
  <2> QED
    BY <1>2, <1>3, <2>4, Zenon DEF CallFits
<1>7. LeaversGaveUp'
  <2> SUFFICES ASSUME NEW g \in Handles, g \in inactive' \/ In(<<"RELEASE_ATL", g>>, queue')
               PROVE  phase'[g] \in {"releasing", "done"}
    BY DEF LeaversGaveUp
  <2>1. g \in inactive \/ In(<<"RELEASE_ATL", g>>, queue) \/ m = <<"RELEASE_ATL", g>>
    BY <1>2, <1>3, <1>4
  <2>2. g \in inactive \/ In(<<"RELEASE_ATL", g>>, queue) => phase[g] \in {"releasing", "done"}
    BY DEF EmergencyIInv, LeaversGaveUp
  <2> QED
    BY <2>1, <2>2
<1> QED
  BY <1>2, <1>5, <1>6, <1>7 DEF EmergencyIInv, ListFits

\* retryCallback() on the timer's thread.
LEMMA TimerKeeps ==
  ASSUME EmergencyIInv, TimerFires
  PROVE  EmergencyIInv' /\ req' = "NONE"
<1>1. /\ TypeOK /\ SM!TypeOK /\ ListFits /\ timers \in Nat /\ link \in [Handles -> Links] /\ phase \in [Handles -> Phases]
      /\ call \in Calls /\ ToSet(order) = subs /\ order \in Seq(Handles)
  BY DEF EmergencyIInv, TypeOK, ListFits
<1>2. /\ timers' \in Nat /\ link' = link /\ phase' = phase /\ call' = call
      /\ UNCHANGED machine /\ retries' = retries
  BY <1>1 DEF TimerFires
<1>3. CASE SM!Active # {}
  <2> DEFINE h == NewestActive(order, SM!Active)
             w == Within(order, SM!Active)
  <2>1. w \in Seq(Handles) /\ ToSet(w) = subs \cap SM!Active
    BY <1>1, WithinFits
  <2>2. SM!Active \subseteq subs
    BY DEF SM!Active
  <2>3. h = w[1]
    BY DEF NewestActive
  <2>4. Posts(<<"REQUEST_SUPL_ES", h>>)
    BY <1>3 DEF TimerFires
  <2> HIDE DEF w, h
  <2>5. w # <<>>
    BY <1>3, <2>1, <2>2 DEF ToSet
  <2>6. h \in Handles
    BY <2>1, <2>3, <2>5
  <2>7. <<"REQUEST_SUPL_ES", h>> \in Messages
    BY <2>6 DEF Messages
  <2> QED
    BY <1>1, <1>2, <2>4, <2>7, PostKeeps
<1>4. CASE SM!Active = {}
  <2>1. Quiet /\ queue' = queue
    BY <1>4 DEF TimerFires
  <2>2. /\ note' = {} /\ req' = "NONE" /\ state' = state /\ subs' = subs /\ inactive' = inactive /\ order' = order
    BY <1>2, <2>1 DEF Quiet, machine
  <2>3. TypeOK'
    BY <1>1, <1>2, <2>1, <2>2 DEF TypeOK, SM!TypeOK, SM!Requests
  <2>4. CallFits' /\ LeaversGaveUp'
    BY <1>2, <2>1, <2>2, Zenon DEF EmergencyIInv, CallFits, LeaversGaveUp
  <2> QED
    BY <2>2, <2>3, <2>4 DEF EmergencyIInv, ListFits
<1> QED
  BY <1>3, <1>4

\* The data services and the modem.
LEMMA OutsideKeeps ==
  ASSUME EmergencyIInv,
         \/ CallOpens \/ \E from \in {"starting", "stopping", "up"} : CallCloses(from)
         \/ \E h \in Handles : LinkAnswers(h) \/ ModemRequests(h) \/ ModemReleases(h)
  PROVE  EmergencyIInv' /\ req' = "NONE"
<1>1. /\ TypeOK /\ SM!TypeOK /\ ListFits /\ timers \in Nat /\ link \in [Handles -> Links] /\ phase \in [Handles -> Phases]
      /\ call \in Calls
  BY DEF EmergencyIInv, TypeOK
<1>2. CASE CallOpens
  <2>1. /\ Posts(Opened) /\ call = "starting" /\ call' = "up" /\ UNCHANGED <<machine, retries>>
        /\ timers' = timers /\ link' = link /\ phase' = phase /\ Opened \in Messages /\ call' \in Calls
        /\ \A h : Opened # <<"RELEASE_ATL", h>>
    BY <1>2 DEF CallOpens, Opened, Messages, Calls
  <2> QED
    BY <1>1, <2>1, PostKeeps
<1>3. ASSUME NEW from \in {"starting", "stopping", "up"}, CallCloses(from) PROVE EmergencyIInv' /\ req' = "NONE"
  <2>1. /\ Posts(Closed) /\ call # "idle" /\ call' = "idle" /\ UNCHANGED <<machine, retries>>
        /\ timers' = timers /\ link' = link /\ phase' = phase /\ Closed \in Messages /\ call' \in Calls
        /\ \A h : Closed # <<"RELEASE_ATL", h>>
    BY <1>3 DEF CallCloses, Closed, Messages, Calls
  <2> QED
    BY <1>1, <2>1, PostKeeps
<1>4. ASSUME NEW h \in Handles, ModemRequests(h) PROVE EmergencyIInv' /\ req' = "NONE"
  <2>1. /\ Posts(<<"REQUEST_SUPL_ES", h>>) /\ UNCHANGED <<machine, retries>> /\ call' = call
        /\ timers' = timers /\ link' = link /\ phase[h] = "unused" /\ phase' = [phase EXCEPT ![h] = "requesting"]
        /\ <<"REQUEST_SUPL_ES", h>> \in Messages
    BY <1>4 DEF ModemRequests, Messages
  <2>2. /\ phase' \in [Handles -> Phases]
        /\ \A g \in Handles : phase[g] \in {"releasing", "done"} => phase'[g] \in {"releasing", "done"}
    BY <1>1, <2>1 DEF Phases
  <2> QED
    BY <1>1, <2>1, <2>2, PostKeeps
<1>5. ASSUME NEW h \in Handles, ModemReleases(h) PROVE EmergencyIInv' /\ req' = "NONE"
  <2>1. /\ Posts(<<"RELEASE_ATL", h>>) /\ UNCHANGED <<machine, retries>> /\ call' = call
        /\ timers' = timers /\ link' = link /\ phase' = [phase EXCEPT ![h] = "releasing"]
        /\ <<"RELEASE_ATL", h>> \in Messages
    BY <1>5 DEF ModemReleases, Messages
  <2>2. /\ phase' \in [Handles -> Phases]
        /\ \A g \in Handles : phase[g] \in {"releasing", "done"} => phase'[g] \in {"releasing", "done"}
        /\ phase'[h] = "releasing"
    BY <1>1, <2>1 DEF Phases
  <2>3. \A g \in Handles : <<"RELEASE_ATL", h>> = <<"RELEASE_ATL", g>> => phase'[g] \in {"releasing", "done"}
    BY <2>2
  <2> QED
    BY <1>1, <2>1, <2>2, <2>3, PostKeeps
<1>6. ASSUME NEW h \in Handles, LinkAnswers(h) PROVE EmergencyIInv' /\ req' = "NONE"
  <2>1. /\ Quiet /\ UNCHANGED <<machine, retries, timers, queue, call>>
        /\ link' \in [Handles -> Links] /\ phase' \in [Handles -> Phases]
        /\ \A g \in Handles : phase[g] \in {"releasing", "done"} => phase'[g] \in {"releasing", "done"}
    BY <1>1, <1>6 DEF LinkAnswers, Moves, Phases, Links
  <2>2. /\ note' = {} /\ req' = "NONE" /\ state' = state /\ subs' = subs /\ inactive' = inactive /\ order' = order
        /\ retries' = retries /\ timers' = timers /\ queue' = queue /\ call' = call
    BY <2>1 DEF Quiet, machine
  <2>3. TypeOK'
    BY <1>1, <2>1, <2>2 DEF TypeOK, SM!TypeOK, SM!Requests
  <2>4. CallFits'
    BY <2>2, Zenon DEF EmergencyIInv, CallFits
  <2>5. LeaversGaveUp'
    <3>1. \A g \in Handles : g \in inactive' \/ In(<<"RELEASE_ATL", g>>, queue') => phase'[g] \in {"releasing", "done"}
      BY <2>1, <2>2 DEF EmergencyIInv, LeaversGaveUp
    <3> QED
      BY <3>1 DEF LeaversGaveUp
  <2> QED
    BY <2>2, <2>3, <2>4, <2>5 DEF EmergencyIInv, ListFits
<1> QED
  BY <1>2, <1>3, <1>4, <1>5, <1>6

-----------------------------------------------------------------------------
(* The theorems. *)

\* Nothing is under way at first.
LEMMA EmergencyStarts ==
  ASSUME Init
  PROVE  EmergencyIInv
<1> USE EmergencyAssumption DEF Init, SM!Init
<1>1. TypeOK
  BY DEF TypeOK, SM!TypeOK, SM!States, SM!Requests, ToSet, IsInjective, Calls, Links, Phases
<1>2. ListFits
  BY DEF ListFits
<1>3. CallFits
  BY DEF CallFits, InTurn, In
<1>4. LeaversGaveUp
  BY DEF LeaversGaveUp, In
<1> QED
  BY <1>1, <1>2, <1>3, <1>4 DEF EmergencyIInv

\* A step is of the LocEng thread, or posts at most.
LEMMA StepCases ==
  ASSUME Next
  PROVE  \/ \E h \in Handles, r \in Results : RequestSuplEs(h, r)
         \/ \E h \in Handles : RequestATL(h) \/ ReleaseATL(h)
         \/ SuplEsOpened \/ \E r \in Results : SuplEsClosed(r)
         \/ TimerFires
         \/ CallOpens \/ \E from \in {"starting", "stopping", "up"} : CallCloses(from)
         \/ \E h \in Handles : LinkAnswers(h) \/ ModemRequests(h) \/ ModemReleases(h)
  BY DEF Next, LocEngThread, CallAnswers

\* Every step keeps the invariant.
LEMMA EmergencyStep ==
  ASSUME EmergencyIInv, [Next]_vars
  PROVE  EmergencyIInv'
<1>1. CASE UNCHANGED vars
  <2>1. /\ UNCHANGED <<state, subs, inactive, note, req>> /\ order' = order /\ retries' = retries /\ timers' = timers
        /\ queue' = queue /\ call' = call /\ link' = link /\ phase' = phase
    BY <1>1 DEF vars
  <2>2. SM!TypeOK'
    BY <2>1 DEF EmergencyIInv, TypeOK, SM!TypeOK
  <2>3. TypeOK'
    BY <2>1, <2>2 DEF EmergencyIInv, TypeOK
  <2>4. ListFits' /\ CallFits' /\ LeaversGaveUp'
    BY <2>1, Zenon DEF EmergencyIInv, ListFits, CallFits, LeaversGaveUp
  <2> QED
    BY <2>3, <2>4 DEF EmergencyIInv
<1>2. CASE Next
  BY <1>2, StepCases, RequestKeeps, FallbackKeeps, ReleaseKeeps, OpenedKeeps, ClosedKeeps, TimerKeeps, OutsideKeeps
<1> QED
  BY <1>1, <1>2

\* In every state the machine covers the call, the news of the call are in turn,
\* and whoever leaves has given the link up (loc_eng_agps.cpp).
THEOREM EmergencySound == Spec => []EmergencyIInv
  BY EmergencyStarts, EmergencyStep, PTL DEF Spec

\* A call that is not idle is one that the machine knows about: in Released there
\* is none (DSStateMachine, AgpsReleasedState).
THEOREM CallKnown == Spec => []CallIsKnown
<1>1. EmergencyIInv => CallIsKnown
  <2> SUFFICES ASSUME EmergencyIInv, state = "Released" PROVE call = "idle"
    BY DEF EmergencyIInv, CallIsKnown, CallIsTracked
  <2> QED
    BY DEF EmergencyIInv, TypeOK, Calls, CallFits
<1> QED
  BY <1>1, EmergencySound, PTL

\* A call is asked for only when the last one is idle, with no news of it behind
\* the message at hand.
LEMMA AskedAfresh ==
  ASSUME EmergencyIInv, [Next]_vars, req' = "REQUEST", ~UNCHANGED vars
  PROVE  call = "idle" /\ \A i \in DOMAIN Tail(queue) : queue[i + 1][1] # "CALL"
<1>0. /\ queue \in Seq(Messages) /\ InTurn(queue) /\ call \in Calls
      /\ (In(Closed, queue) => call = "idle" /\ state # "Released")
      /\ (In(Opened, queue) => state \in {"Pending", "Releasing"})
      /\ (state = "Released" => call = "idle")
  BY DEF EmergencyIInv, TypeOK, CallFits, Calls
<1>1. \/ \E h \in Handles, r \in Results : RequestSuplEs(h, r)
      \/ \E r \in Results : SuplEsClosed(r)
  BY StepCases, FallbackKeeps, ReleaseKeeps, OpenedKeeps, TimerKeeps, OutsideKeeps
<1>2. \A i \in DOMAIN queue : queue[i][1] = "CALL" => queue[i] \in {Opened, Closed}
  <2>1. \A x \in Messages : x[1] = "CALL" => x \in {Opened, Closed}
    BY DEF Messages, Opened, Closed
  <2> QED
    BY <1>0, <2>1
<1>3. CASE \E h \in Handles, r \in Results : RequestSuplEs(h, r)
  <2>1. state = "Released" /\ queue # <<>>
    BY <1>3, RequestKeeps DEF RequestSuplEs, Takes
  <2>2. ~In(Opened, queue) /\ ~In(Closed, queue)
    BY <1>0, <2>1
  <2>3. \A i \in DOMAIN queue : queue[i][1] # "CALL"
    BY <1>2, <2>2 DEF In
  <2>4. \A i \in DOMAIN Tail(queue) : i + 1 \in DOMAIN queue
    BY <1>0, <2>1
  <2> QED
    BY <1>0, <2>1, <2>3, <2>4
<1>4. CASE \E r \in Results : SuplEsClosed(r)
  <2>1. queue # <<>> /\ Head(queue) = Closed
    BY <1>4 DEF SuplEsClosed, Takes, Closed
  <2>2. queue[1] = Closed /\ 1 \in DOMAIN queue
    BY <1>0, <2>1
  <2>3. call = "idle"
    BY <1>0, <2>2 DEF In
  <2>4. \A i \in DOMAIN Tail(queue) : i + 1 \in DOMAIN queue /\ 1 < i + 1
    BY <1>0, <2>1
  <2>5. queue[1][1] = "CALL" /\ queue[1] # Opened
    BY <2>2 DEF Opened, Closed
  <2>6. \A i \in DOMAIN queue : 1 < i => queue[i][1] # "CALL"
    BY <1>0, <2>2, <2>5 DEF InTurn
  <2> QED
    BY <2>3, <2>4, <2>6
<1> QED
  BY <1>1, <1>3, <1>4

\* The call is stopped only when everybody on the list has given the link up.
LEMMA StoppedUnused ==
  ASSUME EmergencyIInv, [Next]_vars, req' = "RELEASE", ~UNCHANGED vars
  PROVE  \A h \in subs' : phase'[h] # "open"
<1>1. PICK h \in Handles : ReleaseATL(h)
  BY StepCases, FallbackKeeps, RequestKeeps, OpenedKeeps, ClosedKeeps, TimerKeeps, OutsideKeeps
<1>2. SM!Active' = {} /\ EmergencyIInv'
  BY <1>1, ReleaseKeeps
<1>3. subs' \subseteq inactive' /\ subs' \subseteq Handles
  BY <1>2 DEF SM!Active, EmergencyIInv, TypeOK, SM!TypeOK
<1>4. \A g \in Handles : g \in inactive' => phase'[g] \in {"releasing", "done"}
  BY <1>2 DEF EmergencyIInv, LeaversGaveUp
<1> QED
  BY <1>3, <1>4

\* The data services are asked to start a call only afresh, and to stop it only
\* unused (sendRsrcRequest).
THEOREM CallFollows == Spec => CallFollowsClients
<1>1. EmergencyIInv /\ [Next]_vars
        => [req' = "REQUEST" =>
              /\ call = "idle"
              /\ \A i \in DOMAIN Tail(queue) : queue[i + 1][1] # "CALL"]_vars
  BY AskedAfresh
<1>2. EmergencyIInv /\ [Next]_vars => [req' = "RELEASE" => \A h \in subs' : phase'[h] # "open"]_vars
  BY StoppedUnused
<1>3. Spec => StartsAfresh
  BY <1>1, EmergencySound, PTL DEF Spec, StartsAfresh
<1>4. Spec => StopsWhenUnused
  BY <1>2, EmergencySound, PTL DEF Spec, StopsWhenUnused
<1> QED
  BY <1>3, <1>4 DEF CallFollowsClients
=============================================================================
