------------------------------- MODULE LocHeap -------------------------------
(***************************************************************************)
(* The heap behind the timers (gps/utils/LocHeap.cpp): a binary tree that  *)
(* is ordered from the top down only.  push() drops a node into the        *)
(* smaller subtree, pop() moves the higher ranked child up, remove() looks *)
(* for a given object.                                                     *)
(*                                                                         *)
(* The tree is a function from the places that are taken to their nodes.   *)
(* push() and pop() call themselves along one way down; here the way is    *)
(* given by its end, and what happens at each node of it is said at once.  *)
(***************************************************************************)
EXTENDS Integers, Sequences, SequencesExt, FiniteSets

CONSTANTS
  Rankables,   \* the objects, LocRankable
  Rank         \* of an object, its rank: the higher one goes first

ASSUME HeapAssumption == Rank \in [Rankables -> Nat]

VARIABLES
  tree,      \* mTree: the nodes, each at its place
  members,   \* history: pushed, and neither popped nor removed since
  popped     \* output: what pop() returned in this step, as a set

heapVars == <<tree, members, popped>>

Nil == [p \in {} |-> 0]
Leaf(d) == [data |-> d, size |-> 1]
OutRanks(d, e) == Rank[d] > Rank[e]

-----------------------------------------------------------------------------
(* Places: the turns from the top to a node. *)

Top      == <<>>
mLeft(p)  == Append(p, "left")
mRight(p) == Append(p, "right")
Way(q, n) == SubSeq(q, 1, n)   \* the place on the way to q after n turns
mSize(t, p) == IF p \in DOMAIN t THEN t[p].size ELSE 0

\* Where a node may be added.
Free(t) == ({Top} \cup {mLeft(p) : p \in DOMAIN t} \cup {mRight(p) : p \in DOMAIN t}) \ DOMAIN t

-----------------------------------------------------------------------------
(* push() *)

\* Slip: the first subtree is always taken.
FirstChild(t, p) == mLeft(p)

\* The subtree that a new node goes into.
SmallerChild(t, p) == IF mSize(t, mLeft(p)) <= mSize(t, mRight(p)) THEN mLeft(p) ELSE mRight(p)

\* From the top, always into the smaller subtree, one comes to e.
DropsTo(t, e) == \A n \in 0 .. Len(e) - 1 : Way(e, n + 1) = SmallerChild(t, Way(e, n))

\* The object that arrives after n turns: at each node the lower of two goes on.
Arrives(t, e, d) ==
  LET object[n \in 0 .. Len(e)] ==
        IF n = 0 THEN d
        ELSE IF OutRanks(object[n - 1], t[Way(e, n - 1)].data) THEN t[Way(e, n - 1)].data ELSE object[n - 1]
  IN object

\* LocHeapNode::push(): on the way to e each node keeps the higher of two objects.
PushNode(t, e, d) ==
  LET object == Arrives(t, e, d)
      Keeps(p) == IF OutRanks(object[Len(p)], t[p].data) THEN object[Len(p)] ELSE t[p].data
  IN [p \in DOMAIN t \cup {e} |->
        IF p = e THEN Leaf(object[Len(e)])
        ELSE IF IsPrefix(p, e) THEN [data |-> Keeps(p), size |-> t[p].size + 1]
        ELSE t[p]]

-----------------------------------------------------------------------------
(* pop() and remove() *)

\* The subtree whose top comes up.
HigherChild(t, p) ==
  IF \/ mRight(p) \notin DOMAIN t
     \/ mLeft(p) \in DOMAIN t /\ OutRanks(t[mLeft(p)].data, t[mRight(p)].data)
  THEN mLeft(p) ELSE mRight(p)

\* From r, always to the subtree whose top comes up, one comes to the leaf l.
SwapsDownTo(t, r, l) ==
  /\ IsPrefix(r, l) /\ mLeft(l) \notin DOMAIN t /\ mRight(l) \notin DOMAIN t
  /\ \A n \in Len(r) .. Len(l) - 1 : Way(l, n + 1) = HigherChild(t, Way(l, n))

\* LocHeapNode::pop() of the node at r: the objects below come up, the leaf l goes,
\* and every node above it loses one in its subtree.
PopNode(t, r, l) ==
  [p \in DOMAIN t \ {l} |->
     IF IsPrefix(p, l)
       THEN [data |-> IF IsPrefix(r, p) THEN t[Way(l, Len(p) + 1)].data ELSE t[p].data, size |-> t[p].size - 1]
       ELSE t[p]]

\* Slip: a subtree whose top has the same rank is left out of the search.
SearchedStrictly(t, d) ==
  {r \in DOMAIN t : \A p \in DOMAIN t \ {r} : IsPrefix(p, r) => OutRanks(t[p].data, d)}

\* The nodes that remove() looks at: it leaves out what is below a node that is
\* outranked by d.
Searched(t, d) ==
  {r \in DOMAIN t : \A p \in DOMAIN t \ {r} : IsPrefix(p, r) => ~OutRanks(d, t[p].data)}

\* LocHeapNode::remove(), of an object that is not in two nodes.
RemoveNode(t, d, u) ==
  LET found == {r \in Searched(t, d) : t[r].data = d} IN
  \/ found = {} /\ u = t
  \/ \E r \in found, l \in DOMAIN t : SwapsDownTo(t, r, l) /\ u = PopNode(t, r, l)

-----------------------------------------------------------------------------

HeapInit == tree = Nil /\ members = {} /\ popped = {}

HeapPush(d) ==
  /\ d \notin members /\ members' = members \cup {d}
  /\ \E e \in Free(tree) : DropsTo(tree, e) /\ tree' = PushNode(tree, e, d)
  /\ popped' = {}

HeapPop ==
  /\ tree # Nil
  /\ popped' = {tree[Top].data} /\ members' = members \ popped'
  /\ \E l \in DOMAIN tree : SwapsDownTo(tree, Top, l) /\ tree' = PopNode(tree, Top, l)

\* Also of an object that is not in the heap, as an expired timer is.
HeapRemove(d) ==
  /\ RemoveNode(tree, d, tree')
  /\ members' = members \ {d}
  /\ popped' = {}

HeapNext == HeapPop \/ \E d \in Rankables : HeapPush(d) \/ HeapRemove(d)

HeapSpec == HeapInit /\ [][HeapNext]_heapVars

-----------------------------------------------------------------------------
(* Properties. *)

\* checkNodes(), "checks if mSize is correct, AND this node is the highest
\* ranking of the entire subtree", after any pushes, pops and removals.
HeapInOrder ==
  \A p \in DOMAIN tree :
    /\ tree[p].size = 1 + mSize(tree, mLeft(p)) + mSize(tree, mRight(p))
    /\ \A q \in DOMAIN tree : IsPrefix(p, q) => ~OutRanks(tree[q].data, tree[p].data)

\* No object is lost from the heap and none stays behind: what was pushed is
\* found until it is popped or removed, whatever others have the same rank.
HeapHoldsMembers ==
  {tree[p].data : p \in DOMAIN tree} = members /\ mSize(tree, Top) = Cardinality(members)

\* The recursions of push(), pop() and remove() end, wherever they begin: one place
\* for a new node, one leaf below any node that is popped.
HeapWaysEnd ==
  /\ \E e \in Free(tree) : DropsTo(tree, e) /\ \A f \in Free(tree) : DropsTo(tree, f) => e = f
  /\ \A r \in DOMAIN tree :
       \E l \in DOMAIN tree : SwapsDownTo(tree, r, l) /\ \A m \in DOMAIN tree : SwapsDownTo(tree, r, m) => l = m

\* The tree is a heap of what it should hold.
HeapSound == HeapInOrder /\ HeapHoldsMembers /\ HeapWaysEnd

\* A pop gives an object that none in the heap outranks: the soonest timer.
HeapPopsHighest ==
  [][\A d \in popped', e \in members : ~OutRanks(e, d)]_heapVars

\* How much bigger one subtree of a node is than the other.
Imbalance(t, p) ==
  LET l == mSize(t, mLeft(p))
      r == mSize(t, mRight(p))
  IN IF l > r THEN l - r ELSE r - l

\* push() "tries to balance the tree by adding the new node to the smaller of
\* the subtrees": it never makes a node more than one out of balance, unless
\* pops and removals, which do not balance, have left it worse.
HeapPushBalances ==
  [][\A d \in members' \ members, p \in DOMAIN tree' :
       Imbalance(tree', p) <= 1 \/ (p \in DOMAIN tree /\ Imbalance(tree', p) <= Imbalance(tree, p))]_heapVars

\* What a step does to the order of the timers, and to the balance.
HeapSteps == HeapPopsHighest /\ HeapPushBalances
=============================================================================
