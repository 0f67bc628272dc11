------------------------------ MODULE LinkedList ------------------------------
(***************************************************************************)
(* The doubly linked list of gps/utils/linked_list.c: new elements go to   *)
(* the head, linked_list_remove() takes the tail.  An element is           *)
(* identified with the object it holds.                                    *)
(***************************************************************************)
EXTENDS Naturals, Sequences, FiniteSets

CONSTANTS Elements, Null

ASSUME ListAssumption == Null \notin Elements /\ IsFiniteSet(Elements)

Lists ==
  [p_head : Elements \cup {Null}, p_tail : Elements \cup {Null},
   next : [Elements -> Elements \cup {Null}], prev : [Elements -> Elements \cup {Null}]]

Nowhere == [e \in Elements |-> Null]
EmptyList == [p_head |-> Null, p_tail |-> Null, next |-> Nowhere, prev |-> Nowhere]

\* Of an element that is freed no link is kept.
Freed(l, e) == [l EXCEPT !.next[e] = Null, !.prev[e] = Null]

\* linked_list_add(), write by write: the new element, which nobody knows before,
\* becomes the head, ...
Publish(l, e) == [l EXCEPT !.p_head = e, !.next[e] = Null, !.prev[e] = Null]

\* ... its next is the old head, ...
LinkNext(l, e, old) == [l EXCEPT !.next[e] = old]

\* ... and the old head is told of it, or it is the tail as well.
LinkBack(l, e, old) == IF old = Null THEN [l EXCEPT !.p_tail = e] ELSE [l EXCEPT !.prev[old] = e]

Add(l, e) == LET old == l.p_head IN LinkBack(LinkNext(Publish(l, e), e, old), e, old)

\* Slip: the head of a list that becomes empty is left behind.
RemoveTailKeepsHead(l) ==
  LET last == l.p_tail
      new  == l.prev[last]
  IN  Freed([l EXCEPT !.p_tail = new,
                      !.next = [x \in Elements |-> IF x = new THEN Null ELSE @[x]]], last)

\* linked_list_remove()
RemoveTail(l) ==
  LET last == l.p_tail
      new  == l.prev[last]
  IN  Freed([l EXCEPT !.p_tail = new,
                      !.p_head = IF new = Null THEN Null ELSE @,
                      !.next = [x \in Elements |-> IF x = new THEN Null ELSE @[x]]], last)

\* Slip: the element that goes loses its way on at once.
CutNextLoses(l, e) ==
  IF l.prev[e] = Null
    THEN [l EXCEPT !.p_head = l.next[e], !.next[e] = Null]
    ELSE [l EXCEPT !.next[l.prev[e]] = l.next[e], !.next[e] = Null]

\* linked_list_search() with rm_if_found, once e is found, write by write: the way
\* from the head goes round it, ...
CutNext(l, e) ==
  IF l.prev[e] = Null
    THEN [l EXCEPT !.p_head = l.next[e]]
    ELSE [l EXCEPT !.next[l.prev[e]] = l.next[e]]

\* Slip: the tail is left behind.
CutPrevKeepsTail(l, e) ==
  IF l.next[e] = Null THEN l ELSE [l EXCEPT !.prev[l.next[e]] = l.prev[e]]

\* ... so does the way from the tail, and then its links are cleared.
CutPrev(l, e) ==
  IF l.next[e] = Null
    THEN [l EXCEPT !.p_tail = l.prev[e]]
    ELSE [l EXCEPT !.prev[l.next[e]] = l.prev[e]]

\* The elements on the way from start along the given links, until it ends or
\* comes back to one of them.
Walk(start, links) ==
  CHOOSE way \in UNION {[1..n -> Elements] : n \in 0..Cardinality(Elements)} :
    /\ start = IF way = <<>> THEN Null ELSE way[1]
    /\ \A i \in 2..Len(way) : way[i] = links[way[i - 1]]
    /\ \A i, j \in DOMAIN way : way[i] = way[j] => i = j
    /\ way # <<>> => links[way[Len(way)]] \in {Null} \cup {way[i] : i \in DOMAIN way}

Forward(l)  == Walk(l.p_head, l.next)
Backward(l) == Walk(l.p_tail, l.prev)
=============================================================================
