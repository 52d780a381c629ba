----------------------------- MODULE ListProofs -----------------------------
(***************************************************************************)
(* The lists of list.h stay rings for every set of heads and entries,      *)
(* whatever is added, deleted and moved.                                   *)
(***************************************************************************)
EXTENDS List, TLAPS

\* ListInit builds one empty ring per head (initng_list_init).
LEMMA InitRing ==
    ASSUME ListInit PROVE ListIInv
BY HeadsAreNodes DEF ListInit, ListIInv, ListTypeOK, Ring, Nodes

\* What Ring and ListTypeOK say of an arbitrary heap.
Good(h) ==
    /\ h \in [next : [Nodes -> Nodes \cup {NULL}], prev : [Nodes -> Nodes \cup {NULL}]]
    /\ \A n \in Nodes : h.next[n] = NULL <=> h.prev[n] = NULL
    /\ \A n \in Heads : h.next[n] # NULL
    /\ \A n \in Nodes : h.next[n] # NULL =>
        /\ h.next[n] \in Nodes /\ h.prev[n] \in Nodes
        /\ h.prev[h.next[n]] = n
        /\ h.next[h.prev[n]] = n

\* initng_list_add keeps every ring a ring.
LEMMA AddGood ==
    ASSUME NEW h, Good(h), NEW e \in Entries, NEW head \in Heads
    PROVE  Good(Add(h, e, head))
  <1>1. CASE Linked(h, e)
    BY <1>1 DEF Add
  <1>2. CASE ~Linked(h, e)
    <2> DEFINE f == h.next[head]
               nx == [h.next EXCEPT ![e] = f, ![head] = e]
               pv == [h.prev EXCEPT ![f] = e, ![e] = head]
    <2>1. /\ e # NULL /\ head # NULL /\ f \in Nodes /\ f # NULL /\ f # e /\ e # head /\ e \in Nodes /\ head \in Nodes
          /\ h.prev[f] = head /\ h.next[e] = NULL /\ h.prev[e] = NULL /\ h.prev[head] # NULL
      BY <1>2, HeadsAreNodes DEF Good, Linked, Nodes
    <2>2. Add(h, e, head) = [next |-> nx, prev |-> pv]
      BY <1>2 DEF Add
    <2>3. nx \in [Nodes -> Nodes \cup {NULL}] /\ pv \in [Nodes -> Nodes \cup {NULL}]
      BY <2>1 DEF Good
    <2>4. \A n \in Nodes : /\ nx[n] = (IF n = head THEN e ELSE IF n = e THEN f ELSE h.next[n])
                           /\ pv[n] = (IF n = e THEN head ELSE IF n = f THEN e ELSE h.prev[n])
      BY <2>1 DEF Good
    <2> HIDE DEF nx, pv
    <2>5. \A n \in Nodes : nx[n] # NULL => nx[n] \in Nodes /\ pv[n] \in Nodes /\ pv[nx[n]] = n /\ nx[pv[n]] = n
      BY <2>1, <2>3, <2>4, HeadsAreNodes DEF Good, Nodes
    <2>6. \A n \in Nodes : nx[n] = NULL <=> pv[n] = NULL
      BY <2>1, <2>4 DEF Good
    <2>7. \A n \in Heads : nx[n] # NULL
      <3>1. \A n \in Heads : n \in Nodes /\ n # e
        BY HeadsAreNodes DEF Nodes
      <3>2. \A n \in Heads : h.next[n] # NULL
        BY DEF Good
      <3> QED BY <2>1, <2>4, <3>1, <3>2
    <2> QED BY <2>2, <2>3, <2>5, <2>6, <2>7 DEF Good
  <1> QED BY <1>1, <1>2

\* initng_list_del keeps every ring a ring.
LEMMA DelGood ==
    ASSUME NEW h, Good(h), NEW e \in Entries
    PROVE  Good(Del(h, e)) /\ ~Linked(Del(h, e), e)
  <1>1. CASE ~Linked(h, e)
    BY <1>1 DEF Del
  <1>2. CASE Linked(h, e)
    <2> DEFINE p == h.prev[e]
               f == h.next[e]
               nx == [h.next EXCEPT ![p] = f, ![e] = NULL]
               pv == [h.prev EXCEPT ![f] = p, ![e] = NULL]
    <2>1. e # NULL /\ e \in Nodes /\ f \in Nodes /\ p \in Nodes /\ f # NULL /\ p # NULL /\ h.prev[f] = e /\ h.next[p] = e
      BY <1>2, HeadsAreNodes DEF Good, Linked, Nodes
    <2>2. Del(h, e) = [next |-> nx, prev |-> pv]
      BY <1>2 DEF Del
    <2>3. nx \in [Nodes -> Nodes \cup {NULL}] /\ pv \in [Nodes -> Nodes \cup {NULL}]
      BY <2>1 DEF Good
    <2>4. \A n \in Nodes : /\ nx[n] = (IF n = e THEN NULL ELSE IF n = p THEN f ELSE h.next[n])
                           /\ pv[n] = (IF n = e THEN NULL ELSE IF n = f THEN p ELSE h.prev[n])
      BY <2>1 DEF Good
    <2> HIDE DEF nx, pv
    <2>5. \A n \in Nodes : nx[n] # NULL => nx[n] \in Nodes /\ pv[n] \in Nodes /\ pv[nx[n]] = n /\ nx[pv[n]] = n
      BY <2>1, <2>3, <2>4, HeadsAreNodes DEF Good, Nodes
    <2>6. \A n \in Nodes : nx[n] = NULL <=> pv[n] = NULL
      BY <2>1, <2>4 DEF Good
    <2>7. \A n \in Heads : nx[n] # NULL
      <3>1. \A n \in Heads : n \in Nodes /\ n # e
        BY HeadsAreNodes DEF Nodes
      <3>2. \A n \in Heads : h.next[n] # NULL
        BY DEF Good
      <3> QED BY <2>1, <2>4, <3>1, <3>2
    <2>8. nx[e] = NULL /\ pv[e] = NULL
      BY <2>1, <2>4
    <2> QED BY <2>2, <2>3, <2>5, <2>6, <2>7, <2>8 DEF Good, Linked
  <1> QED BY <1>1, <1>2

\* ListTypeOK and Ring say of the heap what Good says of any heap.
LEMMA GoodHeap == ListIInv <=> Good(heap)
  <1>1. ASSUME ListIInv PROVE Good(heap)
    BY <1>1 DEF ListIInv, ListTypeOK, Ring, Good
  <1>2. ASSUME Good(heap) PROVE ListIInv
    BY <1>2 DEF ListIInv, ListTypeOK, Ring, Good
  <1> QED BY <1>1, <1>2

\* Every step keeps the rings.
LEMMA StepRing ==
    ASSUME ListIInv, [ListNext]_heap PROVE ListIInv'
  <1>1. Good(heap)
    BY GoodHeap
  <1>2. ASSUME NEW e \in Entries, NEW head \in Heads, AddEntry(e, head) PROVE Good(heap')
    BY <1>1, <1>2, AddGood DEF AddEntry
  <1>3. ASSUME NEW e \in Entries, DelEntry(e) PROVE Good(heap')
    BY <1>1, <1>3, DelGood DEF DelEntry
  <1>4. ASSUME NEW e \in Entries, NEW head \in Heads, MoveEntry(e, head) PROVE Good(heap')
    <2>1. Good(Del(heap, e))
      BY <1>1, DelGood
    <2>2. Good(Add(Del(heap, e), e, head))
      BY <2>1, AddGood
    <2> QED BY <1>4, <2>2 DEF MoveEntry, Move
  <1>5. CASE UNCHANGED heap
    BY <1>5 DEF ListIInv, ListTypeOK, Ring
  <1>6. Good(heap') => ListIInv'
    BY DEF ListIInv, ListTypeOK, Ring, Good
  <1> QED BY <1>2, <1>3, <1>4, <1>5, <1>6 DEF ListNext

\* Every list of initng stays a ring, whatever is added, deleted and moved with
\* initng_list_add, initng_list_del and initng_list_move, in any order.
THEOREM RingAlways == ListSpec => []Ring
  <1>1. ListInit => ListIInv
    BY InitRing
  <1>2. ListIInv /\ [ListNext]_heap => ListIInv'
    BY StepRing
  <1>3. ListIInv => Ring
    BY DEF ListIInv
  <1> QED BY <1>1, <1>2, <1>3, PTL DEF ListSpec
=============================================================================
