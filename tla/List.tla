-------------------------------- MODULE List --------------------------------
(***************************************************************************)
(* The doubly linked rings of include/initng/list.h, on which every        *)
(* database of initng is built (services, processes, pipes, hooks, modules,*)
(* commands, changed services).  heap.next and heap.prev are the two       *)
(* pointers of every list_t; a list head is a node of its own and an entry *)
(* that is in no list has two NULL pointers.                               *)
(*                                                                         *)
(* A caller may insert any free entry and delete or move any entry;        *)
(* initng_list_add_tail and list_move_tail are used by the ngcs client     *)
(* only (NgcsClient); initng_list_join is used by nobody.                  *)
(***************************************************************************)
EXTENDS Naturals

CONSTANTS
    Heads,      \* list heads, initialised once by initng_list_init
    Entries,    \* structures with a list_t member
    NULL

Nodes == Heads \cup Entries

\* A head is never an entry of a list and no node is the NULL pointer.
ASSUME HeadsAreNodes ==
    Heads \cap Entries = {} /\ NULL \notin Heads /\ NULL \notin Entries

VARIABLE heap

-----------------------------------------------------------------------------
\* entry->next || entry->prev
Linked(h, e) == h.next[e] # NULL \/ h.prev[e] # NULL

\* A wrong version: the old first entry keeps the head as its predecessor.
AddOneWay(h, e, head) ==
    IF Linked(h, e) THEN h
    ELSE [next |-> [h.next EXCEPT ![e] = h.next[head], ![head] = e],
          prev |-> [h.prev EXCEPT ![e] = head]]

\* initng_list_add: right behind the head, and not when already in a list.
Add(h, e, head) ==
    IF Linked(h, e) THEN h
    ELSE [next |-> [h.next EXCEPT ![e] = h.next[head], ![head] = e],
          prev |-> [h.prev EXCEPT ![h.next[head]] = e, ![e] = head]]

\* initng_list_add_tail, assignment by assignment: head->prev is already newe
\* when it is copied to newe->prev.
AddTail(h, e, head) ==
    IF Linked(h, e) THEN h
    ELSE [next |-> [h.next EXCEPT ![h.prev[head]] = e, ![e] = head],
          prev |-> [h.prev EXCEPT ![head] = e, ![e] = e]]

\* initng_list_del: the neighbours are joined and the entry's pointers cleared.
Del(h, e) ==
    IF ~Linked(h, e) THEN h
    ELSE [next |-> [h.next EXCEPT ![h.prev[e]] = h.next[e], ![e] = NULL],
          prev |-> [h.prev EXCEPT ![h.next[e]] = h.prev[e], ![e] = NULL]]

\* initng_list_move
Move(h, e, head) == Add(Del(h, e), e, head)

\* list_move_tail
MoveTail(h, e, head) == AddTail(Del(h, e), e, head)

\* initng_list_isempty
IsEmpty(h, head) == h.next[head] = head

-----------------------------------------------------------------------------
\* initng_list_init of every head; the entries come zeroed from calloc.
ListInit ==
    heap = [next |-> [n \in Nodes |-> IF n \in Heads THEN n ELSE NULL],
            prev |-> [n \in Nodes |-> IF n \in Heads THEN n ELSE NULL]]

AddEntry(e, head) == heap' = Add(heap, e, head)

DelEntry(e) == heap' = Del(heap, e)

MoveEntry(e, head) == heap' = Move(heap, e, head)

ListNext ==
    \/ \E e \in Entries, head \in Heads : AddEntry(e, head) \/ MoveEntry(e, head)
    \/ \E e \in Entries : DelEntry(e)

ListSpec == ListInit /\ [][ListNext]_heap

-----------------------------------------------------------------------------
\* Both pointers of a node are nodes or both are NULL, and a head's never are.
ListTypeOK ==
    /\ heap \in [next : [Nodes -> Nodes \cup {NULL}], prev : [Nodes -> Nodes \cup {NULL}]]
    /\ \A n \in Nodes : heap.next[n] = NULL <=> heap.prev[n] = NULL
    /\ \A n \in Heads : heap.next[n] # NULL

\* The lists stay rings: whoever is in a list is the successor of its
\* predecessor and the predecessor of its successor, so that a walk in either
\* direction (initng_list_foreach, initng_list_foreach_rev) visits the same
\* entries and a deletion leaves no pointer to the deleted entry.
Ring ==
    \A n \in Nodes : heap.next[n] # NULL =>
        /\ heap.next[n] \in Nodes /\ heap.prev[n] \in Nodes
        /\ heap.prev[heap.next[n]] = n
        /\ heap.next[heap.prev[n]] = n

\* The invariant that is inductive without the tail operations.
ListIInv == ListTypeOK /\ Ring
=============================================================================
