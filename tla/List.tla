-------------------------------- MODULE List --------------------------------
(***************************************************************************)
(* The intrusive doubly linked list of src/kernel/list.h.                  *)
(*                                                                         *)
(* A heap of list cells is a record of two functions from cells to cells,  *)
(* the fields next and prev of struct list.  An operator returns the heap  *)
(* that the function leaves behind; the assignments are made in the order  *)
(* of the code.                                                            *)
(***************************************************************************)
EXTENDS Integers

list_init(heap, head) ==
    [next |-> [heap.next EXCEPT ![head] = head],
     prev |-> [heap.prev EXCEPT ![head] = head]]

list_empty(heap, head) == heap.next[head] = head

\* In a list that is not empty the entry goes behind head->prev, but its prev
\* becomes what head->prev->next was, and nothing points back to it.
list_add_tail(heap, head, entry) ==
    LET last == heap.prev[head] IN
    IF list_empty(heap, head)
    THEN [next |-> [heap.next EXCEPT ![head] = entry, ![entry] = head],
          prev |-> [heap.prev EXCEPT ![head] = entry, ![entry] = head]]
    ELSE [next |-> [heap.next EXCEPT ![entry] = head, ![last] = entry],
          prev |-> [heap.prev EXCEPT ![entry] = heap.next[last]]]

list_delete(heap, entry) ==
    LET unlinked == [heap.next EXCEPT ![heap.prev[entry]] = heap.next[entry]]
    IN  [next |-> unlinked,
         prev |-> [heap.prev EXCEPT ![unlinked[entry]] = heap.prev[entry]]]
=============================================================================
