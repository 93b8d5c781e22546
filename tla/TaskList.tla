------------------------------ MODULE TaskList ------------------------------
(***************************************************************************)
(* The intrusive doubly-linked task lists of AuroraOS (task/task.h:107-164, *)
(* task/task.c:788-800).  Every task_t embeds ONE list node, so a task is   *)
(* in one list at a time, and every list is a ring through a sentinel node. *)
(*                                                                          *)
(* A heap of nodes is a record l with two functions, l.next and l.prev.     *)
(* The operators are pure: they take a heap and return the heap after the   *)
(* assignments of the C code, made one after the other in the source order, *)
(* since the order matters when the nodes named by the arguments coincide.  *)
(***************************************************************************)
EXTENDS Naturals, Sequences

(***************************************************************************)
(* TASK_LIST_SENTINEL(node), and the self ring that system_execute gives    *)
(* the node of a new task before it is inserted anywhere.                   *)
(***************************************************************************)
SelfRing(l, n) == [l EXCEPT !.next[n] = n, !.prev[n] = n]

\* Slip: the old predecessor keeps its pointer to n.
move_task_to_list_keeps_prev(l, n, new_prev, new_next) ==
  LET l1 == [l EXCEPT !.prev[l.next[n]] = l.prev[n]]
      l2 == [l1 EXCEPT !.prev[n] = new_prev, !.next[new_prev] = n]
  IN  [l2 EXCEPT !.next[n] = new_next, !.prev[new_next] = n]

(***************************************************************************)
(* move_task_to_list_unsafe: unlink n where it is, link it between new_prev *)
(* and new_next.  The two arguments are evaluated BEFORE n is unlinked.     *)
(***************************************************************************)
move_task_to_list(l, n, new_prev, new_next) ==
  LET l1 == [l  EXCEPT !.prev[l.next[n]] = l.prev[n]]
      l2 == [l1 EXCEPT !.next[l1.prev[n]] = l1.next[n]]
      l3 == [l2 EXCEPT !.prev[n] = new_prev]
      l4 == [l3 EXCEPT !.next[new_prev] = n]
      l5 == [l4 EXCEPT !.next[n] = new_next]
  IN  [l5 EXCEPT !.prev[new_next] = n]

move_task_after_node(l, n, node) == move_task_to_list(l, n, node, l.next[node])

-----------------------------------------------------------------------------
(***************************************************************************)
(* Reading a list.  NthNext(l, s, k) is the k-th node after s, so a walk    *)
(* that the C macro task_list_for_each would make is bounded here by the    *)
(* number of nodes: a corrupted ring does not make the operators diverge.   *)
(***************************************************************************)
NthNext(l, s, k) ==
  LET nth[i \in 0..k] == IF i = 0 THEN s ELSE l.next[nth[i - 1]]
  IN  nth[k]

Closes(l, s, bound) == \E k \in 1..bound : NthNext(l, s, k) = s

ListLen(l, s, bound) ==
  (CHOOSE k \in 1..bound :
      /\ NthNext(l, s, k) = s
      /\ \A j \in 1..(k - 1) : NthNext(l, s, j) # s) - 1

\* The tasks of the list with sentinel s, in task_list_for_each order.
ListSeq(l, s, bound) ==
  [k \in 1..ListLen(l, s, bound) |-> NthNext(l, s, k)]

ListElems(l, s, bound) ==
  {NthNext(l, s, k) : k \in 1..ListLen(l, s, bound)}

(***************************************************************************)
(* A heap restricted to the nodes S is consistently linked: every node of   *)
(* S has its neighbours in S, and next and prev are inverse to each other.  *)
(***************************************************************************)
Linked(l, S) ==
  \A n \in S : /\ l.next[n] \in S
               /\ l.prev[n] \in S
               /\ l.prev[l.next[n]] = n
               /\ l.next[l.prev[n]] = n
=============================================================================
