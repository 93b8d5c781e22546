---------------------------- MODULE Kernel_proofs ----------------------------
(***************************************************************************)
(* Theorems about Sched.tla and about Kernel.tla, which extends it.         *)
(*                                                                          *)
(* Part 1, the scheduler alone: for every number of tasks and every slice.  *)
(*                                                                          *)
(* Part 2, the kernel: for every number of tasks, terminals, pages and      *)
(* every length of the key buffer.  What concerns the lists and the readers *)
(* holds until a key wakes a task that does not wait for it (misled); the   *)
(* run KernelCloseReader.cfg shows what becomes of the lists then.  What    *)
(* concerns processes, pages, mappings and windows holds after that too.    *)
(***************************************************************************)
EXTENDS Kernel, TLAPS, WellFoundedInduction, FiniteSetTheorems, SequenceTheorems

-----------------------------------------------------------------------------
(***************************************************************************)
(*                        PART 1: THE SCHEDULER                             *)
(***************************************************************************)

Heap == [next : [Node -> Node], prev : [Node -> Node]]

(***************************************************************************)
(* What move_task_to_list_unsafe does to every pointer, when the node is    *)
(* not one of its two new neighbours: the danger of stale arguments that    *)
(* the comment of task.h:128-131 warns about is exactly the other case.     *)
(***************************************************************************)
LEMMA MovePointers ==
  ASSUME NEW l \in Heap, NEW n \in Node, NEW a \in Node, NEW b \in Node,
         n # a, n # b
  PROVE  LET m == move_task_to_list(l, n, a, b)
         IN  /\ m \in Heap
             /\ \A x \in Node :
                  m.next[x] = IF x = n THEN b
                              ELSE IF x = a THEN n
                              ELSE IF x = l.prev[n] THEN l.next[n]
                              ELSE l.next[x]
             /\ \A x \in Node :
                  m.prev[x] = IF x = n THEN a
                              ELSE IF x = b THEN n
                              ELSE IF x = l.next[n] THEN l.prev[n]
                              ELSE l.prev[x]
<1> DEFINE l1 == [l  EXCEPT !.prev[l.next[n]] = l.prev[n]]
           l2 == [l1 EXCEPT !.next[l1.prev[n]] = l1.next[n]]
           l3 == [l2 EXCEPT !.prev[n] = a]
           l4 == [l3 EXCEPT !.next[a] = n]
           l5 == [l4 EXCEPT !.next[n] = b]
           l6 == [l5 EXCEPT !.prev[b] = n]
<1>1. /\ l1 \in Heap
      /\ l1.next = l.next
      /\ l1.prev = [l.prev EXCEPT ![l.next[n]] = l.prev[n]]
  BY DEF Heap
<1>2. l1.prev[n] = l.prev[n]
  BY <1>1 DEF Heap
<1>3. /\ l2 \in Heap
      /\ l2.next = [l.next EXCEPT ![l.prev[n]] = l.next[n]]
      /\ l2.prev = l1.prev
  <2> HIDE DEF l1
  <2> QED BY <1>1, <1>2 DEF Heap
<1>4. l3 \in Heap /\ l3.next = l2.next /\ l3.prev = [l2.prev EXCEPT ![n] = a]
  <2> HIDE DEF l2
  <2> QED BY <1>3 DEF Heap
<1>5. l4 \in Heap /\ l4.prev = l3.prev /\ l4.next = [l3.next EXCEPT ![a] = n]
  <2> HIDE DEF l3
  <2> QED BY <1>4 DEF Heap
<1>6. l5 \in Heap /\ l5.prev = l4.prev /\ l5.next = [l4.next EXCEPT ![n] = b]
  <2> HIDE DEF l4
  <2> QED BY <1>5 DEF Heap
<1>7. l6 \in Heap /\ l6.next = l5.next /\ l6.prev = [l5.prev EXCEPT ![b] = n]
  <2> HIDE DEF l5
  <2> QED BY <1>6 DEF Heap
<1>8. move_task_to_list(l, n, a, b) = l6
  BY DEF move_task_to_list
<1> HIDE DEF l1, l2, l3, l4, l5, l6
<1>9. /\ l6.next = [[[l.next EXCEPT ![l.prev[n]] = l.next[n]] EXCEPT ![a] = n]
                     EXCEPT ![n] = b]
      /\ l6.prev = [[[l.prev EXCEPT ![l.next[n]] = l.prev[n]] EXCEPT ![n] = a]
                     EXCEPT ![b] = n]
  BY <1>1, <1>3, <1>4, <1>5, <1>6, <1>7
<1> QED
  BY <1>7, <1>8, <1>9 DEF Heap

-----------------------------------------------------------------------------
(***************************************************************************)
(* Rings.  w says which list every task is in; a task that does not exist   *)
(* is in temp_list, which is no ring.                                       *)
(***************************************************************************)
HomeIn(w, x) == IF x \in Task THEN w[x] ELSE x

InUse(w) == {x \in Node : HomeIn(w, x) # temp_list}

WellLinked(l, w) ==
  /\ Linked(l, InUse(w))
  /\ \A x \in InUse(w) : HomeIn(w, l.next[x]) = HomeIn(w, x)

\* The sentinels are nodes of their own.
LEMMA Sentinels ==
  /\ Task \subseteq Node /\ Lists \subseteq Node /\ temp_list \in Node
  /\ Node = Task \cup Lists \cup {temp_list}
  /\ Lists \cap Task = {}
  /\ temp_list \notin Task /\ temp_list \notin Lists
  /\ NoNode \notin Node
  /\ {run_queue, rtc_wait_list, terminal_wait_list, wait4child_list} = Lists
  /\ rtc_wait_list # run_queue /\ terminal_wait_list # run_queue
  /\ rtc_wait_list # terminal_wait_list
  /\ InitTask \in Task /\ IdleTask \in Task
BY SlotsAssumption
   DEF Node, Lists, WaitLists, Task, run_queue, wait4child_list,
       rtc_wait_list, terminal_wait_list, temp_list, NoNode, InitTask, IdleTask

\* The sentinels are in use whatever the tasks do.
LEMMA UsedNodes ==
  ASSUME NEW w
  PROVE  /\ InUse(w) \subseteq Node
         /\ Lists \subseteq InUse(w)
         /\ temp_list \notin InUse(w)
         /\ \A t \in Task : t \in InUse(w) <=> w[t] # temp_list
         /\ \A s \in Lists : HomeIn(w, s) = s
         /\ \A t \in Task : HomeIn(w, t) = w[t]
BY Sentinels DEF InUse, HomeIn

(***************************************************************************)
(* A node that may be moved: one that is in a ring, or one that is alone.   *)
(***************************************************************************)
Movable(l, w, n) == n \in InUse(w) \/ (l.next[n] = n /\ l.prev[n] = n)

\* The neighbours of a node that may be moved.
LEMMA Neighbours ==
  ASSUME NEW l \in Heap, NEW w, WellLinked(l, w),
         NEW n \in Task, Movable(l, w, n)
  PROVE  /\ \A x \in InUse(w) :
              /\ x # n => (l.next[x] = n <=> x = l.prev[n])
              /\ x # n => (l.prev[x] = n <=> x = l.next[n])
         /\ l.prev[n] # n => n \in InUse(w)
         /\ l.prev[n] # n <=> l.next[n] # n
         /\ l.next[n] \in Node /\ l.prev[n] \in Node
<1>1. l.next[n] \in Node /\ l.prev[n] \in Node
  BY Sentinels DEF Heap
<1>2. CASE n \in InUse(w)
  BY <1>1, <1>2 DEF WellLinked, Linked
<1>3. CASE n \notin InUse(w)
  BY <1>1, <1>3 DEF WellLinked, Linked, Movable
<1> QED BY <1>2, <1>3

(***************************************************************************)
(* A task that is moved between two neighbours of a ring leaves its ring,   *)
(* if it was in one, and joins theirs; both stay rings.                     *)
(***************************************************************************)
LEMMA MoveKeepsRings ==
  ASSUME NEW l \in Heap, NEW w \in [Task -> Lists \cup {temp_list}],
         WellLinked(l, w), NEW n \in Task, Movable(l, w, n),
         NEW a \in InUse(w), n # a, l.next[a] # n
  PROVE  LET m == move_task_after_node(l, n, a)
         IN  /\ m \in Heap
             /\ WellLinked(m, [w EXCEPT ![n] = HomeIn(w, a)])
<1> DEFINE b == l.next[a]
           m == move_task_to_list(l, n, a, b)
           v == [w EXCEPT ![n] = HomeIn(w, a)]
           p == l.prev[n]
           q == l.next[n]
<1>1. /\ n \in Node /\ a \in Node
      /\ b \in InUse(w) /\ b \in Node /\ b # n
      /\ l.prev[b] = a /\ HomeIn(w, b) = HomeIn(w, a)
      /\ HomeIn(w, a) # temp_list
  BY Sentinels, UsedNodes DEF WellLinked, Linked, InUse
<1>2. /\ m \in Heap
      /\ \A x \in Node : m.next[x] = IF x = n THEN b
                                     ELSE IF x = a THEN n
                                     ELSE IF x = p THEN q
                                     ELSE l.next[x]
      /\ \A x \in Node : m.prev[x] = IF x = n THEN a
                                     ELSE IF x = b THEN n
                                     ELSE IF x = q THEN p
                                     ELSE l.prev[x]
  <2> HIDE DEF b
  <2> QED BY <1>1, MovePointers DEF m
<1>3. move_task_after_node(l, n, a) = m
  BY DEF move_task_after_node
<1> HIDE DEF m
<1>4. /\ HomeIn(v, n) = HomeIn(w, a)
      /\ \A y \in Node : y # n => HomeIn(v, y) = HomeIn(w, y)
  BY DEF HomeIn
<1>5. /\ n \in InUse(v)
      /\ \A y : y # n => (y \in InUse(v) <=> y \in InUse(w))
  BY <1>1, <1>4 DEF InUse
<1> HIDE DEF v
<1>6. /\ \A x \in InUse(w) :
           /\ x # n => (l.next[x] = n <=> x = p)
           /\ x # n => (l.prev[x] = n <=> x = q)
      /\ p # n => n \in InUse(w)
      /\ p # n <=> q # n
      /\ p \in Node /\ q \in Node
  BY Neighbours
<1>7. \A x \in InUse(w) :
         /\ x \in Node
         /\ l.next[x] \in InUse(w) /\ l.prev[x] \in InUse(w)
         /\ l.prev[l.next[x]] = x /\ l.next[l.prev[x]] = x
         /\ HomeIn(w, l.next[x]) = HomeIn(w, x)
  BY UsedNodes DEF WellLinked, Linked
<1> HIDE DEF b, p, q
<1>8. p # n => /\ p \in InUse(w) /\ q \in InUse(w)
               /\ l.next[p] = n /\ l.prev[q] = n
               /\ HomeIn(w, p) = HomeIn(w, n) /\ HomeIn(w, q) = HomeIn(w, n)
  BY <1>6, <1>7 DEF p, q
<1>9. b # q \/ p = n
  BY <1>1, <1>8
<1>10. a # p
  BY <1>1, <1>6, <1>8 DEF b
<1>11. ASSUME NEW x \in InUse(v)
       PROVE  /\ m.next[x] \in InUse(v) /\ m.prev[m.next[x]] = x
              /\ HomeIn(v, m.next[x]) = HomeIn(v, x)
  <2>1. CASE x = n
    <3>1. m.next[x] = b
      BY <2>1, <1>1, <1>2
    <3>2. m.prev[b] = n
      BY <1>1, <1>2
    <3> QED BY <3>1, <3>2, <2>1, <1>1, <1>4, <1>5
  <2>2. CASE x # n /\ x = a
    <3>1. m.next[x] = n
      BY <2>2, <1>1, <1>2
    <3>2. m.prev[n] = a
      BY <1>1, <1>2
    <3> QED BY <3>1, <3>2, <2>2, <1>1, <1>4, <1>5
  <2>3. CASE x # n /\ x # a /\ x = p
    <3>1. m.next[x] = q
      BY <2>3, <1>1, <1>2, <1>6
    <3>2. q # n /\ q # b
      BY <2>3, <1>6, <1>9
    <3>3. m.prev[q] = p
      BY <3>2, <1>2, <1>6
    <3> QED BY <3>1, <3>2, <3>3, <2>3, <1>4, <1>5, <1>6, <1>8
  <2>4. CASE x # n /\ x # a /\ x # p
    <3>1. x \in InUse(w) /\ x \in Node
      BY <2>4, <1>5, <1>7
    <3>2. m.next[x] = l.next[x]
      BY <3>1, <2>4, <1>2
    <3>3. l.next[x] # n /\ l.next[x] # b /\ l.next[x] # q
      <4>1. l.next[x] # n
        BY <3>1, <2>4, <1>6
      <4>2. l.next[x] # b
        BY <3>1, <2>4, <1>1, <1>7
      <4>3. l.next[x] # q
        BY <3>1, <2>4, <4>1, <1>6, <1>7, <1>8
      <4> QED BY <4>1, <4>2, <4>3
    <3>4. l.next[x] \in Node /\ l.next[x] \in InUse(w) /\ l.prev[l.next[x]] = x
      BY <3>1, <1>7
    <3>5. m.prev[l.next[x]] = x
      BY <3>3, <3>4, <1>2
    <3> QED BY <3>1, <3>2, <3>3, <3>4, <3>5, <2>4, <1>4, <1>5, <1>7
  <2> QED BY <2>1, <2>2, <2>3, <2>4
<1>12. ASSUME NEW x \in InUse(v)
       PROVE  m.prev[x] \in InUse(v) /\ m.next[m.prev[x]] = x
  <2>1. CASE x = n
    <3>1. m.prev[x] = a
      BY <2>1, <1>1, <1>2
    <3>2. m.next[a] = n
      BY <1>1, <1>2
    <3> QED BY <3>1, <3>2, <2>1, <1>5
  <2>2. CASE x # n /\ x = b
    <3>1. m.prev[x] = n
      BY <2>2, <1>1, <1>2
    <3>2. m.next[n] = b
      BY <1>1, <1>2
    <3> QED BY <3>1, <3>2, <2>2, <1>5
  <2>3. CASE x # n /\ x # b /\ x = q
    <3>1. m.prev[x] = p
      BY <2>3, <1>1, <1>2, <1>6
    <3>2. p # n
      BY <2>3, <1>6
    <3>3. m.next[p] = q
      BY <3>2, <1>2, <1>6, <1>10
    <3> QED BY <3>1, <3>2, <3>3, <2>3, <1>5, <1>8
  <2>4. CASE x # n /\ x # b /\ x # q
    <3>1. x \in InUse(w) /\ x \in Node
      BY <2>4, <1>5, <1>7
    <3>2. m.prev[x] = l.prev[x]
      BY <3>1, <2>4, <1>2
    <3>3. l.prev[x] # n /\ l.prev[x] # a /\ l.prev[x] # p
      <4>1. l.prev[x] # n
        BY <3>1, <2>4, <1>6
      <4>2. l.prev[x] # a
        BY <3>1, <2>4, <1>7 DEF b
      <4>3. l.prev[x] # p
        BY <3>1, <2>4, <4>1, <1>6, <1>7, <1>8
      <4> QED BY <4>1, <4>2, <4>3
    <3>4. l.prev[x] \in Node /\ l.prev[x] \in InUse(w) /\ l.next[l.prev[x]] = x
      BY <3>1, <1>7
    <3>5. m.next[l.prev[x]] = x
      BY <3>3, <3>4, <1>2
    <3> QED BY <3>2, <3>3, <3>4, <3>5, <1>5
  <2> QED BY <2>1, <2>2, <2>3, <2>4
<1>13. WellLinked(m, v)
  BY <1>11, <1>12 DEF WellLinked, Linked
<1> QED
  BY <1>2, <1>3, <1>13 DEF v

(***************************************************************************)
(* No ring without a sentinel: no set of tasks is closed under next.  The   *)
(* end of a list can then be reached from each of its tasks.                *)
(***************************************************************************)
Listed(w) == {t \in Task : w[t] # temp_list}

Acyclic(l, w) ==
  \A T \in SUBSET Listed(w) : T # {} => \E t \in T : l.next[t] \notin T

\* A task that is moved next to a sentinel does not close a ring of tasks.
LEMMA MoveKeepsAcyclic ==
  ASSUME NEW l \in Heap, NEW w \in [Task -> Lists \cup {temp_list}],
         WellLinked(l, w), Acyclic(l, w), NEW n \in Task, Movable(l, w, n),
         NEW a \in InUse(w), n # a, l.next[a] # n,
         a \in Lists \/ l.next[a] \in Lists
  PROVE  Acyclic(move_task_after_node(l, n, a), [w EXCEPT ![n] = HomeIn(w, a)])
<1> DEFINE b == l.next[a]
           p == l.prev[n]
           q == l.next[n]
           v == [w EXCEPT ![n] = HomeIn(w, a)]
           m == move_task_to_list(l, n, a, b)
<1>1. /\ n \in Node /\ a \in Node /\ b \in Node /\ b # n
      /\ Task \subseteq Node
  BY Sentinels, UsedNodes DEF WellLinked, Linked
<1>2. \A x \in Node : m.next[x] = IF x = n THEN b
                                  ELSE IF x = a THEN n
                                  ELSE IF x = p THEN q
                                  ELSE l.next[x]
  <2> HIDE DEF b
  <2> QED BY <1>1, MovePointers DEF m
<1>3. move_task_after_node(l, n, a) = m
  BY DEF move_task_after_node
<1>4. /\ \A x \in Listed(w) : x # n => (l.next[x] = n <=> x = p)
      /\ p # n <=> q # n
      /\ p # n => n \in Listed(w)
  <2>1. Listed(w) \subseteq InUse(w)
    BY UsedNodes DEF Listed
  <2>2. n \in InUse(w) => n \in Listed(w)
    BY UsedNodes DEF Listed
  <2> QED BY <2>1, <2>2, Neighbours
<1>5. p # n => l.next[p] = n
  <2> SUFFICES ASSUME p # n PROVE l.next[p] = n
    OBVIOUS
  <2>1. n \in InUse(w)
    BY Neighbours
  <2> QED BY <2>1 DEF WellLinked, Linked
<1>6. Listed(v) \subseteq Listed(w) \cup {n}
  BY DEF Listed
<1> HIDE DEF m, p, q, v
<1>7. ASSUME NEW T \in SUBSET Listed(v), n \notin T, T # {}
      PROVE  \E t \in T : m.next[t] \notin T
  <2> SUFFICES ASSUME \A t \in T : m.next[t] \in T
               PROVE  FALSE
    OBVIOUS
  <2>0. T \subseteq Listed(w) /\ T \subseteq Node
    BY <1>1, <1>6, <1>7 DEF Listed
  <2>1. a \notin T
    BY <1>1, <1>2, <1>7
  <2>2. \A t \in T : t # p => l.next[t] \in T
    BY <1>2, <1>7, <2>0, <2>1
  <2>3. CASE p \notin T
    BY <2>0, <2>2, <2>3, <1>7 DEF Acyclic
  <2>4. CASE p \in T
    <3>1. q \in T /\ p # n
      BY <1>2, <1>7, <2>0, <2>1, <2>4
    <3>2. \A t \in T \cup {n} : l.next[t] \in T \cup {n}
      BY <3>1, <2>2, <1>5 DEF q
    <3>3. T \cup {n} \in SUBSET Listed(w) /\ T \cup {n} # {}
      BY <2>0, <3>1, <1>4
    <3> QED BY <3>2, <3>3 DEF Acyclic
  <2> QED BY <2>3, <2>4
<1>8. ASSUME NEW T \in SUBSET Listed(v), n \in T
      PROVE  \E t \in T : m.next[t] \notin T
  <2> SUFFICES ASSUME \A t \in T : m.next[t] \in T
               PROVE  FALSE
    OBVIOUS
  <2>1. b \in T
    BY <1>1, <1>2, <1>8
  <2>2. a \in Lists /\ a \notin T
    BY <2>1, Sentinels DEF Listed
  <2>3. \A t \in T \ {n} : m.next[t] # n
    <3> SUFFICES ASSUME NEW t \in T \ {n}, m.next[t] = n
                 PROVE  FALSE
      OBVIOUS
    <3>1. t \in Node /\ t # n /\ t # a /\ t \in Listed(w)
      BY <1>1, <1>6, <2>2 DEF Listed
    <3>2. CASE t = p
      <4>1. q = n
        BY <3>1, <3>2, <1>2
      <4> QED BY <4>1, <1>4, <3>1, <3>2
    <3>3. CASE t # p
      <4>1. l.next[t] = n
        BY <3>1, <3>3, <1>2
      <4> QED BY <4>1, <1>4, <3>1, <3>3
    <3> QED BY <3>2, <3>3
  <2>4. \A t \in T \ {n} : m.next[t] \in T \ {n}
    BY <2>3
  <2>5. b \in T \ {n}
    BY <2>1, <1>1
  <2>6. T \ {n} \in SUBSET Listed(v) /\ n \notin T \ {n} /\ T \ {n} # {}
    BY <2>5
  <2> QED BY <1>7, <2>4, <2>6
<1>9. Acyclic(m, v)
  BY <1>7, <1>8 DEF Acyclic
<1> QED
  BY <1>3, <1>9 DEF v

-----------------------------------------------------------------------------
(***************************************************************************)
(* A sound heap: rings through the sentinels, and nothing else.             *)
(***************************************************************************)
Sound(l, w) ==
  /\ l \in Heap
  /\ w \in [Task -> Lists \cup {temp_list}]
  /\ WellLinked(l, w)
  /\ Acyclic(l, w)

LEMMA MoveSound ==
  ASSUME NEW l, NEW w, Sound(l, w), NEW n \in Task, Movable(l, w, n),
         NEW a \in InUse(w),
         n # a, l.next[a] # n, a \in Lists \/ l.next[a] \in Lists
  PROVE  Sound(move_task_after_node(l, n, a), [w EXCEPT ![n] = HomeIn(w, a)])
<1>1. HomeIn(w, a) \in Lists \cup {temp_list}
  BY Sentinels DEF HomeIn, InUse, Sound
<1>2. [w EXCEPT ![n] = HomeIn(w, a)] \in [Task -> Lists \cup {temp_list}]
  BY <1>1 DEF Sound
<1>3. Acyclic(move_task_after_node(l, n, a), [w EXCEPT ![n] = HomeIn(w, a)])
  BY MoveKeepsAcyclic DEF Sound
<1>4. /\ move_task_after_node(l, n, a) \in Heap
      /\ WellLinked(move_task_after_node(l, n, a), [w EXCEPT ![n] = HomeIn(w, a)])
  BY MoveKeepsRings DEF Sound
<1> QED BY <1>2, <1>3, <1>4 DEF Sound

LEMMA InListMovable ==
  ASSUME NEW l, NEW w, NEW t \in Task, w[t] \in Lists
  PROVE  Movable(l, w, t) /\ t \in InUse(w) /\ {t} \in SUBSET Listed(w)
BY Sentinels, UsedNodes DEF Movable, Listed

\* A task that is not in list s can be put at the head of it.
LEMMA ToHeadSound ==
  ASSUME NEW l, NEW w, Sound(l, w), NEW n \in Task, Movable(l, w, n),
         NEW s \in Lists, w[n] # s
  PROVE  Sound(move_task_after_node(l, n, s), [w EXCEPT ![n] = s])
<1>1. s \in InUse(w) /\ s \notin Task /\ n # s
  BY Sentinels, UsedNodes
<1>2. HomeIn(w, s) = s /\ HomeIn(w, n) = w[n]
  BY <1>1 DEF HomeIn
<1>3. l.next[s] # n
  BY <1>1, <1>2 DEF Sound, WellLinked
<1> QED BY <1>1, <1>2, <1>3, MoveSound

\* A runnable task can be moved behind the last one, whoever that is.
LEMMA ToTailSound ==
  ASSUME NEW l, NEW w, Sound(l, w), NEW n \in Task,
         w[n] = run_queue, l.prev[run_queue] # n
  PROVE  Sound(move_task_after_node(l, n, l.prev[run_queue]), w)
<1> DEFINE a == l.prev[run_queue]
<1>1. /\ run_queue \in Lists /\ run_queue \in InUse(w) /\ run_queue \notin Task
      /\ run_queue # temp_list
  BY Sentinels, UsedNodes
<1>2. a \in InUse(w) /\ l.next[a] = run_queue
  BY <1>1 DEF Sound, WellLinked, Linked
<1>3. HomeIn(w, a) = run_queue
  BY <1>1, <1>2 DEF Sound, WellLinked, HomeIn
<1>4. [w EXCEPT ![n] = HomeIn(w, a)] = w
  BY <1>3 DEF Sound
<1>5. Movable(l, w, n)
  BY <1>1, UsedNodes DEF Movable
<1> HIDE DEF a
<1>6. Sound(move_task_after_node(l, n, a), [w EXCEPT ![n] = HomeIn(w, a)])
  BY <1>1, <1>2, <1>5, MoveSound DEF a
<1> QED BY <1>4, <1>6 DEF a

LEMMA MoveRunningToLastSound ==
  ASSUME NEW l, NEW w, Sound(l, w), NEW n \in Task, w[n] = run_queue
  PROVE  Sound(sched_move_running_to_last(l, n), w)
<1>1. CASE l.prev[run_queue] # n
  BY <1>1, ToTailSound DEF sched_move_running_to_last
<1>2. CASE l.prev[run_queue] = n
  BY <1>2 DEF sched_move_running_to_last
<1> QED BY <1>1, <1>2

(***************************************************************************)
(* sched_launch_to_current_head.  A list with a member has a head, because  *)
(* its members cannot form a ring without the sentinel; and when idle is    *)
(* launched, what is left of the run queue would be such a ring.            *)
(***************************************************************************)
LEMMA LaunchSound ==
  ASSUME NEW l, NEW w, Sound(l, w), NEW cur
  PROVE  Sound(LaunchList(l), w)
<1>1. CASE l.next[run_queue] = IdleTask /\ l.next[IdleTask] # run_queue
  <2>1. run_queue \in InUse(w) /\ IdleTask \in Task /\ run_queue \notin Task
    BY Sentinels, UsedNodes
  <2>2. w[IdleTask] = run_queue
    BY <1>1, <2>1 DEF Sound, WellLinked, HomeIn
  <2>3. l.prev[run_queue] # IdleTask
    BY <1>1, <2>1 DEF Sound, WellLinked, Linked
  <2> QED BY <1>1, <2>1, <2>2, <2>3, ToTailSound DEF LaunchList
<1>2. CASE ~(l.next[run_queue] = IdleTask /\ l.next[IdleTask] # run_queue)
  BY <1>2 DEF LaunchList
<1> QED BY <1>1, <1>2

\* The list of a task has somebody who follows the sentinel.
LEMMA HeadExists ==
  ASSUME NEW l, NEW w, Sound(l, w), NEW t \in Task, w[t] = run_queue
  PROVE  l.next[run_queue] \in Task /\ w[l.next[run_queue]] = run_queue
<1> DEFINE T == {u \in Task : w[u] = run_queue}
           h == l.next[run_queue]
<1>1. run_queue \in InUse(w) /\ run_queue \in Lists /\ run_queue \notin Task
  BY Sentinels, UsedNodes
<1>0. T \in SUBSET Listed(w) /\ T # {} /\ \A u \in T : u \in InUse(w)
  BY Sentinels, UsedNodes DEF Listed
<1>2. PICK u \in T : l.next[u] \notin T
  BY <1>0 DEF Sound, Acyclic
<1>3. u \in InUse(w) /\ l.next[u] \in InUse(w) /\ HomeIn(w, l.next[u]) = run_queue
  BY <1>0, <1>2 DEF Sound, WellLinked, Linked, HomeIn
<1>4. l.next[u] = run_queue
  BY <1>2, <1>3 DEF HomeIn
<1>5. h # run_queue
  BY <1>1, <1>2, <1>3, <1>4 DEF Sound, WellLinked, Linked
<1>6. h \in InUse(w) /\ HomeIn(w, h) = run_queue
  BY <1>1 DEF Sound, WellLinked, Linked, HomeIn
<1> QED BY <1>5, <1>6 DEF HomeIn

LEMMA LaunchedTask ==
  ASSUME NEW l, NEW w, Sound(l, w), NEW cur \in Task, w[InitTask] = run_queue
  PROVE  /\ LaunchTask(l, cur) \in Task
         /\ w[LaunchTask(l, cur)] = run_queue
         /\ LaunchTask(l, cur) = LaunchList(l).next[run_queue]
<1>1. Sound(LaunchList(l), w)
  BY LaunchSound
<1>2. InitTask \in Task /\ run_queue \notin Task
  BY Sentinels, UsedNodes
<1>3. /\ LaunchList(l).next[run_queue] \in Task
      /\ w[LaunchList(l).next[run_queue]] = run_queue
  BY <1>1, <1>2, HeadExists
<1>4. LaunchTask(l, cur) = LaunchList(l).next[run_queue]
  BY <1>2, <1>3 DEF LaunchTask
<1> QED BY <1>3, <1>4

\* The first node of a ring moves to its end: the second is first.
LEMMA SecondIsFirst ==
  ASSUME NEW l \in Heap, NEW n \in Node, NEW a \in Node, NEW b \in Node,
         n # a, n # b
  PROVE  a # b /\ l.prev[n] = b
           => move_task_to_list(l, n, a, b).next[b] = l.next[n]
<1> DEFINE m == move_task_to_list(l, n, a, b)
<1>1. \A x \in Node : m.next[x] = IF x = n THEN b
                                  ELSE IF x = a THEN n
                                  ELSE IF x = l.prev[n] THEN l.next[n]
                                  ELSE l.next[x]
  BY MovePointers
<1> HIDE DEF m
<1>2. a # b /\ l.prev[n] = b => m.next[b] = l.next[n]
  BY <1>1
<1> QED BY <1>2 DEF m

LEMMA IdleLaunchedAlone ==
  ASSUME NEW l, NEW w, Sound(l, w), NEW cur \in Task, w[InitTask] = run_queue,
         LaunchTask(l, cur) = IdleTask
  PROVE  \A t \in Task \ {IdleTask} : w[t] # run_queue
<1> DEFINE last == l.prev[run_queue]
           second == l.next[IdleTask]
           m == LaunchList(l)
<1>1. /\ run_queue \in InUse(w) /\ run_queue \in Node /\ run_queue \notin Task
      /\ run_queue # temp_list /\ IdleTask \in Task /\ IdleTask \in Node
      /\ HomeIn(w, run_queue) = run_queue /\ InUse(w) \subseteq Node
  BY Sentinels, UsedNodes
<1>5. l.next[run_queue] = IdleTask => IdleTask \in InUse(w) /\ w[IdleTask] = run_queue
  <2>1. l.next[run_queue] \in InUse(w) /\ HomeIn(w, l.next[run_queue]) = run_queue
    BY <1>1 DEF Sound, WellLinked, Linked
  <2> QED BY <2>1, <1>1 DEF HomeIn
<1>2. m.next[run_queue] = IdleTask
  BY LaunchedTask
<1>3. CASE l.next[run_queue] = IdleTask /\ second # run_queue
  <2>1. /\ last \in InUse(w) /\ last # IdleTask /\ last # run_queue
        /\ l.next[last] = run_queue
        /\ l.prev[IdleTask] = run_queue
    BY <1>1, <1>3, <1>5 DEF Sound, WellLinked, Linked
  <2>2. second # IdleTask
    <3>1. {IdleTask} \in SUBSET Listed(w) /\ {IdleTask} # {}
      BY <1>1, <1>3, <1>5 DEF Listed
    <3>2. PICK t \in {IdleTask} : l.next[t] \notin {IdleTask}
      BY <3>1 DEF Sound, Acyclic
    <3> QED BY <3>2
  <2>3. m = move_task_to_list(l, IdleTask, last, run_queue)
    BY <1>3, <2>1 DEF LaunchList, move_task_after_node
  <2>4. last \in Node /\ IdleTask # run_queue /\ l \in Heap
    BY <1>1, <2>1, Sentinels DEF Sound
  <2> HIDE DEF m, last, second
  <2>5. m.next[run_queue] = l.next[IdleTask]
    <3>1. /\ l \in Heap /\ IdleTask \in Node /\ last \in Node /\ run_queue \in Node
          /\ IdleTask # last /\ IdleTask # run_queue /\ last # run_queue
          /\ l.prev[IdleTask] = run_queue
      BY <1>1, <2>1, <2>4
    <3>2. move_task_to_list(l, IdleTask, last, run_queue).next[run_queue]
            = l.next[IdleTask]
      BY <3>1, SecondIsFirst
    <3> QED BY <2>3, <3>2
  <2> QED BY <1>2, <2>2, <2>5 DEF second
<1>4. CASE ~(l.next[run_queue] = IdleTask /\ second # run_queue)
  <2>1. l.next[run_queue] = IdleTask /\ l.next[IdleTask] = run_queue
    BY <1>2, <1>4 DEF LaunchList
  <2>2. l.prev[run_queue] = IdleTask /\ l.prev[IdleTask] = run_queue
    BY <1>1, <2>1 DEF Sound, WellLinked, Linked
  <2> DEFINE T == {t \in Task \ {IdleTask} : w[t] = run_queue}
  <2> SUFFICES ASSUME T # {} PROVE FALSE
    OBVIOUS
  <2>6. T \in SUBSET Listed(w) /\ \A t \in T : t \in InUse(w)
    BY <1>1, UsedNodes DEF Listed
  <2>3. PICK u \in T : l.next[u] \notin T
    BY <2>6 DEF Sound, Acyclic
  <2>4. /\ u \in InUse(w) /\ u # IdleTask /\ u # run_queue
        /\ l.next[u] \in InUse(w) /\ l.prev[l.next[u]] = u
        /\ HomeIn(w, l.next[u]) = run_queue
    BY <1>1, <2>3, <2>6 DEF Sound, WellLinked, Linked, HomeIn
  <2>5. l.next[u] \in {run_queue, IdleTask}
    BY <2>3, <2>4 DEF HomeIn
  <2> QED BY <2>2, <2>4, <2>5
<1> QED BY <1>3, <1>4

-----------------------------------------------------------------------------
(***************************************************************************)
(* Walks.  A sound heap is walked the way task_list_for_each does: every    *)
(* list comes back to its sentinel, after it has met all its members.       *)
(***************************************************************************)
LEMMA LeastNat ==
  ASSUME NEW S \in SUBSET Nat, S # {}
  PROVE  \E i \in S : \A j \in S : i <= j
<1>1. IsWellFoundedOn({p \in Nat \X Nat : p[1] < p[2]}, Nat)
  BY NatLessThanWellFounded DEF OpToRel
<1>2. PICK i \in S : \A j \in S : <<j, i>> \notin {p \in Nat \X Nat : p[1] < p[2]}
  BY <1>1, WFMin
<1>3. \A j \in S : ~(j < i)
  BY <1>2
<1> QED BY <1>3

\* The walk that NthNext defines exists, and there is only one.
IsWalk(g, l, s, k) == g = [i \in 0..k |-> IF i = 0 THEN s ELSE l.next[g[i - 1]]]

LEMMA WalkExists ==
  ASSUME NEW l, NEW s, NEW k \in Nat
  PROVE  \E g : IsWalk(g, l, s, k)
<1> DEFINE Bad == {j \in Nat : ~\E g : IsWalk(g, l, s, j)}
<1> SUFFICES ASSUME Bad # {} PROVE FALSE
  OBVIOUS
<1>1. PICK j \in Bad : \A i \in Bad : j <= i
  BY LeastNat
<1>2. j # 0
  <2>1. IsWalk([i \in 0..0 |-> s], l, s, 0)
    BY DEF IsWalk
  <2> QED BY <2>1
<1>3. j - 1 \in Nat /\ j - 1 \notin Bad
  BY <1>1, <1>2
<1>4. PICK g : IsWalk(g, l, s, j - 1)
  BY <1>3
<1> DEFINE h == [i \in 0..j |-> IF i = j THEN l.next[g[j - 1]] ELSE g[i]]
<1>5. ASSUME NEW i \in 0..j
      PROVE  h[i] = IF i = 0 THEN s ELSE l.next[h[i - 1]]
  <2>1. j \in Nat
    BY <1>1
  <2>2. CASE i = j
    BY <2>1, <2>2, <1>2
  <2>3. CASE i # j
    <3>1. i \in 0..(j - 1) /\ h[i] = g[i]
      BY <2>1, <2>3
    <3>2. g[i] = IF i = 0 THEN s ELSE l.next[g[i - 1]]
      BY <3>1, <1>4 DEF IsWalk
    <3>3. i # 0 => i - 1 \in 0..j /\ i - 1 # j
      BY <2>1, <2>3
    <3> QED BY <3>1, <3>2, <3>3
  <2> QED BY <2>2, <2>3
<1>6. IsWalk(h, l, s, j)
  <2>1. h = [i \in 0..j |-> h[i]]
    OBVIOUS
  <2> HIDE DEF h
  <2> QED BY <2>1, <1>5 DEF IsWalk
<1> HIDE DEF h
<1> QED BY <1>1, <1>6

LEMMA WalkUnique ==
  ASSUME NEW l, NEW s, NEW k \in Nat, NEW m \in Nat, NEW g, NEW h,
         IsWalk(g, l, s, k), IsWalk(h, l, s, m)
  PROVE  \A i \in Nat : i <= k /\ i <= m => g[i] = h[i]
<1> DEFINE Bad == {i \in Nat : i <= k /\ i <= m /\ g[i] # h[i]}
<1> SUFFICES ASSUME Bad # {} PROVE FALSE
  OBVIOUS
<1>1. PICK i \in Bad : \A j \in Bad : i <= j
  BY LeastNat
<1>2. /\ g[i] = IF i = 0 THEN s ELSE l.next[g[i - 1]]
      /\ h[i] = IF i = 0 THEN s ELSE l.next[h[i - 1]]
  BY <1>1 DEF IsWalk
<1>3. i # 0
  BY <1>1, <1>2
<1>4. i - 1 \in Nat /\ i - 1 \notin Bad /\ i - 1 <= k /\ i - 1 <= m
  BY <1>1, <1>3
<1>5. g[i - 1] = h[i - 1]
  BY <1>4
<1> QED BY <1>1, <1>2, <1>3, <1>5

LEMMA NthNextStep ==
  ASSUME NEW l, NEW s
  PROVE  /\ NthNext(l, s, 0) = s
         /\ \A k \in Nat : NthNext(l, s, k + 1) = l.next[NthNext(l, s, k)]
<1> DEFINE W(k) == CHOOSE g : IsWalk(g, l, s, k)
<1>1. ASSUME NEW k \in Nat PROVE IsWalk(W(k), l, s, k)
  BY WalkExists
<1>2. ASSUME NEW k \in Nat PROVE NthNext(l, s, k) = W(k)[k]
  BY DEF NthNext, IsWalk
<1>3. NthNext(l, s, 0) = s
  <2> HIDE DEF W
  <2>1. W(0)[0] = s
    BY <1>1 DEF IsWalk
  <2> QED BY <2>1, <1>2
<1>4. ASSUME NEW k \in Nat
      PROVE  NthNext(l, s, k + 1) = l.next[NthNext(l, s, k)]
  <2>1. k + 1 \in Nat /\ k + 1 \in 0..(k + 1) /\ k + 1 # 0 /\ (k + 1) - 1 = k
    OBVIOUS
  <2>2. IsWalk(W(k + 1), l, s, k + 1) /\ IsWalk(W(k), l, s, k)
    BY <1>1, <2>1
  <2> HIDE DEF W
  <2>3. W(k + 1)[k + 1] = l.next[W(k + 1)[k]]
    BY <2>1, <2>2 DEF IsWalk
  <2>4. W(k + 1)[k] = W(k)[k]
    BY <2>1, <2>2, WalkUnique
  <2> QED BY <2>1, <2>3, <2>4, <1>2
<1> QED BY <1>3, <1>4

\* A walk from a sentinel meets the sentinel and members of its list only.
LEMMA WalkStaysInList ==
  ASSUME NEW l, NEW w, Sound(l, w), NEW s \in Lists, NEW k \in Nat
  PROVE  /\ NthNext(l, s, k) \in InUse(w)
         /\ NthNext(l, s, k) = s \/ (NthNext(l, s, k) \in Task /\ w[NthNext(l, s, k)] = s)
         /\ l.prev[NthNext(l, s, k + 1)] = NthNext(l, s, k)
<1> DEFINE Bad == {j \in Nat : ~(/\ NthNext(l, s, j) \in InUse(w)
                                 /\ HomeIn(w, NthNext(l, s, j)) = s)}
<1>1. Bad = {}
  <2> SUFFICES ASSUME Bad # {} PROVE FALSE
    OBVIOUS
  <2>1. PICK j \in Bad : \A i \in Bad : j <= i
    BY LeastNat
  <2>2. j # 0
    BY NthNextStep, UsedNodes
  <2>3. j - 1 \in Nat /\ j - 1 \notin Bad /\ (j - 1) + 1 = j
    BY <2>1, <2>2
  <2>4. NthNext(l, s, j) = l.next[NthNext(l, s, j - 1)]
    BY <2>3, NthNextStep
  <2>5. /\ NthNext(l, s, j - 1) \in InUse(w)
        /\ HomeIn(w, NthNext(l, s, j - 1)) = s
    BY <2>3
  <2>6. /\ l.next[NthNext(l, s, j - 1)] \in InUse(w)
        /\ HomeIn(w, l.next[NthNext(l, s, j - 1)]) = s
    BY <2>5 DEF Sound, WellLinked, Linked
  <2> QED BY <2>1, <2>4, <2>6
<1>2. NthNext(l, s, k) \in InUse(w) /\ HomeIn(w, NthNext(l, s, k)) = s
  BY <1>1
<1>3. l.prev[l.next[NthNext(l, s, k)]] = NthNext(l, s, k)
  BY <1>2 DEF Sound, WellLinked, Linked
<1> QED BY <1>2, <1>3, NthNextStep DEF HomeIn

(***************************************************************************)
(* A walk that did not come back would meet more tasks than there are, so   *)
(* it would meet one twice, and, going back from there, the sentinel.       *)
(***************************************************************************)
LEMMA WalkCloses ==
  ASSUME NEW l, NEW w, Sound(l, w), NEW s \in Lists
  PROVE  Closes(l, s, NodeBound)
<1> DEFINE N == TASK_MAX_COUNT
           F(k) == NthNext(l, s, k)
<1>0. N \in Nat /\ NodeBound = N + 1 /\ N + 1 \in Nat
  BY SlotsAssumption DEF NodeBound
<1> SUFFICES ASSUME \A k \in 1..(N + 1) : F(k) # s PROVE FALSE
  BY <1>0 DEF Closes
<1>1. F(0) = s /\ \A k \in Nat : F(k) = s \/ F(k) \in Task
  BY NthNextStep, WalkStaysInList
<1>2. \A k \in Nat : l.prev[F(k + 1)] = F(k)
  BY WalkStaysInList
<1> HIDE DEF F
<1> DEFINE f == [k \in 1..(N + 1) |-> F(k)]
<1>3. f \in [1..(N + 1) -> Task]
  BY <1>0, <1>1
<1>4. PICK x \in 1..(N + 1), y \in 1..(N + 1) : x # y /\ f[x] = f[y]
  <2>1. IsFiniteSet(1..(N + 1)) /\ Cardinality(1..(N + 1)) = N + 1
    BY <1>0, FS_Interval
  <2>2. IsFiniteSet(Task) /\ Cardinality(Task) = N
    <3>1. /\ IsFiniteSet(0..(N - 1))
          /\ Cardinality(0..(N - 1)) = IF 0 > N - 1 THEN 0 ELSE (N - 1) - 0 + 1
      BY <1>0, FS_Interval
    <3> QED BY <3>1, <1>0, SlotsAssumption DEF Task
  <2>3. Cardinality(Task) < Cardinality(1..(N + 1))
    BY <1>0, <2>1, <2>2
  <2> DEFINE K == 1..(N + 1)
  <2>4. f \in [K -> Task] /\ IsFiniteSet(K) /\ Cardinality(Task) < Cardinality(K)
    BY <1>3, <2>1, <2>3
  <2> HIDE DEF f, K
  <2>5. \E x, y \in K : x # y /\ f[x] = f[y]
    BY <2>2, <2>4, FS_PigeonHole
  <2> QED BY <2>5 DEF K
<1> DEFINE Twice == {i \in Nat : \E j \in 1..(N + 1) : i < j /\ F(i) = F(j)}
<1>5. Twice # {}
  <2>1. x \in Nat /\ y \in Nat /\ F(x) = F(y) /\ (x < y \/ y < x)
    BY <1>0, <1>4
  <2> QED BY <2>1
<1>6. PICK i \in Twice : \A j \in Twice : i <= j
  BY <1>5, LeastNat
<1>7. PICK j \in 1..(N + 1) : i < j /\ F(i) = F(j)
  BY <1>6
<1>8. i # 0
  BY <1>1, <1>7
<1>9. /\ i - 1 \in Nat /\ j - 1 \in 1..(N + 1) /\ i - 1 < j - 1 /\ j - 1 \in Nat
      /\ (i - 1) + 1 = i /\ (j - 1) + 1 = j
  BY <1>0, <1>6, <1>7, <1>8
<1>10. F(i - 1) = F(j - 1)
  BY <1>2, <1>7, <1>9
<1> QED BY <1>6, <1>9, <1>10

\* The length of a list is that of its ring, without the sentinel.
LEMMA RingLength ==
  ASSUME NEW l, NEW w, Sound(l, w), NEW s \in Lists
  PROVE  \E b \in 1..NodeBound :
           /\ ListLen(l, s, NodeBound) = b - 1
           /\ NthNext(l, s, b) = s
           /\ \A j \in 1..(b - 1) : NthNext(l, s, j) # s
<1> DEFINE F(k) == NthNext(l, s, k)
           Back(k) == F(k) = s /\ \A j \in 1..(k - 1) : F(j) # s
           b == CHOOSE k \in 1..NodeBound : Back(k)
<1>0. NodeBound \in Nat
  BY SlotsAssumption DEF NodeBound
<1>1. \E k \in 1..NodeBound : Back(k)
  <2>1. PICK k \in {i \in Nat : i \in 1..NodeBound /\ F(i) = s} :
           \A j \in {i \in Nat : i \in 1..NodeBound /\ F(i) = s} : k <= j
    <3>1. {i \in Nat : i \in 1..NodeBound /\ F(i) = s} # {}
      BY <1>0, WalkCloses DEF Closes
    <3> QED BY <3>1, LeastNat
  <2>2. \A j \in 1..(k - 1) : F(j) # s
    BY <1>0, <2>1
  <2> QED BY <2>1, <2>2
<1>2. b \in 1..NodeBound /\ Back(b)
  BY <1>1
<1>3. ListLen(l, s, NodeBound) = b - 1
  BY DEF ListLen
<1> QED BY <1>2, <1>3

LEMMA SoundComplete ==
  ASSUME NEW l, NEW w, Sound(l, w), NEW s \in Lists
  PROVE  Closes(l, s, NodeBound) /\ ElemsOf(l, s) = {t \in Task : w[t] = s}
<1> DEFINE F(k) == NthNext(l, s, k)
           T == {t \in Task : w[t] = s}
<1>0. NodeBound \in Nat /\ s \notin Task
  BY SlotsAssumption, Sentinels DEF NodeBound
<1>1. Closes(l, s, NodeBound)
  BY WalkCloses
<1>2. PICK B \in 1..NodeBound :
        /\ ListLen(l, s, NodeBound) = B - 1
        /\ F(B) = s /\ \A j \in 1..(B - 1) : F(j) # s
  BY RingLength
<1> DEFINE E == {F(k) : k \in 1..(B - 1)}
<1>3. B \in 1..NodeBound /\ F(B) = s /\ \A j \in 1..(B - 1) : F(j) # s
  BY <1>2
<1>4. ElemsOf(l, s) = E
  BY <1>2 DEF ElemsOf, ListElems
<1>5. /\ F(0) = s
      /\ \A k \in Nat : /\ F(k) = s \/ (F(k) \in Task /\ w[F(k)] = s)
                        /\ l.prev[F(k + 1)] = F(k)
  BY NthNextStep, WalkStaysInList
<1> HIDE DEF F
<1>6. E \subseteq T
  BY <1>0, <1>3, <1>5
<1>7. T \subseteq E
  <2> DEFINE U == T \ E
  <2> SUFFICES ASSUME U # {} PROVE FALSE
    OBVIOUS
  <2>1. U \in SUBSET Listed(w) /\ \A t \in U : t \in InUse(w) /\ HomeIn(w, t) = s
    BY Sentinels, UsedNodes DEF Listed
  <2>2. PICK t \in U : l.next[t] \notin U
    BY <2>1 DEF Sound, Acyclic
  <2>3. l.next[t] \in InUse(w) /\ HomeIn(w, l.next[t]) = s /\ l.prev[l.next[t]] = t
    BY <2>1, <2>2 DEF Sound, WellLinked, Linked
  <2>4. PICK k \in 1..B : l.next[t] = F(k)
    <3>1. CASE l.next[t] = s
      BY <3>1, <1>0, <1>3
    <3>2. CASE l.next[t] # s
      <4>1. l.next[t] \in T /\ l.next[t] \in E
        BY <2>2, <2>3, <3>2 DEF HomeIn
      <4> QED BY <4>1, <1>0, <1>3
    <3> QED BY <3>1, <3>2
  <2>5. k - 1 \in Nat /\ (k - 1) + 1 = k
    BY <1>0, <1>3
  <2>6. t = F(k - 1)
    BY <2>3, <2>4, <2>5, <1>5
  <2>7. k - 1 # 0
    BY <2>2, <2>6, <1>0, <1>5
  <2>8. k - 1 \in 1..(B - 1)
    BY <2>4, <2>5, <2>7, <1>0, <1>3
  <2> QED BY <2>2, <2>6, <2>8
<1> QED BY <1>1, <1>4, <1>6, <1>7

-----------------------------------------------------------------------------
(***************************************************************************)
(* The inductive invariant.  ListsLinked alone is not inductive: from a     *)
(* ring of tasks without a sentinel, or an empty run queue, the launch      *)
(* could give the CPU to a task that is asleep.  QueueInv is the part that  *)
(* also holds of a kernel in which tasks come and go (Kernel.tla).          *)
(***************************************************************************)
QueueInv ==
  /\ Sound(list, where)
  /\ running \in Task
  /\ remain \in [Task -> 0..SCHED_TASK_TICKS]
  /\ cursor \in Node \cup {NoNode}
  /\ woken \in BOOLEAN
  /\ where[running] = run_queue
  /\ where[InitTask] = run_queue
  /\ HandlerStaysInList

SchedInv == QueueInv /\ where \in [Task -> Lists]

\* The list of BootList: k, ... 1, 0 before the sentinel, the other slots free.
LEMMA BootSound ==
  ASSUME NEW k \in Task
  PROVE  Sound(BootList(k), [t \in Task |-> IF t <= k THEN run_queue ELSE temp_list])
<1> DEFINE l == BootList(k)
           w == [t \in Task |-> IF t <= k THEN run_queue ELSE temp_list]
           N == TASK_MAX_COUNT
<1>1. /\ N \in Nat /\ k \in Nat /\ k < N
      /\ run_queue = N /\ wait4child_list = N + 1 /\ rtc_wait_list = N + 2
      /\ terminal_wait_list = N + 3 /\ temp_list = N + 4
  BY SlotsAssumption DEF Task, run_queue, wait4child_list, rtc_wait_list,
                         terminal_wait_list, temp_list
<1>2. \A n : n \in Task <=> n \in Nat /\ n < N
  BY SlotsAssumption DEF Task
<1>3. \A n : n \in Node <=> n \in Nat /\ n <= N + 4
  BY <1>1, <1>2 DEF Lists, WaitLists, Node
<1>4. \A n \in Node :
         /\ l.next[n] = IF n = N THEN k
                        ELSE IF n = 0 THEN N
                        ELSE IF n <= k THEN n - 1 ELSE n
         /\ l.prev[n] = IF n = N THEN 0
                        ELSE IF n = k THEN N
                        ELSE IF n < k THEN n + 1 ELSE n
  BY <1>1, <1>3 DEF BootList
<1>5. l \in Heap
  <2>1. /\ l = [next |-> l.next, prev |-> l.prev]
        /\ l.next = [n \in Node |-> l.next[n]]
        /\ l.prev = [n \in Node |-> l.prev[n]]
    BY DEF BootList
  <2> HIDE DEF l
  <2>2. \A n \in Node : l.next[n] \in Node /\ l.prev[n] \in Node
    BY <1>1, <1>3, <1>4
  <2> QED BY <2>1, <2>2 DEF Heap
<1> HIDE DEF l
<1>6. w \in [Task -> Lists \cup {temp_list}]
  BY DEF Lists
<1>7. \A y : HomeIn(w, y) = IF y \in Task THEN IF y <= k THEN N ELSE N + 4 ELSE y
  BY <1>1 DEF HomeIn
<1> HIDE DEF w
<1>8. \A n : n \in InUse(w) <=> n \in Nat /\ (n <= k \/ (N <= n /\ n <= N + 3))
  BY <1>1, <1>2, <1>3, <1>7 DEF InUse
<1> HIDE DEF N
<1>9. Linked(l, InUse(w))
  <2> SUFFICES ASSUME NEW n \in InUse(w)
               PROVE  /\ l.next[n] \in InUse(w) /\ l.prev[l.next[n]] = n
                      /\ l.prev[n] \in InUse(w) /\ l.next[l.prev[n]] = n
    BY DEF Linked
  <2>1. n \in Nat /\ (n <= k \/ (N <= n /\ n <= N + 3)) /\ n \in Node
    BY <1>1, <1>3, <1>8
  <2>2. l.next[n] \in InUse(w) /\ l.next[n] \in Node
    BY <1>1, <1>3, <1>4, <1>8, <2>1
  <2>3. l.prev[n] \in InUse(w) /\ l.prev[n] \in Node
    BY <1>1, <1>3, <1>4, <1>8, <2>1
  <2>4. l.prev[l.next[n]] = n
    <3>1. CASE n = N \/ n = 0 BY <3>1, <1>1, <1>4, <2>1, <2>2
    <3>2. CASE n # N /\ n # 0 /\ n <= k
      <4>1. l.next[n] = n - 1 /\ n - 1 # N /\ n - 1 < k /\ n - 1 # k
        BY <3>2, <1>1, <1>4, <2>1
      <4>2. l.prev[n - 1] = (n - 1) + 1
        BY <1>4, <2>2, <4>1
      <4> QED BY <4>1, <4>2, <2>1
    <3>3. CASE n # N /\ n # 0 /\ ~(n <= k)
      BY <3>3, <1>1, <1>4, <2>1
    <3> QED BY <3>1, <3>2, <3>3
  <2>5. l.next[l.prev[n]] = n
    <3>1. CASE n = N \/ n = k BY <3>1, <1>1, <1>4, <2>1, <2>3
    <3>2. CASE n # N /\ n # k /\ n < k
      <4>1. l.prev[n] = n + 1 /\ n + 1 # N /\ n + 1 # 0 /\ n + 1 <= k
        BY <3>2, <1>1, <1>4, <2>1
      <4>2. l.next[n + 1] = (n + 1) - 1
        BY <1>4, <2>3, <4>1
      <4> QED BY <4>1, <4>2, <2>1
    <3>3. CASE n # N /\ n # k /\ ~(n < k)
      BY <3>3, <1>1, <1>4, <2>1
    <3> QED BY <3>1, <3>2, <3>3
  <2> QED BY <2>2, <2>3, <2>4, <2>5
<1>10. \A x \in InUse(w) : HomeIn(w, l.next[x]) = HomeIn(w, x)
  <2> SUFFICES ASSUME NEW x \in InUse(w)
               PROVE  HomeIn(w, l.next[x]) = HomeIn(w, x)
    OBVIOUS
  <2>1. x \in Nat /\ (x <= k \/ (N <= x /\ x <= N + 3)) /\ x \in Node
    BY <1>1, <1>3, <1>8
  <2>2. IF x <= k \/ x = N THEN l.next[x] \in Nat /\ (l.next[x] <= k \/ l.next[x] = N)
                           ELSE l.next[x] = x
    BY <1>1, <1>4, <2>1
  <2> QED BY <1>1, <1>2, <1>7, <2>1, <2>2 DEF N
<1>11. Acyclic(l, w)
  <2> SUFFICES ASSUME NEW T \in SUBSET Listed(w), T # {},
                      \A t \in T : l.next[t] \in T
               PROVE  FALSE
    BY DEF Acyclic
  <2>0. \A t \in T : t \in Nat /\ t <= k
    <3>1. \A t \in Task : w[t] # temp_list => t \in InUse(w)
      BY UsedNodes
    <3> QED BY <1>1, <1>2, <1>8, <3>1 DEF Listed, N
  <2>1. PICK t \in T : \A u \in T : ~(u < t)
    <3>1. T \in SUBSET Nat
      BY <2>0
    <3>2. PICK t \in T : \A u \in T : t <= u
      BY <3>1, LeastNat
    <3> QED BY <3>1, <3>2
  <2>2. t \in Nat /\ t <= k /\ t \in Node /\ l.next[t] \in T
    BY <1>1, <1>3, <2>0
  <2>3. t # 0
    BY <1>1, <1>4, <2>0, <2>2
  <2>4. t - 1 \in T /\ t - 1 < t
    BY <1>1, <1>4, <2>2, <2>3
  <2> QED BY <2>1, <2>4
<1> QED BY <1>5, <1>6, <1>9, <1>10, <1>11 DEF Sound, WellLinked, l, w

LEMMA InitSound == SchedInit => SchedInv
<1> SUFFICES ASSUME SchedInit PROVE SchedInv
  OBVIOUS
<1>1. /\ TASK_MAX_COUNT - 1 \in Task /\ InitTask \in Task
      /\ 0 \in 0..SCHED_TASK_TICKS /\ SCHED_TASK_TICKS \in 0..SCHED_TASK_TICKS
  BY SlotsAssumption, SliceAssumption DEF Task, InitTask
<1>2. Sound(list, where)
  <2>1. where = [t \in Task |-> IF t <= TASK_MAX_COUNT - 1 THEN run_queue
                                                          ELSE temp_list]
    BY SlotsAssumption DEF SchedInit, Task
  <2> QED BY <1>1, <2>1, BootSound DEF SchedInit
<1>3. run_queue \in Lists
  BY Sentinels
<1> QED BY <1>1, <1>2, <1>3 DEF SchedInit, SchedInv, QueueInv, HandlerStaysInList

-----------------------------------------------------------------------------
(***************************************************************************)
(* The steps.  All launches are alike: the heap they are given is sound,    *)
(* so is the heap they leave, and the task they pick is runnable.           *)
(***************************************************************************)
LEMMA LaunchStep ==
  ASSUME running \in Task, NEW l, NEW w, Sound(l, w), w[InitTask] = run_queue,
         sched_launch_to_current_head(l)
  PROVE  /\ Sound(list', w)
         /\ running' \in Task /\ w[running'] = run_queue
         /\ running' = IdleTask => \A t \in Task \ {IdleTask} : w[t] # run_queue
<1>1. list' = LaunchList(l) /\ running' = LaunchTask(l, running)
  BY DEF sched_launch_to_current_head
<1> QED BY <1>1, LaunchSound, LaunchedTask, IdleLaunchedAlone

LEMMA RefillType ==
  ASSUME NEW r \in [Task -> 0..SCHED_TASK_TICKS], NEW t \in Task
  PROVE  sched_refill_time(r, t) \in [Task -> 0..SCHED_TASK_TICKS]
<1>1. SCHED_TASK_TICKS \in 0..SCHED_TASK_TICKS
  BY SliceAssumption
<1> QED BY <1>1 DEF sched_refill_time

\* What a step of the scheduler may do: keep the invariant, and give the CPU to
\* idle only when nobody else can run.
GoodStep ==
  /\ QueueInv'
  /\ running' = IdleTask /\ running # IdleTask
       => \A t \in Task \ {IdleTask} : where'[t] # run_queue

LEMMA PitStep == QueueInv /\ sched_pit_interrupt_handler => GoodStep
<1> SUFFICES ASSUME QueueInv, sched_pit_interrupt_handler PROVE GoodStep
  OBVIOUS
<1> USE DEF QueueInv
<1>1. UNCHANGED <<where, cursor, woken>> /\ HandlerStaysInList'
  BY DEF sched_pit_interrupt_handler, handlerVars, HandlerStaysInList
<1>2. CASE PitExpires
  <2>1. Sound(sched_move_running_to_last(list, running), where)
    BY MoveRunningToLastSound
  <2>2. /\ Sound(list', where)
        /\ running' \in Task /\ where[running'] = run_queue
        /\ running' = IdleTask
             => \A t \in Task \ {IdleTask} : where[t] # run_queue
    BY <1>2, <2>1, LaunchStep DEF PitExpires
  <2>3. remain' \in [Task -> 0..SCHED_TASK_TICKS]
    BY <1>2, RefillType DEF PitExpires
  <2> QED BY <1>1, <2>2, <2>3 DEF GoodStep
<1>3. CASE PitTicks
  <2>1. remain' \in [Task -> 0..SCHED_TASK_TICKS]
    <3>1. remain[running] \in 0..SCHED_TASK_TICKS /\ remain[running] > 1
      BY <1>3 DEF PitTicks
    <3>2. remain[running] - 1 \in 0..SCHED_TASK_TICKS
      BY <3>1, SliceAssumption
    <3>3. remain' = [remain EXCEPT ![running] = remain[running] - 1]
      BY <1>3 DEF PitTicks
    <3> QED BY <3>2, <3>3
  <2>2. UNCHANGED <<list, running>>
    BY <1>3 DEF PitTicks
  <2> QED BY <1>1, <2>1, <2>2 DEF GoodStep
<1> QED BY <1>2, <1>3 DEF sched_pit_interrupt_handler

LEMMA YieldStep == QueueInv /\ sched_yield => GoodStep
<1> SUFFICES ASSUME QueueInv, sched_yield PROVE GoodStep
  OBVIOUS
<1> USE DEF QueueInv
<1>1. UNCHANGED <<where, cursor, woken>> /\ HandlerStaysInList'
  BY DEF sched_yield, handlerVars, HandlerStaysInList
<1>2. Sound(sched_move_running_to_last(list, running), where)
  BY MoveRunningToLastSound
<1>3. /\ Sound(list', where)
      /\ running' \in Task /\ where[running'] = run_queue
      /\ running' = IdleTask
           => \A t \in Task \ {IdleTask} : where[t] # run_queue
  BY <1>2, LaunchStep DEF sched_yield
<1>4. remain' \in [Task -> 0..SCHED_TASK_TICKS]
  BY RefillType DEF sched_yield
<1> QED BY <1>1, <1>3, <1>4 DEF GoodStep

\* The running task goes to sleep in the wait list w.
LEMMA SleepStep ==
  ASSUME QueueInv, NEW w \in WaitLists, running # InitTask, Interruptible,
         where' = [where EXCEPT ![running] = w],
         UNCHANGED <<remain, handlerVars>>,
         sched_launch_to_current_head(move_task_after_node(list, running, w))
  PROVE  GoodStep
<1> USE DEF QueueInv
<1>1. UNCHANGED <<remain, cursor, woken>> /\ cursor = NoNode
  BY DEF handlerVars, Interruptible
<1>2. w \in Lists /\ w # run_queue
  BY SlotsAssumption DEF WaitLists, Lists, run_queue, wait4child_list,
                         rtc_wait_list, terminal_wait_list
<1>3. Sound(move_task_after_node(list, running, w), where')
  <2>1. where[running] \in Lists /\ where[running] # w
    BY <1>2, Sentinels
  <2> QED BY <1>2, <2>1, InListMovable, ToHeadSound
<1>4. where'[InitTask] = run_queue
  BY <1>2, Sentinels DEF Sound
<1>5. /\ Sound(list', where')
      /\ running' \in Task /\ where'[running'] = run_queue
      /\ running' = IdleTask
           => \A t \in Task \ {IdleTask} : where'[t] # run_queue
  BY <1>3, <1>4, LaunchStep
<1> QED BY <1>1, <1>4, <1>5 DEF GoodStep, HandlerStaysInList

\* The sleeper t is put at the head of the run queue and launched.
LEMMA WakeStep ==
  ASSUME QueueInv, NEW t \in Task, where[t] \in WaitLists, Interruptible,
         where' = [where EXCEPT ![t] = run_queue],
         remain' = sched_refill_time(remain, t), UNCHANGED handlerVars,
         sched_launch_to_current_head(sched_insert_to_head(list, t))
  PROVE  GoodStep
<1> USE DEF QueueInv
<1>1. UNCHANGED <<cursor, woken>> /\ cursor = NoNode
  BY DEF handlerVars, Interruptible
<1>2. run_queue \in Lists /\ where[t] # run_queue /\ where[t] \in Lists
  BY SlotsAssumption DEF WaitLists, Lists, run_queue, wait4child_list,
                         rtc_wait_list, terminal_wait_list
<1>3. Sound(sched_insert_to_head(list, t), where')
  BY <1>2, InListMovable, ToHeadSound DEF sched_insert_to_head
<1>4. where'[InitTask] = run_queue
  BY Sentinels DEF Sound
<1>5. /\ Sound(list', where')
      /\ running' \in Task /\ where'[running'] = run_queue
      /\ running' = IdleTask
           => \A u \in Task \ {IdleTask} : where'[u] # run_queue
  BY <1>3, <1>4, LaunchStep
<1>6. remain' \in [Task -> 0..SCHED_TASK_TICKS]
  BY RefillType
<1> QED BY <1>1, <1>4, <1>5, <1>6 DEF GoodStep, HandlerStaysInList

\* The neighbour that follows a member of the RTC list is in the list as well.
LEMMA NextWaiter ==
  ASSUME QueueInv, NEW x \in {rtc_wait_list} \cup Task,
         HomeIn(where, x) = rtc_wait_list, list.next[x] # x
  PROVE  /\ list.next[x] \in Node
         /\ \/ list.next[x] = rtc_wait_list
            \/ list.next[x] \in Task /\ where[list.next[x]] = rtc_wait_list
<1>1. x \in InUse(where)
  BY Sentinels, UsedNodes
<1>2. list.next[x] \in InUse(where) /\ HomeIn(where, list.next[x]) = rtc_wait_list
  BY <1>1 DEF QueueInv, Sound, WellLinked, Linked
<1> QED BY <1>2, Sentinels, UsedNodes DEF HomeIn

LEMMA RtcBeginsStep == QueueInv /\ RtcBegins => GoodStep
<1> SUFFICES ASSUME QueueInv, RtcBegins PROVE GoodStep
  OBVIOUS
<1>1. /\ UNCHANGED <<list, running, remain, where, woken>>
      /\ cursor' = list.next[rtc_wait_list]
      /\ list.next[rtc_wait_list] # rtc_wait_list
  BY DEF RtcBegins
<1>2. HomeIn(where, rtc_wait_list) = rtc_wait_list
  BY Sentinels DEF HomeIn
<1>3. cursor' \in Node /\ HandlerStaysInList'
  BY <1>1, <1>2, NextWaiter DEF HandlerStaysInList
<1> QED BY <1>1, <1>3 DEF GoodStep, QueueInv

(***************************************************************************)
(* The next node is read before the current one is moved.  It is another    *)
(* node, since a task is never its own neighbour, so it stays in the list   *)
(* when the current one leaves it.                                          *)
(***************************************************************************)
LEMMA RtcVisitsStep ==
  ASSUME QueueInv, NEW due \in BOOLEAN, RtcVisits(due)
  PROVE  GoodStep
<1> USE DEF QueueInv
<1>1. /\ cursor \in Task /\ where[cursor] = rtc_wait_list
      /\ where[cursor] \in Lists /\ cursor # InitTask /\ where[cursor] # run_queue
  <2>1. cursor \in Task
    BY DEF RtcVisits
  <2>2. cursor # NoNode /\ cursor # rtc_wait_list
    BY <2>1, Sentinels
  <2>3. where[cursor] = rtc_wait_list
    BY <2>2 DEF HandlerStaysInList
  <2> QED BY <2>1, <2>3, Sentinels
<1>2. cursor' = list.next[cursor] /\ running' = running /\ woken' \in BOOLEAN
  BY DEF RtcVisits
<1>3. list.next[cursor] # cursor
  <2>1. {cursor} \in SUBSET Listed(where) /\ {cursor} # {}
    BY <1>1, InListMovable
  <2>2. PICK t \in {cursor} : list.next[t] \notin {cursor}
    BY <2>1 DEF Sound, Acyclic
  <2> QED BY <2>2
<1>4. /\ cursor' \in Node
      /\ \/ cursor' = rtc_wait_list
         \/ cursor' \in Task /\ where[cursor'] = rtc_wait_list
  <2>1. HomeIn(where, cursor) = rtc_wait_list
    BY <1>1 DEF HomeIn
  <2> QED BY <1>1, <1>2, <1>3, <2>1, NextWaiter
<1>5. CASE due
  <2>1. where' = [where EXCEPT ![cursor] = run_queue]
    BY <1>5 DEF RtcVisits
  <2>2. list' = sched_insert_to_head(list, cursor)
    BY <1>5 DEF RtcVisits
  <2>3. Sound(list', where')
    <3>1. run_queue \in Lists
      BY Sentinels
    <3> QED BY <1>1, <2>1, <2>2, <3>1, InListMovable, ToHeadSound
            DEF sched_insert_to_head
  <2>4. where'[InitTask] = run_queue /\ where'[running] = run_queue
    BY <1>1, <2>1, Sentinels DEF Sound
  <2>5. remain' \in [Task -> 0..SCHED_TASK_TICKS]
    BY <1>1, <1>5, RefillType DEF RtcVisits
  <2>6. HandlerStaysInList'
    BY <1>1, <1>2, <1>3, <1>4, <2>1, Sentinels DEF HandlerStaysInList, Sound
  <2> QED BY <1>2, <1>4, <2>3, <2>4, <2>5, <2>6 DEF GoodStep
<1>6. CASE ~due
  <2>1. UNCHANGED <<list, where, remain>>
    BY <1>6 DEF RtcVisits
  <2>2. HandlerStaysInList'
    BY <1>2, <1>4, <2>1 DEF HandlerStaysInList
  <2> QED BY <1>2, <1>4, <2>1, <2>2 DEF GoodStep
<1> QED BY <1>5, <1>6

LEMMA RtcEndsStep == QueueInv /\ RtcEnds => GoodStep
<1> SUFFICES ASSUME QueueInv, RtcEnds PROVE GoodStep
  OBVIOUS
<1> USE DEF QueueInv
<1>1. UNCHANGED <<remain, where>> /\ cursor' = NoNode /\ woken' = FALSE
  BY DEF RtcEnds
<1>2. /\ Sound(list', where)
      /\ running' \in Task /\ where[running'] = run_queue
      /\ running' = IdleTask /\ running # IdleTask
           => \A t \in Task \ {IdleTask} : where[t] # run_queue
  <2>1. CASE woken
    <3>1. sched_launch_to_current_head(list)
      BY <2>1 DEF RtcEnds
    <3> QED BY <3>1, LaunchStep
  <2>2. CASE ~woken
    BY <2>2 DEF RtcEnds
  <2> QED BY <2>1, <2>2
<1>3. HandlerStaysInList'
  BY <1>1 DEF HandlerStaysInList
<1> QED BY <1>1, <1>2, <1>3 DEF GoodStep

LEMMA QueueUnchanged == QueueInv /\ UNCHANGED schedVars => QueueInv'
BY DEF schedVars, handlerVars, QueueInv, Sound, WellLinked, Linked, InUse, HomeIn,
       Acyclic, Listed, HandlerStaysInList

-----------------------------------------------------------------------------
LEMMA NextStep == SchedInv /\ [SchedNext]_schedVars => SchedInv' /\
                    (running' = IdleTask /\ running # IdleTask
                       => \A t \in Task \ {IdleTask} : where'[t] # run_queue)
<1> SUFFICES ASSUME SchedInv, [SchedNext]_schedVars
             PROVE  GoodStep /\ where' \in [Task -> Lists]
  BY DEF GoodStep, SchedInv
<1> USE DEF SchedInv
<1>0. WaitLists \subseteq Lists /\ run_queue \in Lists /\ rtc_wait_list \in WaitLists
      /\ terminal_wait_list \in WaitLists
  BY DEF Lists, WaitLists
<1>1. CASE sched_pit_interrupt_handler
  BY <1>1, PitStep DEF sched_pit_interrupt_handler
<1>2. CASE sched_yield
  BY <1>2, YieldStep DEF sched_yield
<1>3. ASSUME NEW w \in WaitLists, Sleep(w)
      PROVE  GoodStep /\ where' \in [Task -> Lists]
  BY <1>0, <1>3, SleepStep DEF Sleep
<1>4. ASSUME NEW t \in Task, WakeReader(t)
      PROVE  GoodStep /\ where' \in [Task -> Lists]
  BY <1>0, <1>4, WakeStep DEF WakeReader
<1>5. CASE RtcBegins
  BY <1>5, RtcBeginsStep DEF RtcBegins
<1>6. CASE RtcHandlerGoesOn
  <2>1. ASSUME NEW due \in BOOLEAN, RtcVisits(due)
        PROVE  GoodStep /\ where' \in [Task -> Lists]
    BY <1>0, <2>1, RtcVisitsStep DEF RtcVisits
  <2>2. CASE RtcEnds
    BY <2>2, RtcEndsStep DEF RtcEnds
  <2> QED BY <1>6, <2>1, <2>2 DEF RtcHandlerGoesOn
<1>7. CASE UNCHANGED schedVars
  BY <1>7, QueueUnchanged DEF GoodStep, schedVars
<1> QED BY <1>0, <1>1, <1>2, <1>3, <1>4, <1>5, <1>6, <1>7 DEF SchedNext

\* The invariant holds whatever the number of tasks and the length of a slice.
THEOREM InvariantHolds == SchedSpec => []SchedInv
<1>1. SchedInv /\ [SchedNext]_schedVars => SchedInv'
  BY NextStep
<1> QED BY InitSound, <1>1, PTL DEF SchedSpec

\* Every variable of the scheduler keeps its type: no pointer leaves the nodes
\* and no time slice (PitTicks) goes below zero.
THEOREM TypeCorrect == SchedSpec => []SchedTypeOK
<1>1. SchedInv => SchedTypeOK
  BY DEF SchedInv, QueueInv, SchedTypeOK, Sound, Heap
<1> QED BY InvariantHolds, <1>1, PTL

\* In the words of Sched.tla.
LEMMA SoundIsLinked == WellLinked(list, where) <=> ListsLinked
<1>1. \A n : Home(n) = HomeIn(where, n)
  BY DEF Home, HomeIn
<1>2. LiveNode = InUse(where)
  BY <1>1 DEF LiveNode, InUse
<1> QED BY <1>1, <1>2 DEF ListsLinked, WellLinked

\* Every handler leaves the lists consistently linked, and apart from each other.
THEOREM ListsStayLinked == SchedSpec => []ListsLinked
<1>1. SchedInv => ListsLinked
  <2> SUFFICES ASSUME SchedInv PROVE ListsLinked
    OBVIOUS
  <2>1. WellLinked(list, where)
    BY DEF SchedInv, QueueInv, Sound
  <2> QED BY <2>1, SoundIsLinked
<1> QED BY InvariantHolds, <1>1, PTL

\* Nobody is lost: a walk along a list comes back, after it has met all those that
\* sleepers, wake-ups and the PIT have put there and nobody else.
THEOREM ListsStayComplete == SchedSpec => []ListsComplete
<1>1. SchedInv => ListsComplete
  BY SoundComplete DEF SchedInv, QueueInv, ListsComplete
<1> QED BY InvariantHolds, <1>1, PTL

\* The CPU is always given to a member of the run queue.
THEOREM RunningStaysRunnable == SchedSpec => []RunningIsRunnable
<1>1. SchedInv => RunningIsRunnable
  BY DEF SchedInv, QueueInv, RunningIsRunnable
<1> QED BY InvariantHolds, <1>1, PTL

\* rtc_interrupt_handler never leaves the list it takes nodes from.
THEOREM HandlerNeverStrays == SchedSpec => []HandlerStaysInList
<1>1. SchedInv => HandlerStaysInList
  BY DEF SchedInv, QueueInv
<1> QED BY InvariantHolds, <1>1, PTL

\* Idle is given the CPU only when no other task is runnable.
THEOREM IdleIsLast == SchedSpec => IdleOnlyWhenAlone
<1>1. SchedInv /\ [SchedNext]_schedVars
        => [running' = IdleTask /\ running # IdleTask
              => \A t \in Task \ {IdleTask} : where'[t] # run_queue]_schedVars
  BY NextStep
<1> QED BY InvariantHolds, <1>1, PTL DEF SchedSpec, IdleOnlyWhenAlone

-----------------------------------------------------------------------------
(***************************************************************************)
(* The run queue as a sequence.  Place(q, i) is the i-th node of the ring   *)
(* that holds q, in which the sentinel stands before and behind.            *)
(***************************************************************************)
Place(q, i) == IF i \in 1..Len(q) THEN q[i] ELSE run_queue

Queued(l, q) ==
  /\ q \in Seq(Task)
  /\ \A i \in 0..Len(q) : l.next[Place(q, i)] = Place(q, i + 1)

LEMMA QueuedWalk ==
  ASSUME NEW l, NEW q, Queued(l, q)
  PROVE  \A k \in 0..(Len(q) + 1) : NthNext(l, run_queue, k) = Place(q, k)
<1> DEFINE F(k) == NthNext(l, run_queue, k)
           Bad == {i \in 0..(Len(q) + 1) : F(i) # Place(q, i)}
<1>1. Len(q) \in Nat /\ \A i \in 0..Len(q) : l.next[Place(q, i)] = Place(q, i + 1)
  BY DEF Queued
<1>2. F(0) = run_queue /\ \A k \in Nat : F(k + 1) = l.next[F(k)]
  BY NthNextStep
<1>3. Place(q, 0) = run_queue
  BY DEF Place
<1> SUFFICES ASSUME Bad # {} PROVE FALSE
  OBVIOUS
<1> HIDE DEF F
<1>4. PICK i \in Bad : \A j \in Bad : i <= j
  <2>1. Bad \in SUBSET Nat
    BY <1>1
  <2> QED BY <2>1, LeastNat
<1>5. i \in 0..(Len(q) + 1) /\ F(i) # Place(q, i)
  BY <1>4
<1>6. i # 0
  BY <1>2, <1>3, <1>5
<1>7. /\ i - 1 \in 0..Len(q) /\ i - 1 \in Nat /\ (i - 1) + 1 = i
      /\ i - 1 \in 0..(Len(q) + 1) /\ ~(i <= i - 1)
  BY <1>1, <1>5, <1>6
<1>8. F(i - 1) = Place(q, i - 1)
  BY <1>4, <1>7
<1>9. F((i - 1) + 1) = Place(q, (i - 1) + 1)
  BY <1>1, <1>2, <1>7, <1>8
<1> QED BY <1>5, <1>7, <1>9

\* A ring is the ring of one sequence.
LEMMA QueuedIsSeq ==
  ASSUME NEW l, NEW w, Sound(l, w), NEW q, Queued(l, q)
  PROVE  SeqOf(l, run_queue) = q
<1> DEFINE F(k) == NthNext(l, run_queue, k)
<1>1. q \in Seq(Task) /\ Len(q) \in Nat /\ NodeBound \in Nat
  BY SlotsAssumption DEF Queued, NodeBound
<1>2. PICK b \in 1..NodeBound :
        /\ ListLen(l, run_queue, NodeBound) = b - 1
        /\ F(b) = run_queue /\ \A j \in 1..(b - 1) : F(j) # run_queue
  BY RingLength, Sentinels
<1>3. \A k \in 0..(Len(q) + 1) : F(k) = Place(q, k)
  BY QueuedWalk
<1>4. SeqOf(l, run_queue) = [k \in 1..(b - 1) |-> F(k)]
  BY <1>2 DEF SeqOf, ListSeq
<1> HIDE DEF F
<1>5. \A k \in 1..Len(q) : F(k) = q[k] /\ F(k) # run_queue
  <2> TAKE k \in 1..Len(q)
  <2>1. F(k) = q[k]
    BY <1>1, <1>3 DEF Place
  <2>2. q[k] \in Task
    BY <1>1
  <2> QED BY <2>1, <2>2, Sentinels
<1>6. F(Len(q) + 1) = run_queue
  BY <1>1, <1>3 DEF Place
<1>7. b = Len(q) + 1
  <2>1. b \in Nat
    BY <1>1
  <2>2. ~(b < Len(q) + 1)
    BY <1>1, <1>2, <1>5, <2>1
  <2>3. ~(Len(q) + 1 < b)
    BY <1>1, <1>2, <1>6, <2>1
  <2> QED BY <1>1, <2>1, <2>2, <2>3
<1>8. SeqOf(l, run_queue) = [k \in 1..Len(q) |-> q[k]]
  BY <1>1, <1>4, <1>5, <1>7
<1> QED BY <1>1, <1>8

LEMMA SeqIsQueued ==
  ASSUME NEW l, NEW w, Sound(l, w)
  PROVE  Queued(l, SeqOf(l, run_queue))
<1> DEFINE F(k) == NthNext(l, run_queue, k)
           q == SeqOf(l, run_queue)
<1>1. PICK b \in 1..NodeBound :
        /\ ListLen(l, run_queue, NodeBound) = b - 1
        /\ F(b) = run_queue /\ \A j \in 1..(b - 1) : F(j) # run_queue
  BY RingLength, Sentinels
<1>2. b \in Nat /\ b >= 1
  BY SlotsAssumption DEF NodeBound
<1>3. q = [k \in 1..(b - 1) |-> F(k)]
  BY <1>1 DEF SeqOf, ListSeq
<1>4. \A k \in Nat : F(k) = run_queue \/ F(k) \in Task
  BY WalkStaysInList, Sentinels
<1>5. F(0) = run_queue /\ \A k \in Nat : F(k + 1) = l.next[F(k)]
  BY NthNextStep
<1> HIDE DEF F, q
<1>6. q \in Seq(Task) /\ Len(q) = b - 1 /\ \A k \in 1..(b - 1) : q[k] = F(k)
  <2>1. \A k \in 1..(b - 1) : F(k) \in Task
    BY <1>1, <1>2, <1>4
  <2> QED BY <1>2, <1>3, <2>1
<1>7. ASSUME NEW i \in 0..b PROVE Place(q, i) = F(i)
  <2>1. CASE i \in 1..Len(q)
    BY <1>6, <2>1 DEF Place
  <2>2. CASE i \notin 1..Len(q)
    <3>1. i = 0 \/ i = b
      BY <1>2, <1>6, <2>2
    <3>2. F(i) = run_queue
      BY <1>1, <1>5, <3>1 DEF F
    <3> QED BY <2>2, <3>2 DEF Place
  <2> QED BY <2>1, <2>2
<1>8. ASSUME NEW i \in 0..Len(q) PROVE l.next[Place(q, i)] = Place(q, i + 1)
  <2>1. i \in 0..b /\ i + 1 \in 0..b /\ i \in Nat
    BY <1>2, <1>6
  <2>2. Place(q, i) = F(i) /\ Place(q, i + 1) = F(i + 1)
    BY <1>7, <2>1
  <2> QED BY <1>5, <2>1, <2>2
<1> QED BY <1>6, <1>8 DEF Queued, q

\* What the ring around a queue looks like from its sentinel.
LEMMA QueuedEnds ==
  ASSUME NEW l, NEW w, Sound(l, w), NEW q, Queued(l, q)
  PROVE  /\ \A i \in 1..Len(q) : /\ q[i] \in Task /\ w[q[i]] = run_queue
                                 /\ q[i] # run_queue
                                 /\ l.prev[q[i]] = Place(q, i - 1)
         /\ l.prev[run_queue] = Place(q, Len(q))
<1>1. q \in Seq(Task) /\ Len(q) \in Nat
  BY DEF Queued
<1>2. \A k \in 0..(Len(q) + 1) : NthNext(l, run_queue, k) = Place(q, k)
  BY QueuedWalk
<1>3. \A k \in Nat : /\ \/ NthNext(l, run_queue, k) = run_queue
                        \/ w[NthNext(l, run_queue, k)] = run_queue
                     /\ l.prev[NthNext(l, run_queue, k + 1)] = NthNext(l, run_queue, k)
  BY WalkStaysInList, Sentinels
<1>4. ASSUME NEW k \in 0..Len(q) PROVE l.prev[Place(q, k + 1)] = Place(q, k)
  <2>1. k \in 0..(Len(q) + 1) /\ k + 1 \in 0..(Len(q) + 1) /\ k \in Nat
    BY <1>1
  <2>2. /\ NthNext(l, run_queue, k) = Place(q, k)
        /\ NthNext(l, run_queue, k + 1) = Place(q, k + 1)
    BY <1>2, <2>1
  <2> QED BY <1>3, <2>1, <2>2
<1>5. l.prev[run_queue] = Place(q, Len(q))
  <2>1. Place(q, Len(q) + 1) = run_queue
    BY <1>1 DEF Place
  <2> QED BY <1>1, <1>4, <2>1
<1>6. ASSUME NEW i \in 1..Len(q)
      PROVE  /\ q[i] \in Task /\ w[q[i]] = run_queue /\ q[i] # run_queue
             /\ l.prev[q[i]] = Place(q, i - 1)
  <2>1. q[i] \in Task /\ q[i] # run_queue
    BY <1>1, Sentinels
  <2>2. Place(q, i) = q[i] /\ NthNext(l, run_queue, i) = q[i]
    BY <1>1, <1>2 DEF Place
  <2>3. i - 1 \in 0..Len(q) /\ (i - 1) + 1 = i /\ i \in Nat
    BY <1>1
  <2>4. w[q[i]] = run_queue
    BY <1>3, <2>1, <2>2, <2>3
  <2>5. l.prev[Place(q, (i - 1) + 1)] = Place(q, i - 1)
    BY <1>4, <2>3
  <2> QED BY <2>1, <2>2, <2>3, <2>4, <2>5
<1> QED BY <1>5, <1>6

\* What precedes a member of another list is not in the run queue.
LEMMA OtherRing ==
  ASSUME NEW l, NEW w, Sound(l, w), NEW n \in Task, w[n] \in Lists, w[n] # run_queue
  PROVE  /\ l.prev[n] # run_queue
         /\ \A t \in Task : w[t] = run_queue => t # l.prev[n] /\ t # n
<1>1. n \in InUse(w) /\ l.prev[n] \in InUse(w) /\ l.next[l.prev[n]] = n
  BY Sentinels, UsedNodes DEF Sound, WellLinked, Linked
<1>2. HomeIn(w, l.prev[n]) = w[n]
  BY <1>1, UsedNodes DEF Sound, WellLinked
<1> QED BY <1>2, Sentinels, UsedNodes

\* sched_insert_to_head_unsafe puts a task in front of the queue.
LEMMA HeadInserted ==
  ASSUME NEW l, NEW w, Sound(l, w), NEW q, Queued(l, q),
         NEW n \in Task, w[n] \in Lists, w[n] # run_queue
  PROVE  Queued(sched_insert_to_head(l, n), <<n>> \o q)
<1> DEFINE m == sched_insert_to_head(l, n)
           r == <<n>> \o q
           b == l.next[run_queue]
<1>1. q \in Seq(Task) /\ Len(q) \in Nat
  BY DEF Queued
<1>2. /\ r \in Seq(Task) /\ Len(r) = Len(q) + 1 /\ r[1] = n
      /\ \A i \in 2..(Len(q) + 1) : r[i] = q[i - 1]
  BY <1>1
<1>3. b = Place(q, 1)
  <2>1. Place(q, 0) = run_queue
    BY DEF Place
  <2> QED BY <1>1, <2>1 DEF Queued
<1>4. b \in Node /\ b # n /\ run_queue # n /\ n \in Node /\ run_queue \in Node
  <2>1. run_queue # n /\ n \in Node /\ run_queue \in Node
    BY Sentinels
  <2>2. CASE b = run_queue
    BY <2>1, <2>2
  <2>3. CASE b # run_queue
    <3>1. 1 \in 1..Len(q) /\ b = q[1]
      BY <1>3, <2>3 DEF Place
    <3> QED BY <2>1, <3>1, QueuedEnds, Sentinels
  <2> QED BY <2>2, <2>3
<1>5. \A x \in Node : m.next[x] = IF x = n THEN b
                                  ELSE IF x = run_queue THEN n
                                  ELSE IF x = l.prev[n] THEN l.next[n]
                                  ELSE l.next[x]
  BY <1>4, MovePointers DEF Sound, sched_insert_to_head, move_task_after_node
<1> HIDE DEF m, r, b
<1>6. ASSUME NEW i \in 0..Len(r) PROVE m.next[Place(r, i)] = Place(r, i + 1)
  <2>1. CASE i = 0
    <3>1. Place(r, i) = run_queue /\ Place(r, i + 1) = n
      BY <1>1, <1>2, <2>1 DEF Place
    <3> QED BY <1>4, <1>5, <3>1
  <2>2. CASE i = 1
    <3>1. Place(r, i) = n /\ Place(r, i + 1) = Place(q, 1)
      BY <1>1, <1>2, <2>2 DEF Place
    <3> QED BY <1>3, <1>4, <1>5, <3>1
  <2>3. CASE i \in 2..Len(r)
    <3>1. /\ i - 1 \in 1..Len(q) /\ i - 1 \in 0..Len(q)
          /\ Place(r, i) = q[i - 1] /\ Place(q, i - 1) = q[i - 1]
          /\ Place(r, i + 1) = Place(q, (i - 1) + 1)
      BY <1>1, <1>2, <2>3 DEF Place
    <3>2. /\ q[i - 1] \in Node /\ q[i - 1] # n /\ q[i - 1] # run_queue
          /\ q[i - 1] # l.prev[n]
      BY <3>1, QueuedEnds, OtherRing, Sentinels
    <3>3. l.next[Place(q, i - 1)] = Place(q, (i - 1) + 1)
      BY <3>1 DEF Queued
    <3> QED BY <1>5, <3>1, <3>2, <3>3
  <2> QED BY <1>1, <1>2, <2>1, <2>2, <2>3
<1> QED BY <1>2, <1>6 DEF Queued, m, r

\* The same for one pointer.
LEMMA MoveNext ==
  ASSUME NEW l \in Heap, NEW n \in Node, NEW a \in Node, NEW b \in Node,
         n # a, n # b, NEW x \in Node
  PROVE  move_task_to_list(l, n, a, b).next[x]
           = IF x = n THEN b
             ELSE IF x = a THEN n
             ELSE IF x = l.prev[n] THEN l.next[n]
             ELSE l.next[x]
BY MovePointers

\* A task that falls asleep leaves the front of the queue.
LEMMA HeadRemoved ==
  ASSUME NEW l, NEW w, Sound(l, w), NEW q, Queued(l, q), Len(q) >= 1,
         NEW s \in Lists, s # run_queue
  PROVE  Queued(move_task_after_node(l, q[1], s), Tail(q))
<1> DEFINE n == q[1]
           m == move_task_after_node(l, n, s)
           r == Tail(q)
           b == l.next[s]
<1>1. q \in Seq(Task) /\ Len(q) \in Nat /\ 1 \in 1..Len(q)
  BY DEF Queued
<1>2. /\ r \in Seq(Task) /\ Len(r) = Len(q) - 1
      /\ \A i \in 1..(Len(q) - 1) : r[i] = q[i + 1]
  BY <1>1
<1>3. /\ n \in Task /\ w[n] = run_queue /\ n # run_queue
      /\ l.prev[n] = run_queue
  BY <1>1, QueuedEnds DEF Place
<1>4. /\ b \in Node /\ b # n /\ s # n /\ n \in Node /\ s \in Node
      /\ run_queue \in Node
  <2>1. s # n /\ n \in Node /\ s \in Node /\ run_queue \in Node
    BY <1>3, Sentinels
  <2>2. b \in InUse(w) /\ HomeIn(w, b) = s
    BY UsedNodes DEF Sound, WellLinked, Linked
  <2> QED BY <1>3, <2>1, <2>2, UsedNodes
<1>5. \A x \in Node : m.next[x] = IF x = n THEN b
                                  ELSE IF x = s THEN n
                                  ELSE IF x = l.prev[n] THEN l.next[n]
                                  ELSE l.next[x]
  <2>1. l \in Heap /\ m = move_task_to_list(l, n, s, b)
    BY DEF Sound, move_task_after_node
  <2> HIDE DEF m, n, b
  <2>2. \A x \in Node : move_task_to_list(l, n, s, b).next[x]
                          = IF x = n THEN b
                            ELSE IF x = s THEN n
                            ELSE IF x = l.prev[n] THEN l.next[n]
                            ELSE l.next[x]
    BY <1>4, <2>1, MoveNext
  <2> QED BY <2>1, <2>2
<1> HIDE DEF m, r, b, n
<1>6. ASSUME NEW i \in 0..Len(r) PROVE m.next[Place(r, i)] = Place(r, i + 1)
  <2>1. CASE i = 0
    <3>1. Place(r, i) = run_queue /\ Place(r, i + 1) = Place(q, 2)
      BY <1>1, <1>2, <2>1 DEF Place
    <3>2. l.next[n] = Place(q, 2)
      <4>1. Place(q, 1) = n /\ 1 \in 0..Len(q)
        BY <1>1 DEF Place, n
      <4>2. l.next[Place(q, 1)] = Place(q, 1 + 1)
        BY <4>1 DEF Queued
      <4> QED BY <4>1, <4>2
    <3> QED BY <1>3, <1>4, <1>5, <3>1, <3>2
  <2>2. CASE i \in 1..Len(r)
    <3>1. /\ i + 1 \in 1..Len(q) /\ i + 1 \in 0..Len(q) /\ i \in 1..Len(q)
          /\ (i + 1) - 1 = i
          /\ Place(r, i) = q[i + 1] /\ Place(q, i + 1) = q[i + 1]
          /\ Place(q, i) = q[i]
          /\ Place(r, i + 1) = Place(q, (i + 1) + 1)
      BY <1>1, <1>2, <2>2 DEF Place
    <3>2. l.prev[q[i + 1]] = q[i] /\ q[i] # run_queue
      BY <3>1, QueuedEnds
    <3>3. q[i + 1] \in Node /\ q[i + 1] # n /\ q[i + 1] # s /\ q[i + 1] # run_queue
      BY <1>3, <3>1, <3>2, QueuedEnds, Sentinels
    <3>4. l.next[Place(q, i + 1)] = Place(q, (i + 1) + 1)
      BY <3>1 DEF Queued
    <3> QED BY <1>3, <1>5, <3>1, <3>3, <3>4
  <2> QED BY <1>1, <1>2, <2>1, <2>2
<1> QED BY <1>2, <1>6 DEF Queued, m, r, n

\* The front task goes behind the last one: the end of a slice, and idle that
\* would be launched although somebody else can run.
LEMMA HeadToTail ==
  ASSUME NEW l, NEW w, Sound(l, w), NEW q, Queued(l, q), Len(q) >= 2
  PROVE  /\ Queued(move_task_after_node(l, q[1], l.prev[run_queue]),
                   Append(Tail(q), q[1]))
         /\ l.prev[run_queue] # q[1]
<1> DEFINE n == q[1]
           a == l.prev[run_queue]
           m == move_task_after_node(l, n, a)
           r == Append(Tail(q), n)
<1>1. q \in Seq(Task) /\ Len(q) \in Nat /\ {1, 2, Len(q)} \subseteq 1..Len(q)
  BY DEF Queued
<1>2. /\ r \in Seq(Task) /\ Len(r) = Len(q) /\ r[Len(q)] = n
      /\ \A i \in 1..(Len(q) - 1) : r[i] = q[i + 1]
  BY <1>1
<1>3. /\ n \in Task /\ n # run_queue /\ l.prev[n] = run_queue
  BY <1>1, QueuedEnds DEF Place
<1>4. ASSUME NEW i \in 2..Len(q)
      PROVE  l.prev[q[i]] = q[i - 1] /\ q[i] # n /\ q[i] \in Node /\ q[i] # run_queue
  <2>1. i \in 1..Len(q) /\ i - 1 \in 1..Len(q) /\ Place(q, i - 1) = q[i - 1]
    BY <1>1 DEF Place
  <2> QED BY <1>3, <2>1, QueuedEnds, Sentinels
<1>5. a = q[Len(q)] /\ a # n /\ a \in Node
  <2>1. a = q[Len(q)]
    BY <1>1, QueuedEnds DEF Place
  <2>2. Len(q) \in 2..Len(q)
    BY <1>1
  <2> QED BY <1>4, <2>1, <2>2
<1>6. l.next[a] = run_queue
  <2>1. Place(q, Len(q)) = a /\ Place(q, Len(q) + 1) = run_queue
    BY <1>1, <1>5 DEF Place
  <2> QED BY <1>1, <2>1 DEF Queued
<1>7. \A x \in Node : m.next[x] = IF x = n THEN run_queue
                                  ELSE IF x = a THEN n
                                  ELSE IF x = run_queue THEN l.next[n]
                                  ELSE l.next[x]
  <2>1. n \in Node /\ run_queue \in Node
    BY <1>3, Sentinels
  <2>2. l \in Heap /\ m = move_task_to_list(l, n, a, run_queue)
    BY <1>6 DEF Sound, move_task_after_node
  <2> HIDE DEF m, n, a
  <2>3. \A x \in Node : move_task_to_list(l, n, a, run_queue).next[x]
                          = IF x = n THEN run_queue
                            ELSE IF x = a THEN n
                            ELSE IF x = l.prev[n] THEN l.next[n]
                            ELSE l.next[x]
    BY <1>3, <1>5, <2>1, <2>2, Sentinels, MoveNext
  <2> QED BY <1>3, <2>2, <2>3
<1> HIDE DEF m, r, a, n
<1>8. ASSUME NEW i \in 0..Len(r) PROVE m.next[Place(r, i)] = Place(r, i + 1)
  <2>1. CASE i = 0
    <3>1. Place(r, i) = run_queue /\ Place(r, i + 1) = q[2]
      BY <1>1, <1>2, <2>1 DEF Place
    <3>2. l.next[n] = q[2]
      <4>1. Place(q, 1) = n /\ Place(q, 1 + 1) = q[2] /\ 1 \in 0..Len(q)
        BY <1>1 DEF Place, n
      <4>2. l.next[Place(q, 1)] = Place(q, 1 + 1)
        BY <4>1 DEF Queued
      <4> QED BY <4>1, <4>2
    <3>3. run_queue \in Node /\ run_queue # a
      <4>1. Len(q) \in 2..Len(q)
        BY <1>1
      <4> QED BY <1>4, <1>5, <4>1, Sentinels
    <3> QED BY <1>3, <1>7, <3>1, <3>2, <3>3
  <2>2. CASE i \in 1..(Len(q) - 2)
    <3>1. /\ i + 1 \in 2..Len(q) /\ i + 1 \in 0..Len(q) /\ i + 2 \in 2..Len(q)
          /\ (i + 1) + 1 = i + 2
          /\ Place(r, i) = q[i + 1] /\ Place(q, i + 1) = q[i + 1]
          /\ Place(r, i + 1) = q[i + 2] /\ Place(q, (i + 1) + 1) = q[i + 2]
      BY <1>1, <1>2, <2>2 DEF Place
    <3>2. l.next[Place(q, i + 1)] = Place(q, (i + 1) + 1)
      BY <3>1 DEF Queued
    <3>3. /\ q[i + 1] \in Node /\ q[i + 1] # n /\ q[i + 1] # run_queue
          /\ q[i + 2] # run_queue
      BY <1>4, <3>1
    <3>4. q[i + 1] # a
      BY <1>6, <3>1, <3>2, <3>3
    <3> QED BY <1>7, <3>1, <3>2, <3>3, <3>4
  <2>3. CASE i = Len(q) - 1
    <3>1. Place(r, i) = a /\ Place(r, i + 1) = n
      BY <1>1, <1>2, <1>5, <2>3 DEF Place
    <3> QED BY <1>5, <1>7, <3>1
  <2>4. CASE i = Len(q)
    <3>1. Place(r, i) = n /\ Place(r, i + 1) = run_queue
      BY <1>1, <1>2, <2>4 DEF Place
    <3>2. n \in Node
      BY <1>3, Sentinels
    <3> QED BY <1>7, <3>1, <3>2
  <2> QED BY <1>1, <1>2, <2>1, <2>2, <2>3, <2>4
<1> QED BY <1>2, <1>5, <1>8 DEF Queued, m, r, n, a

\* sched_launch_to_current_head settles the queue as ReadyQueue does.
LEMMA LaunchSettles ==
  ASSUME NEW l, NEW w, Sound(l, w), NEW q, Queued(l, q)
  PROVE  Queued(LaunchList(l), Ready!Settle(q))
<1>1. q \in Seq(Task) /\ Len(q) \in Nat
  BY DEF Queued
<1>2. l.next[run_queue] = Place(q, 1)
  <2>1. Place(q, 0) = run_queue
    BY DEF Place
  <2> QED BY <1>1, <2>1 DEF Queued
<1>3. CASE Len(q) = 0
  <2>1. l.next[run_queue] = run_queue
    BY <1>2, <1>3 DEF Place
  <2>2. LaunchList(l) = l
    BY <2>1, Sentinels DEF LaunchList
  <2>3. Ready!Settle(q) = q
    BY <1>3 DEF Ready!Settle
  <2> QED BY <2>2, <2>3
<1>4. CASE Len(q) = 1
  <2>1. l.next[run_queue] = q[1] /\ l.next[q[1]] = run_queue
    <3>1. Place(q, 1) = q[1] /\ Place(q, 1 + 1) = run_queue /\ 1 \in 0..Len(q)
      BY <1>4 DEF Place
    <3>2. l.next[Place(q, 1)] = Place(q, 1 + 1)
      BY <3>1 DEF Queued
    <3> QED BY <1>2, <3>1, <3>2
  <2>2. LaunchList(l) = l
    BY <2>1 DEF LaunchList
  <2>3. Ready!Settle(q) = q
    BY <1>4 DEF Ready!Settle
  <2> QED BY <2>2, <2>3
<1>5. CASE Len(q) >= 2
  <2>1. /\ l.next[run_queue] = q[1] /\ l.next[q[1]] = q[2] /\ q[2] # run_queue
    <3>1. /\ Place(q, 1) = q[1] /\ Place(q, 1 + 1) = q[2] /\ 1 \in 0..Len(q)
          /\ 2 \in 1..Len(q)
      BY <1>1, <1>5 DEF Place
    <3>2. l.next[Place(q, 1)] = Place(q, 1 + 1)
      BY <3>1 DEF Queued
    <3> QED BY <1>2, <3>1, <3>2, QueuedEnds
  <2>2. Head(q) = q[1] /\ Len(q) > 1
    BY <1>1, <1>5
  <2>3. CASE q[1] = IdleTask
    <3>1. LaunchList(l) = move_task_after_node(l, q[1], l.prev[run_queue])
      BY <2>1, <2>3 DEF LaunchList
    <3>2. Ready!Settle(q) = Append(Tail(q), q[1])
      BY <2>2, <2>3 DEF Ready!Settle
    <3> QED BY <1>5, <3>1, <3>2, HeadToTail
  <2>4. CASE q[1] # IdleTask
    <3>1. LaunchList(l) = l
      BY <2>1, <2>4 DEF LaunchList
    <3>2. Ready!Settle(q) = q
      BY <2>2, <2>4 DEF Ready!Settle
    <3> QED BY <3>1, <3>2
  <2> QED BY <2>3, <2>4
<1>6. Len(q) = 0 \/ Len(q) = 1 \/ Len(q) >= 2
  BY <1>1
<1> QED BY <1>3, <1>4, <1>5, <1>6

\* The launch dispatches: the first of the settled queue gets the processor.
LEMMA LaunchDispatches ==
  ASSUME running \in Task, NEW w, w[InitTask] = run_queue, NEW l, Sound(l, w),
         NEW q, Queued(l, q), sched_launch_to_current_head(l)
  PROVE  Ready!Dispatch(q) /\ running' = list'.next[run_queue]
<1>1. /\ list' = LaunchList(l) /\ running' = LaunchTask(l, running)
      /\ running' \in Task /\ running' = LaunchList(l).next[run_queue]
  BY LaunchedTask DEF sched_launch_to_current_head
<1>2. Sound(list', w) /\ Queued(list', Ready!Settle(q))
  BY <1>1, LaunchSound, LaunchSettles
<1>3. SeqOf(list', run_queue) = Ready!Settle(q)
  BY <1>2, QueuedIsSeq
<1>4. running' = Head(Ready!Settle(q))
  <2> DEFINE r == Ready!Settle(q)
  <2>0. Queued(list', r)
    BY <1>2
  <2> HIDE DEF r
  <2>1. r \in Seq(Task) /\ list'.next[Place(r, 0)] = Place(r, 1)
    <3>1. /\ r \in Seq(Task)
          /\ \A i \in 0..Len(r) : list'.next[Place(r, i)] = Place(r, i + 1)
      BY <2>0 DEF Queued
    <3>2. 0 \in 0..Len(r) /\ 0 + 1 = 1
      BY <3>1
    <3> QED BY <3>1, <3>2
  <2>2. running' = Place(r, 1)
    BY <1>1, <2>1 DEF Place
  <2>3. running' # run_queue
    BY <1>1, Sentinels
  <2>4. 1 \in 1..Len(r) /\ running' = r[1]
    BY <2>2, <2>3 DEF Place
  <2>5. running' = Head(r)
    BY <2>1, <2>4
  <2> QED BY <2>5 DEF r
<1> QED BY <1>1, <1>3, <1>4 DEF Ready!Dispatch

\* sched_move_running_to_last, whoever else there is.
LEMMA FrontToLast ==
  ASSUME NEW l, NEW w, Sound(l, w), NEW q, Queued(l, q), Len(q) >= 1
  PROVE  Queued(sched_move_running_to_last(l, q[1]), Append(Tail(q), q[1]))
<1>0. q \in Seq(Task)
  BY DEF Queued
<1>1. Len(q) \in Nat /\ Len(q) >= 1
  BY <1>0
<1>2. CASE Len(q) = 1
  <2>1. l.prev[run_queue] = q[1]
    BY <1>2, QueuedEnds DEF Place
  <2>2. Append(Tail(q), q[1]) = q
    <3> DEFINE r == Append(Tail(q), q[1])
    <3>1. Tail(q) \in Seq(Task) /\ Len(Tail(q)) = 0 /\ q[1] \in Task
      BY <1>0, <1>2
    <3>2. r \in Seq(Task) /\ Len(r) = 1 /\ r[1] = q[1]
      BY <3>1
    <3> HIDE DEF r
    <3>3. r = [i \in 1..1 |-> q[1]] /\ q = [i \in 1..1 |-> q[1]]
      BY <1>0, <1>2, <3>2
    <3> QED BY <3>3 DEF r
  <2> QED BY <2>1, <2>2 DEF sched_move_running_to_last
<1>3. CASE Len(q) >= 2
  BY <1>3, HeadToTail DEF sched_move_running_to_last
<1>4. Len(q) = 1 \/ Len(q) >= 2
  <2> DEFINE k == Len(q)
  <2>1. k \in Nat /\ k >= 1
    BY <1>1
  <2> HIDE DEF k
  <2>2. k = 1 \/ k >= 2
    BY <2>1
  <2> QED BY <2>2 DEF k
<1> QED BY <1>2, <1>3, <1>4

\* The members of the wait lists.
LEMMA AsleepAre ==
  ASSUME NEW l, NEW w, Sound(l, w)
  PROVE  UNION {ElemsOf(l, s) : s \in WaitLists} = {t \in Task : w[t] \in WaitLists}
<1>1. \A s \in WaitLists : ElemsOf(l, s) = {t \in Task : w[t] = s}
  BY SoundComplete DEF Lists
<1> QED BY <1>1

(***************************************************************************)
(* Between the handlers the processor belongs to the front of the queue.    *)
(***************************************************************************)
Front ==
  /\ ~woken => running = list.next[run_queue]
  /\ Interruptible => ~woken

LEMMA FrontTask ==
  ASSUME SchedInv, Front, ~woken
  PROVE  LET q == SeqOf(list, run_queue)
         IN  /\ Queued(list, q) /\ Len(q) >= 1 /\ q[1] = running
             /\ Sound(list, where)
<1> DEFINE q == SeqOf(list, run_queue)
<1>1. Sound(list, where) /\ running \in Task
  BY DEF SchedInv, QueueInv
<1>2. Queued(list, q)
  BY <1>1, SeqIsQueued
<1> HIDE DEF q
<1>3. running = Place(q, 1)
  <2>1. Place(q, 0) = run_queue /\ Len(q) \in Nat
    BY <1>2 DEF Place, Queued
  <2>2. list.next[Place(q, 0)] = Place(q, 0 + 1)
    BY <1>2, <2>1 DEF Queued
  <2> QED BY <2>1, <2>2 DEF Front
<1>4. 1 \in 1..Len(q) /\ running = q[1]
  BY <1>1, <1>3, Sentinels DEF Place
<1>5. Len(q) >= 1
  BY <1>2, <1>4 DEF Queued
<1> QED BY <1>1, <1>2, <1>4, <1>5 DEF q

-----------------------------------------------------------------------------
(***************************************************************************)
(* Each handler is a step of ReadyQueue, or none.                           *)
(***************************************************************************)
LEMMA SameQueue ==
  ASSUME UNCHANGED <<list, running, woken>>
  PROVE  UNCHANGED Ready!vars
BY DEF Ready!vars

LEMMA RotateRefines ==
  ASSUME SchedInv, Front, Interruptible, UNCHANGED <<where, woken>>,
         sched_launch_to_current_head(sched_move_running_to_last(list, running))
  PROVE  Ready!Rotate /\ Front'
<1> DEFINE q == SeqOf(list, run_queue)
<1>1. /\ Queued(list, q) /\ Len(q) >= 1 /\ q[1] = running /\ Sound(list, where)
      /\ ~woken /\ running \in Task /\ where[running] = run_queue
      /\ where[InitTask] = run_queue
  BY FrontTask DEF Front, SchedInv, QueueInv
<1>2. /\ Sound(sched_move_running_to_last(list, running), where)
      /\ Queued(sched_move_running_to_last(list, running), Append(Tail(q), running))
  BY <1>1, MoveRunningToLastSound, FrontToLast
<1>3. /\ Ready!Dispatch(Append(Tail(q), running))
      /\ running' = list'.next[run_queue] /\ Sound(list', where)
  BY <1>1, <1>2, LaunchDispatches, LaunchStep
<1>4. UNCHANGED UNION {ElemsOf(list, s) : s \in WaitLists}
  BY <1>1, <1>3, AsleepAre
<1> QED BY <1>1, <1>3, <1>4 DEF Ready!Rotate, Front

LEMMA BlockRefines ==
  ASSUME SchedInv, Front, NEW s \in WaitLists, Sleep(s)
  PROVE  Ready!Block /\ Front'
<1> DEFINE q == SeqOf(list, run_queue)
           m == move_task_after_node(list, running, s)
<1>1. /\ Interruptible /\ running \notin {InitTask, IdleTask}
      /\ where' = [where EXCEPT ![running] = s]
      /\ UNCHANGED <<cursor, woken>> /\ sched_launch_to_current_head(m)
  BY DEF Sleep, handlerVars
<1>2. /\ Queued(list, q) /\ Len(q) >= 1 /\ q[1] = running /\ Sound(list, where)
      /\ ~woken /\ running \in Task /\ where[running] = run_queue
      /\ where[InitTask] = run_queue
      /\ where \in [Task -> Lists]
  BY <1>1, FrontTask DEF Front, SchedInv, QueueInv
<1>3. s \in Lists /\ s # run_queue /\ run_queue \notin WaitLists
  BY SlotsAssumption DEF WaitLists, Lists, run_queue, wait4child_list,
                         rtc_wait_list, terminal_wait_list
<1>4. Sound(m, where')
  BY <1>1, <1>2, <1>3, InListMovable, ToHeadSound, Sentinels
<1>5. Queued(m, Tail(q))
  BY <1>2, <1>3, HeadRemoved
<1>6. where'[InitTask] = run_queue
  BY <1>1, <1>2, Sentinels
<1> HIDE DEF q, m
<1>7. /\ Ready!Dispatch(Tail(q))
      /\ running' = list'.next[run_queue] /\ Sound(list', where')
  BY <1>1, <1>2, <1>4, <1>5, <1>6, LaunchDispatches, LaunchStep
<1>8. (UNION {ElemsOf(list, x) : x \in WaitLists})'
        = (UNION {ElemsOf(list, x) : x \in WaitLists}) \cup {running}
  <2>1. /\ UNION {ElemsOf(list, x) : x \in WaitLists} = {t \in Task : where[t] \in WaitLists}
        /\ UNION {ElemsOf(list', x) : x \in WaitLists} = {t \in Task : where'[t] \in WaitLists}
    BY <1>2, <1>7, AsleepAre
  <2>2. {t \in Task : where'[t] \in WaitLists}
          = {t \in Task : where[t] \in WaitLists} \cup {running}
    BY <1>1, <1>2
  <2> QED BY <2>1, <2>2
<1> QED BY <1>1, <1>2, <1>7, <1>8 DEF Ready!Block, Front, q

\* What becomes of the queue and the sleepers when t is put in front of the queue.
LEMMA SleeperInFront ==
  ASSUME SchedInv, NEW t \in Task, where[t] \in WaitLists,
         where' = [where EXCEPT ![t] = run_queue]
  PROVE  LET q == SeqOf(list, run_queue)
             m == sched_insert_to_head(list, t)
         IN  /\ Queued(list, q) /\ Queued(m, <<t>> \o q) /\ Sound(m, where')
             /\ SeqOf(m, run_queue) = <<t>> \o q
             /\ where'[InitTask] = run_queue
             /\ \A l : Sound(l, where')
                  => UNION {ElemsOf(l, x) : x \in WaitLists}
                       = (UNION {ElemsOf(list, x) : x \in WaitLists}) \ {t}
             /\ t \in UNION {ElemsOf(list, x) : x \in WaitLists}
<1> DEFINE q == SeqOf(list, run_queue)
           m == sched_insert_to_head(list, t)
<1>1. /\ Sound(list, where) /\ where \in [Task -> Lists] /\ where[InitTask] = run_queue
  BY DEF SchedInv, QueueInv
<1>2. where[t] \in Lists /\ where[t] # run_queue /\ run_queue \notin WaitLists
      /\ run_queue \in Lists
  BY SlotsAssumption DEF WaitLists, Lists, run_queue, wait4child_list,
                         rtc_wait_list, terminal_wait_list
<1>3. Queued(list, q)
  BY <1>1, SeqIsQueued
<1>4. Queued(m, <<t>> \o q)
  BY <1>1, <1>2, <1>3, HeadInserted
<1>5. Sound(m, where')
  BY <1>1, <1>2, InListMovable, ToHeadSound DEF sched_insert_to_head
<1>6. SeqOf(m, run_queue) = <<t>> \o q
  BY <1>4, <1>5, QueuedIsSeq
<1>7. where'[InitTask] = run_queue
  BY <1>1, <1>2, Sentinels
<1>8. UNION {ElemsOf(list, x) : x \in WaitLists} = {u \in Task : where[u] \in WaitLists}
  BY <1>1, AsleepAre
<1>9. ASSUME NEW l, Sound(l, where')
      PROVE  UNION {ElemsOf(l, x) : x \in WaitLists}
               = (UNION {ElemsOf(list, x) : x \in WaitLists}) \ {t}
  <2>1. UNION {ElemsOf(l, x) : x \in WaitLists} = {u \in Task : where'[u] \in WaitLists}
    BY <1>9, AsleepAre
  <2>2. {u \in Task : where'[u] \in WaitLists} = {u \in Task : where[u] \in WaitLists} \ {t}
    BY <1>1, <1>2
  <2> QED BY <1>8, <2>1, <2>2
<1>10. t \in UNION {ElemsOf(list, x) : x \in WaitLists}
  BY <1>8
<1> QED BY <1>3, <1>4, <1>5, <1>6, <1>7, <1>9, <1>10

LEMMA UnblockRefines ==
  ASSUME SchedInv, Front, NEW t \in Task, WakeReader(t)
  PROVE  /\ t \in UNION {ElemsOf(list, s) : s \in WaitLists}
         /\ Ready!Unblock(t) /\ Front'
<1> DEFINE q == SeqOf(list, run_queue)
           m == sched_insert_to_head(list, t)
<1>1. /\ Interruptible /\ where[t] \in WaitLists
      /\ where' = [where EXCEPT ![t] = run_queue]
      /\ UNCHANGED <<cursor, woken>> /\ sched_launch_to_current_head(m)
      /\ ~woken /\ running \in Task
  BY DEF WakeReader, handlerVars, WaitLists, Front, SchedInv, QueueInv
<1>2. /\ Queued(m, <<t>> \o q) /\ Sound(m, where') /\ where'[InitTask] = run_queue
      /\ \A l : Sound(l, where')
           => UNION {ElemsOf(l, x) : x \in WaitLists}
                = (UNION {ElemsOf(list, x) : x \in WaitLists}) \ {t}
      /\ t \in UNION {ElemsOf(list, x) : x \in WaitLists}
  BY <1>1, SleeperInFront
<1> HIDE DEF q, m
<1>3. /\ Ready!Dispatch(<<t>> \o q)
      /\ running' = list'.next[run_queue] /\ Sound(list', where')
  BY <1>1, <1>2, LaunchDispatches, LaunchStep
<1>4. (UNION {ElemsOf(list, x) : x \in WaitLists})'
        = (UNION {ElemsOf(list, x) : x \in WaitLists}) \ {t}
  BY <1>2, <1>3
<1> QED BY <1>1, <1>2, <1>3, <1>4 DEF Ready!Unblock, Front, q

LEMMA VisitRefines ==
  ASSUME SchedInv, Front, NEW due \in BOOLEAN, RtcVisits(due)
  PROVE  /\ \/ /\ cursor \in UNION {ElemsOf(list, s) : s \in WaitLists}
               /\ Ready!UnblockOneOfSome(cursor)
            \/ UNCHANGED Ready!vars
         /\ Front'
<1>1. /\ cursor \in Task /\ where[cursor] \in WaitLists
      /\ cursor' = list.next[cursor] /\ list.next[cursor] # NoNode
      /\ woken' = (woken \/ due) /\ UNCHANGED running /\ woken \in BOOLEAN
  <2>1. cursor \in Task /\ cursor # NoNode /\ cursor # rtc_wait_list
    BY Sentinels DEF RtcVisits
  <2>2. where[cursor] = rtc_wait_list
    BY <2>1 DEF SchedInv, QueueInv, HandlerStaysInList
  <2>3. list.next[cursor] \in Node
    BY <2>1, Sentinels DEF SchedInv, QueueInv, Sound, Heap
  <2> QED BY <2>1, <2>2, <2>3, Sentinels DEF RtcVisits, WaitLists, SchedInv, QueueInv
<1>2. CASE due
  <2>1. /\ where' = [where EXCEPT ![cursor] = run_queue]
        /\ list' = sched_insert_to_head(list, cursor) /\ woken'
    BY <1>1, <1>2 DEF RtcVisits
  <2>2. /\ SeqOf(list', run_queue) = <<cursor>> \o SeqOf(list, run_queue)
        /\ UNION {ElemsOf(list', x) : x \in WaitLists}
             = (UNION {ElemsOf(list, x) : x \in WaitLists}) \ {cursor}
        /\ cursor \in UNION {ElemsOf(list, x) : x \in WaitLists}
    <3> DEFINE m == sched_insert_to_head(list, cursor)
    <3>1. /\ Sound(m, where')
          /\ SeqOf(m, run_queue) = <<cursor>> \o SeqOf(list, run_queue)
          /\ \A l : Sound(l, where')
               => UNION {ElemsOf(l, x) : x \in WaitLists}
                    = (UNION {ElemsOf(list, x) : x \in WaitLists}) \ {cursor}
          /\ cursor \in UNION {ElemsOf(list, x) : x \in WaitLists}
      BY <1>1, <2>1, SleeperInFront
    <3>2. list' = m
      BY <2>1
    <3> HIDE DEF m
    <3> QED BY <3>1, <3>2
  <2>3. woken' = TRUE
    BY <1>1, <1>2
  <2>4. Front'
    BY <1>1, <2>3 DEF Front, Interruptible
  <2> QED BY <1>1, <2>2, <2>3, <2>4 DEF Ready!UnblockOneOfSome
<1>3. CASE ~due
  <2>1. UNCHANGED list /\ woken' = woken
    BY <1>1, <1>3 DEF RtcVisits
  <2>2. UNCHANGED Ready!vars
    BY <1>1, <2>1, SameQueue
  <2>3. Front'
    BY <1>1, <2>1 DEF Front, Interruptible
  <2> QED BY <2>2, <2>3
<1> QED BY <1>2, <1>3

LEMMA CatchRefines ==
  ASSUME SchedInv, Front, RtcEnds
  PROVE  (Ready!Catch \/ UNCHANGED Ready!vars) /\ Front'
<1> DEFINE q == SeqOf(list, run_queue)
<1>1. /\ Sound(list, where) /\ running \in Task /\ where[InitTask] = run_queue
      /\ UNCHANGED where /\ woken' = FALSE /\ woken \in BOOLEAN
  BY DEF SchedInv, QueueInv, RtcEnds
<1>2. CASE woken
  <2>1. sched_launch_to_current_head(list)
    BY <1>2 DEF RtcEnds
  <2>2. Queued(list, q)
    BY <1>1, SeqIsQueued
  <2> HIDE DEF q
  <2>3. /\ Ready!Dispatch(q)
        /\ running' = list'.next[run_queue] /\ Sound(list', where)
    BY <1>1, <2>1, <2>2, LaunchDispatches, LaunchStep
  <2>4. UNCHANGED UNION {ElemsOf(list, s) : s \in WaitLists}
    BY <1>1, <2>3, AsleepAre
  <2> QED BY <1>1, <1>2, <2>3, <2>4 DEF Ready!Catch, Front, q
<1>3. CASE ~woken
  <2>1. UNCHANGED <<list, running, woken>>
    BY <1>1, <1>3 DEF RtcEnds
  <2> QED BY <1>1, <1>3, <2>1, SameQueue DEF Front
<1> QED BY <1>2, <1>3

\* The queue at boot: the youngest task first, idle and init last.
LEMMA BootQueue ==
  ASSUME SchedInit
  PROVE  SeqOf(list, run_queue) = [i \in 1..TASK_MAX_COUNT |-> TASK_MAX_COUNT - i]
<1> DEFINE N == TASK_MAX_COUNT
           q == [i \in 1..N |-> N - i]
<1>1. N \in Nat /\ N >= 2
  BY SlotsAssumption
<1>2. Sound(list, where)
  BY InitSound DEF SchedInv, QueueInv
<1>3. /\ q \in Seq(Task) /\ Len(q) = N /\ \A i \in 1..N : q[i] = N - i
  <2>1. \A i \in 1..N : N - i \in Task
    BY <1>1 DEF Task
  <2> QED BY <1>1, <2>1
<1>4. \A x \in Node : list.next[x] = CASE x = run_queue -> N - 1
                                       [] x = 0 -> run_queue
                                       [] x \in 1..(N - 1) -> x - 1
                                       [] OTHER -> x
  BY DEF SchedInit, BootList
<1>5. run_queue = N
  BY DEF run_queue
<1> HIDE DEF q
<1>6. ASSUME NEW i \in 0..Len(q) PROVE list.next[Place(q, i)] = Place(q, i + 1)
  <2>1. CASE i = 0
    <3>1. Place(q, i) = run_queue /\ Place(q, i + 1) = N - 1
      BY <1>1, <1>3, <2>1 DEF Place
    <3> QED BY <1>1, <1>4, <1>5, <3>1, Sentinels
  <2>2. CASE i \in 1..(N - 1)
    <3>1. Place(q, i) = N - i /\ Place(q, i + 1) = (N - i) - 1
      BY <1>1, <1>3, <2>2 DEF Place
    <3>2. N - i \in 1..(N - 1) /\ N - i # run_queue /\ N - i # 0
      BY <1>1, <1>5, <2>2
    <3>3. N - i \in Node
      BY <1>1, <3>2, Sentinels DEF Task
    <3> QED BY <1>4, <3>1, <3>2, <3>3
  <2>3. CASE i = N
    <3>1. Place(q, i) = 0 /\ Place(q, i + 1) = run_queue
      BY <1>1, <1>3, <2>3 DEF Place
    <3>2. 0 \in Node /\ 0 # run_queue
      BY <1>1, <1>5, Sentinels DEF InitTask
    <3> QED BY <1>4, <3>1, <3>2
  <2> QED BY <1>1, <1>3, <2>1, <2>2, <2>3
<1>7. Queued(list, q)
  BY <1>3, <1>6 DEF Queued
<1> QED BY <1>2, <1>7, QueuedIsSeq DEF q

LEMMA BootRefines ==
  ASSUME SchedInit
  PROVE  Ready!Init /\ Front
<1> DEFINE N == TASK_MAX_COUNT
           q == SeqOf(list, run_queue)
<1>1. N \in Nat /\ N >= 2
  BY SlotsAssumption
<1>2. q = [i \in 1..N |-> N - i]
  BY BootQueue
<1> HIDE DEF q
<1>3. /\ DOMAIN q = 1..N /\ \A i \in 1..N : q[i] = N - i
      /\ q \in Seq(Task)
  <2>1. \A i \in 1..N : N - i \in Task
    BY <1>1 DEF Task
  <2> QED BY <1>1, <1>2, <2>1
<1>4. Ready!IsInjective(q)
  BY <1>1, <1>3 DEF Ready!IsInjective
<1>5. Ready!ToSet(q) = Task
  <2>1. \A t \in Task : N - t \in 1..N /\ N - (N - t) = t
    BY <1>1 DEF Task
  <2>2. \A i \in 1..N : N - i \in Task
    BY <1>1 DEF Task
  <2> QED BY <1>3, <2>1, <2>2 DEF Ready!ToSet
<1>6. running = q[1] /\ running = Head(q) /\ ~woken /\ woken = FALSE
  BY <1>1, <1>3 DEF SchedInit
<1>7. running = list.next[run_queue]
  <2>1. run_queue \in Node /\ run_queue = N
    BY Sentinels DEF run_queue
  <2> QED BY <1>1, <2>1 DEF SchedInit, BootList
<1>8. UNION {ElemsOf(list, s) : s \in WaitLists} = {}
  <2>1. Sound(list, where)
    BY InitSound DEF SchedInv, QueueInv
  <2>2. \A t \in Task : where[t] \notin WaitLists
    BY SlotsAssumption DEF SchedInit, WaitLists, run_queue, wait4child_list,
                           rtc_wait_list, terminal_wait_list
  <2> QED BY <2>1, <2>2, AsleepAre
<1> QED BY <1>3, <1>4, <1>5, <1>6, <1>7, <1>8 DEF Ready!Init, Front, q

LEMMA StepRefines ==
  ASSUME SchedInv, Front, [SchedNext]_schedVars
  PROVE  [Ready!Next]_(Ready!vars) /\ Front'
<1>1. CASE sched_pit_interrupt_handler
  <2>1. Interruptible /\ UNCHANGED <<where, cursor, woken>> /\ (PitExpires \/ PitTicks)
    BY <1>1 DEF sched_pit_interrupt_handler, handlerVars
  <2>2. CASE PitExpires
    BY <2>1, <2>2, RotateRefines DEF PitExpires, Ready!Next
  <2>3. CASE PitTicks
    <3>1. UNCHANGED <<list, running>>
      BY <2>3 DEF PitTicks
    <3> QED BY <2>1, <3>1, SameQueue DEF Front, Interruptible
  <2> QED BY <2>1, <2>2, <2>3
<1>2. CASE sched_yield
  BY <1>2, RotateRefines DEF sched_yield, handlerVars, Ready!Next
<1>3. CASE Sleep(rtc_wait_list) \/ Sleep(terminal_wait_list)
  BY <1>3, BlockRefines DEF WaitLists, Ready!Next
<1>4. ASSUME NEW t \in Task, WakeReader(t)
      PROVE  [Ready!Next]_(Ready!vars) /\ Front'
  BY <1>4, UnblockRefines DEF Ready!Next
<1>5. CASE RtcBegins
  <2>1. UNCHANGED <<list, running, woken>> /\ Interruptible
    BY <1>5 DEF RtcBegins
  <2> QED BY <2>1, SameQueue DEF Front
<1>6. CASE RtcHandlerGoesOn
  <2>1. ASSUME NEW due \in BOOLEAN, RtcVisits(due)
        PROVE  [Ready!Next]_(Ready!vars) /\ Front'
    BY <2>1, VisitRefines DEF Ready!Next
  <2>2. CASE RtcEnds
    BY <2>2, CatchRefines DEF Ready!Next
  <2> QED BY <1>6, <2>1, <2>2 DEF RtcHandlerGoesOn
<1>7. CASE UNCHANGED schedVars
  <2>1. UNCHANGED <<list, running, woken, cursor>>
    BY <1>7 DEF schedVars, handlerVars
  <2> QED BY <2>1, SameQueue DEF Front, Interruptible
<1> QED BY <1>1, <1>2, <1>3, <1>4, <1>5, <1>6, <1>7 DEF SchedNext

\* The pointer code of task_sched.c, and the walk of rtc_interrupt_handler that
\* takes nodes out of the list it walks along, implement the queue of ReadyQueue:
\* for any number of tasks every handler reorders the tasks as the sequence says.
THEOREM QueueImplemented == SchedSpec => ImplementsReadyQueue
<1>1. SchedInit => Ready!Init /\ Front
  BY BootRefines
<1>2. SchedInv /\ Front /\ [SchedNext]_schedVars => [Ready!Next]_(Ready!vars) /\ Front'
  BY StepRefines
<1> QED BY <1>1, <1>2, InvariantHolds, PTL DEF SchedSpec, ImplementsReadyQueue, Ready!Spec

-----------------------------------------------------------------------------
(***************************************************************************)
(*                          PART 2: THE KERNEL                              *)
(***************************************************************************)

User == Valid \ {InitTask, IdleTask}

-----------------------------------------------------------------------------
(***************************************************************************)
(* The inductive invariant, in parts.  The lists are the scheduler's        *)
(* invariant QueueInv of part 1.                                            *)
(***************************************************************************)

\* The records that TypeOK does not look into.
Pcb == [valid : BOOLEAN, flags : SUBSET Flag, parent : Task \cup {NULL},
        terminal : Terminal \cup {NULL}, page_id : Page \cup {NULL},
        vidmap_enabled : BOOLEAN, counter : Int, pc : {"user", "read"},
        nbytes : 0..KEYBOARD_BUF_SIZE]

Slot == [valid : BOOLEAN, key_buf : [Cell -> {"c", "n"}], key_buf_cnt : 0..255,
         user_ask_len : 0..KEYBOARD_BUF_SIZE]

Records ==
  /\ pcb \in [Task -> Pcb]
  /\ terminal_slot \in [Terminal -> Slot]
  /\ terminal_fg_task \in [Terminal -> Task \cup {NULL}]
  /\ focus_task \in Task \cup {NULL}
  /\ page_id_running \subseteq Page

\* A slot that is not in use is empty; init and idle never change.
Slots ==
  /\ FlagsMatchLists
  /\ \A t \in Task : ~pcb[t].valid => pcb[t] = FreePcb
  /\ pcb[InitTask] = KernelPcb /\ pcb[IdleTask] = KernelPcb
  /\ where[InitTask] = run_queue /\ where[IdleTask] = run_queue

\* Interrupts are off only while a task that was in user mode is interrupted.
HandlerInUser == cursor # NoNode => pcb[running].pc = "user"

\* Every program is on an open terminal, and started either with the terminal
\* or by a program of the same terminal that waits for it, and for nobody else.
Family ==
  /\ \A t \in User :
       /\ pcb[t].terminal \in Opened
       /\ "TERMINAL_OWNER" \in pcb[t].flags <=> pcb[t].parent = NULL
       /\ pcb[t].parent # NULL =>
            /\ pcb[t].parent \in User
            /\ where[pcb[t].parent] = wait4child_list
            /\ pcb[pcb[t].parent].terminal = pcb[t].terminal
       /\ where[t] = rtc_wait_list => pcb[t].parent # NULL
  /\ \A t, u \in User : pcb[t].parent # NULL /\ pcb[t].parent = pcb[u].parent => t = u
  /\ \A p \in Task : where[p] = wait4child_list => \E t \in User : pcb[t].parent = p

\* Children lead to an innermost program: no tasks wait for each other in a ring.
NoRing ==
  \A T \in SUBSET {p \in Task : where[p] = wait4child_list} :
    T # {} => \E p \in T : \A t \in T : pcb[t].parent # p

\* The foreground task is the only program of its terminal that does not wait
\* for a child, and one program of the terminal was started with it.
Foreground ==
  /\ \A i \in Terminal : i \notin Opened => terminal_fg_task[i] = NULL
  /\ \A i \in Opened : /\ terminal_fg_task[i] \in User
                       /\ pcb[terminal_fg_task[i]].terminal = i
  /\ \A t \in User :
       where[t] # wait4child_list <=> terminal_fg_task[pcb[t].terminal] = t
  /\ \A i \in Opened : \E t \in User : pcb[t].terminal = i /\ pcb[t].parent = NULL
  /\ \A t, u \in User :
       pcb[t].parent = NULL /\ pcb[u].parent = NULL
         /\ pcb[t].terminal = pcb[u].terminal => t = u

Pages ==
  /\ task_count = Cardinality(Valid)
  /\ \A t \in User : pcb[t].page_id \in page_id_running
  /\ \A t, u \in User : pcb[t].page_id = pcb[u].page_id => t = u

\* Readers, asleep or just launched again, and what they have asked for, which is
\* not there as long as they sleep.
Readers ==
  /\ \A t \in Task : pcb[t].pc = "read" =>
       /\ t \in User
       /\ where[t] = terminal_wait_list \/ t = running
       /\ pcb[t].nbytes \in 1..KEYBOARD_BUF_SIZE
       /\ terminal_slot[pcb[t].terminal].user_ask_len = pcb[t].nbytes
  /\ \A t \in Task : where[t] = terminal_wait_list =>
       /\ pcb[t].pc = "read"
       /\ ~Satisfied(terminal_slot[pcb[t].terminal], pcb[t].nbytes)

\* A reader that has been woken finds what it waited for.
WokenReaderSatisfied ==
  \A t \in Valid : pcb[t].pc = "read" /\ where[t] = run_queue
     => Satisfied(terminal_slot[pcb[t].terminal], pcb[t].nbytes)

\* The three entries of the page directory that change, and the TSS.
PdEntry == {0, TASK_IMG_PAGE_ENTRY, VIDMAP_PAGE_ENTRY}
TextEntry(table) == set_PDE_4kB(NoEntry, table, FALSE)
VidmapEntry(i) == set_PDE_4kB(NoEntry, user_video_memory_pt(i), TRUE)

Mappings ==
  /\ hw = [tss |-> running, pd |-> hw.pd]
  /\ DOMAIN hw.pd = PdEntry
  /\ running_term = pcb[running].terminal
  /\ hw.pd[0] \in {TextEntry(kernel_page_table_0)}
                     \cup {TextEntry(kernel_video_memory_pt(i)) : i \in Terminal}
  /\ running_term # NULL => hw.pd[0] = TextEntry(kernel_video_memory_pt(running_term))
  /\ pcb[running].page_id # NULL =>
       hw.pd[TASK_IMG_PAGE_ENTRY] = task_set_img_paging(pcb[running].page_id)
  /\ hw.pd[VIDMAP_PAGE_ENTRY] \in {NoEntry} \cup {VidmapEntry(i) : i \in Terminal}
  /\ \A t \in User : pcb[t].vidmap_enabled /\ pcb[t].terminal = running_term
       => hw.pd[VIDMAP_PAGE_ENTRY] \in {NoEntry, VidmapEntry(running_term)}

\* Every open terminal has one window and a buffer, and closed ones have none.
Stacked ==
  /\ window_stack \in Seq(Terminal)
  /\ {window_stack[k] : k \in DOMAIN window_stack} = Opened
  /\ \A j, k \in DOMAIN window_stack : window_stack[j] = window_stack[k] => j = k
  /\ terminal_opened = Opened

KernelInv ==
  /\ QueueInv /\ Records /\ Slots /\ HandlerInUser
  /\ Family /\ NoRing /\ Foreground /\ FocusIsForeground
  /\ Pages /\ Readers /\ WokenReaderSatisfied
  /\ Mappings /\ Stacked

(***************************************************************************)
(* The part that the first misled wake-up leaves standing as well: it may   *)
(* tear the lists and let a task run on that has gone to sleep elsewhere,   *)
(* but every task keeps its kin, terminal, page and mappings.               *)
(***************************************************************************)
World ==
  /\ list \in Heap /\ running \in Task /\ pcb[running].valid
  /\ where \in [Task -> Lists \cup {temp_list}]
  /\ remain \in [Task -> 0..SCHED_TASK_TICKS]
  /\ Records
  /\ \A t \in Task : "WAITING_CHILD" \in pcb[t].flags <=> where[t] = wait4child_list
  /\ \A t \in Task : ~pcb[t].valid => pcb[t] = FreePcb
  /\ pcb[InitTask] = KernelPcb /\ pcb[IdleTask] = KernelPcb
  /\ Family /\ Foreground /\ FocusIsForeground
  /\ Pages /\ Mappings /\ Stacked

LEMMA InvWorld == KernelInv => World
<1> SUFFICES ASSUME KernelInv PROVE World
  OBVIOUS
<1>1. running \in Task /\ pcb[running].valid
  <2>1. temp_list # run_queue
    BY SlotsAssumption DEF temp_list, run_queue
  <2> QED BY <2>1 DEF KernelInv, QueueInv, Slots, FlagsMatchLists
<1>2. /\ list \in Heap /\ where \in [Task -> Lists \cup {temp_list}]
      /\ remain \in [Task -> 0..SCHED_TASK_TICKS]
  BY DEF KernelInv, QueueInv, Sound
<1> QED BY <1>1, <1>2 DEF World, KernelInv, Slots, FlagsMatchLists

-----------------------------------------------------------------------------
(***************************************************************************)
(* Tasks that come and go.                                                  *)
(***************************************************************************)

\* TASK_LIST_SENTINEL on a node that is in no ring disturbs none.
LEMMA SelfRingSound ==
  ASSUME NEW l, NEW w, Sound(l, w), NEW n \in Node, n \notin InUse(w)
  PROVE  Sound(SelfRing(l, n), w) /\ Movable(SelfRing(l, n), w, n)
<1> DEFINE m == SelfRing(l, n)
<1>1. /\ m \in Heap /\ m.next[n] = n /\ m.prev[n] = n
      /\ \A x \in Node : x # n => m.next[x] = l.next[x] /\ m.prev[x] = l.prev[x]
  BY DEF SelfRing, Heap, Sound
<1> HIDE DEF m
<1>2. \A x \in InUse(w) : x \in Node /\ x # n
  BY UsedNodes
<1>3. WellLinked(m, w)
  BY <1>1, <1>2 DEF Sound, WellLinked, Linked
<1>4. \A t \in Listed(w) : t \in InUse(w)
  BY UsedNodes DEF Listed
<1>5. Acyclic(m, w)
  BY <1>1, <1>2, <1>4 DEF Sound, Acyclic
<1> QED BY <1>1, <1>3, <1>5 DEF Sound, Movable, m

\* The first phase of tear_down_task takes the task out of its list.
LEMMA RemoveSound ==
  ASSUME NEW l, NEW w, Sound(l, w), NEW t \in Task, w[t] # temp_list
  PROVE  Sound(move_task_after_node(SelfRing(l, temp_list), t, temp_list),
               [w EXCEPT ![t] = temp_list])
<1> DEFINE k == SelfRing(l, temp_list)
           m == move_task_to_list(k, t, temp_list, temp_list)
           v == [w EXCEPT ![t] = temp_list]
           p == k.prev[t]
           q == k.next[t]
<1>0. temp_list \in Node /\ t \in Node /\ t # temp_list /\ temp_list \notin InUse(w)
  BY Sentinels, UsedNodes
<1>1. k \in Heap /\ k.next[temp_list] = temp_list
  BY <1>0 DEF SelfRing, Heap, Sound
<1>2. Sound(k, w)
  BY <1>0, SelfRingSound
<1>3. m = move_task_after_node(k, t, temp_list)
  BY <1>1 DEF move_task_after_node
<1> HIDE DEF k
<1>4. /\ m \in Heap
      /\ \A x \in Node : m.next[x] = IF x = t THEN temp_list
                                     ELSE IF x = temp_list THEN t
                                     ELSE IF x = p THEN q
                                     ELSE k.next[x]
      /\ \A x \in Node : m.prev[x] = IF x = t THEN temp_list
                                     ELSE IF x = temp_list THEN t
                                     ELSE IF x = q THEN p
                                     ELSE k.prev[x]
  BY <1>0, <1>1, MovePointers
<1> HIDE DEF m
<1>5. /\ t \in InUse(w) /\ InUse(v) = InUse(w) \ {t}
      /\ \A x \in InUse(v) : HomeIn(v, x) = HomeIn(w, x) /\ x # temp_list /\ x \in Node
  BY <1>0, UsedNodes DEF InUse, HomeIn, Sound
<1>6. \A x \in InUse(w) :
         /\ k.next[x] \in InUse(w) /\ k.prev[x] \in InUse(w)
         /\ k.prev[k.next[x]] = x /\ k.next[k.prev[x]] = x
         /\ HomeIn(w, k.next[x]) = HomeIn(w, x)
  BY <1>2 DEF Sound, WellLinked, Linked
<1>7. /\ p \in InUse(w) /\ q \in InUse(w) /\ k.next[p] = t /\ k.prev[q] = t
      /\ HomeIn(w, q) = HomeIn(w, t) /\ HomeIn(w, p) = HomeIn(w, t)
      /\ p = t <=> q = t
  BY <1>5, <1>6
<1> HIDE DEF v
<1>8. ASSUME NEW x \in InUse(v)
      PROVE  /\ m.next[x] \in InUse(v) /\ m.prev[m.next[x]] = x
             /\ HomeIn(v, m.next[x]) = HomeIn(v, x)
  <2>1. CASE x = p
    <3>1. m.next[x] = q /\ q # t /\ q \in InUse(v)
      BY <2>1, <1>4, <1>5, <1>7
    <3>2. m.prev[q] = p
      BY <3>1, <1>4, <1>5
    <3> QED BY <2>1, <3>1, <3>2, <1>5, <1>7
  <2>2. CASE x # p
    <3>1. x \in InUse(w) /\ m.next[x] = k.next[x]
      BY <2>2, <1>4, <1>5
    <3>2. k.next[x] # t /\ k.next[x] # q
      BY <2>2, <3>1, <1>5, <1>6, <1>7
    <3>3. k.next[x] \in InUse(v) /\ m.prev[k.next[x]] = x
      BY <3>1, <3>2, <1>4, <1>5, <1>6
    <3> QED BY <3>1, <3>3, <1>5, <1>6
  <2> QED BY <2>1, <2>2
<1>9. ASSUME NEW x \in InUse(v)
      PROVE  m.prev[x] \in InUse(v) /\ m.next[m.prev[x]] = x
  <2>1. CASE x = q
    <3>1. m.prev[x] = p /\ p # t /\ p \in InUse(v)
      BY <2>1, <1>4, <1>5, <1>7
    <3>2. m.next[p] = q
      BY <3>1, <1>4, <1>5
    <3> QED BY <2>1, <3>1, <3>2
  <2>2. CASE x # q
    <3>1. x \in InUse(w) /\ m.prev[x] = k.prev[x]
      BY <2>2, <1>4, <1>5
    <3>2. k.prev[x] # t /\ k.prev[x] # p
      BY <2>2, <3>1, <1>5, <1>6, <1>7
    <3> QED BY <3>1, <3>2, <1>4, <1>5, <1>6
  <2> QED BY <2>1, <2>2
<1>10. WellLinked(m, v)
  BY <1>8, <1>9 DEF WellLinked, Linked
<1>11. Listed(v) \subseteq Listed(w) \ {t} /\ t \in Listed(w)
  BY DEF Listed, v, Sound
<1>12. \A x \in Listed(w) : x \in InUse(w) /\ x \in Node
  BY UsedNodes DEF Listed
<1>13. ASSUME NEW T \in SUBSET Listed(v), T # {}, \A x \in T : m.next[x] \in T
       PROVE  FALSE
  <2>1. \A x \in T : x \in InUse(w) /\ x \in Node /\ x # t /\ x # temp_list
    BY <1>0, <1>11, <1>12, <1>13
  <2>2. CASE p \in T
    <3>1. q \in T
      BY <2>1, <2>2, <1>4, <1>13
    <3>2. \A x \in T \cup {t} : k.next[x] \in T \cup {t}
      BY <3>1, <2>1, <1>4, <1>7, <1>13
    <3>3. T \cup {t} \in SUBSET Listed(w)
      BY <1>11, <1>13
    <3> QED BY <3>2, <3>3, <1>2 DEF Sound, Acyclic
  <2>3. CASE p \notin T
    <3>1. \A x \in T : k.next[x] \in T
      BY <2>1, <2>3, <1>4, <1>13
    <3>2. T \in SUBSET Listed(w)
      BY <1>11, <1>13
    <3> QED BY <3>1, <3>2, <1>2, <1>13 DEF Sound, Acyclic
  <2> QED BY <2>2, <2>3
<1>14. Acyclic(m, v)
  BY <1>13 DEF Acyclic
<1>15. v \in [Task -> Lists \cup {temp_list}]
  BY DEF v, Sound
<1> QED BY <1>3, <1>4, <1>10, <1>14, <1>15 DEF Sound, k, v

\* What is put at the head of the run queue is launched, unless it is idle.
\* Moved behind a, a node follows a, even when it was the one that did already.
LEMMA MovedBehind ==
  ASSUME NEW l \in Heap, NEW n \in Node, NEW a \in Node, n # a
  PROVE  LET m == move_task_after_node(l, n, a)
         IN  m \in Heap /\ m.next[a] = n
<1> DEFINE b == l.next[a]
           l1 == [l  EXCEPT !.prev[l.next[n]] = l.prev[n]]
           l2 == [l1 EXCEPT !.next[l1.prev[n]] = l1.next[n]]
           l3 == [l2 EXCEPT !.prev[n] = a]
           l4 == [l3 EXCEPT !.next[a] = n]
           l5 == [l4 EXCEPT !.next[n] = b]
           l6 == [l5 EXCEPT !.prev[b] = n]
<1>0. b \in Node
  BY DEF Heap
<1>1. l1 \in Heap
  BY DEF Heap
<1> HIDE DEF b, l1
<1>2. l2 \in Heap
  BY <1>1 DEF Heap
<1> HIDE DEF l2
<1>3. l3 \in Heap
  BY <1>2 DEF Heap
<1> HIDE DEF l3
<1>4. l4 \in Heap /\ l4.next[a] = n
  BY <1>3 DEF Heap
<1> HIDE DEF l4
<1>5. l5 \in Heap /\ l5.next[a] = n
  BY <1>0, <1>4 DEF Heap
<1> HIDE DEF l5
<1>6. l6 \in Heap /\ l6.next[a] = n
  BY <1>0, <1>5 DEF Heap
<1>7. move_task_after_node(l, n, a) = l6
  BY DEF move_task_after_node, move_task_to_list, l1, l2, l3, l4, l5, l6, b
<1> HIDE DEF l6
<1> QED BY <1>6, <1>7

\* Who is inserted at the head of the run queue runs next.
LEMMA HeadIsLaunched ==
  ASSUME NEW l \in Heap, NEW f \in Task \ {IdleTask}, NEW cur
  PROVE  LET m == sched_insert_to_head(l, f)
         IN  m \in Heap /\ LaunchList(m) = m /\ LaunchTask(m, cur) = f
<1> DEFINE m == sched_insert_to_head(l, f)
<1>1. run_queue \in Node /\ run_queue # f /\ f \in Node
  BY Sentinels
<1>2. m \in Heap /\ m.next[run_queue] = f
  BY <1>1, MovedBehind DEF sched_insert_to_head
<1> HIDE DEF m
<1>3. LaunchList(m) = m
  BY <1>2 DEF LaunchList
<1> QED BY <1>1, <1>2, <1>3 DEF LaunchTask, m

\* NULL is neither a task, nor a terminal, nor a page.
LEMMA Distinct ==
  /\ NULL \notin Task /\ NULL \notin Terminal /\ NULL \notin Page
  /\ InitTask # IdleTask
  /\ wait4child_list \in WaitLists /\ rtc_wait_list \in WaitLists
  /\ terminal_wait_list \in WaitLists
  /\ wait4child_list # rtc_wait_list /\ wait4child_list # terminal_wait_list
  /\ wait4child_list # run_queue /\ temp_list # run_queue
  /\ temp_list # wait4child_list /\ temp_list # rtc_wait_list
  /\ temp_list # terminal_wait_list
  /\ WaitLists \subseteq Lists /\ run_queue \in Lists /\ run_queue \notin WaitLists
BY SlotsAssumption, TerminalAssumption
   DEF NULL, Task, Terminal, Page, InitTask, IdleTask, WaitLists, Lists, run_queue,
       wait4child_list, rtc_wait_list, terminal_wait_list, temp_list

\* tear_down_task leaves the lists sound, without the task, and with its parent,
\* if it has one, at the head of the run queue.
LEMMA TornSound ==
  ASSUME NEW t \in Task, Sound(list, where), where[t] \in Lists,
         pcb[t].parent # NULL => /\ pcb[t].parent \in Task
                                 /\ where[pcb[t].parent] = wait4child_list
                                 /\ pcb[t].parent # t,
         RevivedParent(t)
  PROVE  Sound(TornList(t), where')
<1> DEFINE p == pcb[t].parent
           away == move_task_after_node(SelfRing(list, temp_list), t, temp_list)
           back == IF p = NULL THEN away ELSE sched_insert_to_head(away, p)
           w1 == [where EXCEPT ![t] = temp_list]
<1>1. where' = [u \in Task |-> CASE u = t -> temp_list
                                 [] u = p -> run_queue
                                 [] OTHER -> where[u]]
  BY DEF RevivedParent
<1>2. Sound(away, w1)
  BY RemoveSound, Sentinels
<1> HIDE DEF away, w1
<1>3. Sound(back, where')
  <2>1. CASE p = NULL
    <3>1. where' = w1
      BY <1>1, <2>1, Distinct DEF w1, Sound
    <3> QED BY <2>1, <3>1, <1>2
  <2>2. CASE p # NULL
    <3>1. w1[p] = wait4child_list /\ p \in Task
      BY <2>2 DEF w1, Sound
    <3>2. where' = [w1 EXCEPT ![p] = run_queue]
      BY <1>1, <2>2 DEF w1, Sound
    <3>3. Sound(sched_insert_to_head(away, p), [w1 EXCEPT ![p] = run_queue])
      BY <1>2, <3>1, Distinct, InListMovable, ToHeadSound DEF sched_insert_to_head
    <3> QED BY <2>2, <3>2, <3>3
  <2> QED BY <2>1, <2>2
<1> HIDE DEF back
<1>4. t \notin InUse(where') /\ t \in Node /\ temp_list \notin InUse(where')
      /\ temp_list \in Node
  <2>1. p # t /\ where'[t] = temp_list
    BY <1>1, Distinct
  <2> QED BY <2>1, Sentinels, UsedNodes
<1>5. Sound(SelfRing(back, t), where')
  BY <1>3, <1>4, SelfRingSound
<1>6. Sound(SelfRing(SelfRing(back, t), temp_list), where')
  BY <1>4, <1>5, SelfRingSound
<1> QED BY <1>6 DEF TornList, back, away

\* system_execute puts the new task at the head of the run queue, and the parent,
\* when it waits, into wait4child_list.
LEMMA ExecuteSound ==
  ASSUME NEW new \in Task, NEW wait \in BOOLEAN, Sound(list, where),
         where[new] = temp_list, running \in Task, where[running] = run_queue
  PROVE  Sound(ExecuteList(new, wait),
               [where EXCEPT ![new] = run_queue,
                             ![running] = IF wait THEN wait4child_list ELSE @])
<1> DEFINE l0 == SelfRing(list, new)
           l1 == sched_insert_to_head(l0, new)
           w1 == [where EXCEPT ![new] = run_queue]
           w2 == [where EXCEPT ![new] = run_queue,
                               ![running] = IF wait THEN wait4child_list ELSE @]
<1>0. new # running /\ new \notin InUse(where) /\ new \in Node
  BY Distinct, Sentinels, UsedNodes
<1>1. Sound(l0, where) /\ Movable(l0, where, new)
  BY <1>0, SelfRingSound
<1> HIDE DEF l0
<1>2. Sound(l1, w1)
  BY <1>1, Distinct, ToHeadSound DEF sched_insert_to_head
<1> HIDE DEF l1
<1>3. w1[running] = run_queue
  BY <1>0 DEF Sound
<1>4. CASE wait
  <2>1. Sound(move_task_after_node(l1, running, wait4child_list),
              [w1 EXCEPT ![running] = wait4child_list])
    BY <1>2, <1>3, Distinct, InListMovable, ToHeadSound
  <2>2. w2 = [w1 EXCEPT ![running] = wait4child_list]
    BY <1>4
  <2>3. ExecuteList(new, wait) = move_task_after_node(l1, running, wait4child_list)
    BY <1>4 DEF ExecuteList, l1, l0
  <2> QED BY <2>1, <2>2, <2>3
<1>5. CASE ~wait
  <2>1. w2 = w1
    BY <1>0, <1>5 DEF Sound
  <2>2. ExecuteList(new, wait) = l1
    BY <1>5 DEF ExecuteList, l1, l0
  <2> QED BY <1>2, <2>1, <2>2
<1> QED BY <1>4, <1>5

-----------------------------------------------------------------------------
(***************************************************************************)
(* Boot.                                                                    *)
(***************************************************************************)

\* A free slot and the PCB of a kernel task: no flag, no parent, no terminal.
LEMMA EmptyPcbs ==
  /\ FreePcb \in Pcb /\ KernelPcb \in Pcb
  /\ ~FreePcb.valid /\ KernelPcb.valid
  /\ \A r \in {FreePcb, KernelPcb} :
       /\ r.flags = {} /\ r.parent = NULL /\ r.terminal = NULL /\ r.page_id = NULL
       /\ ~r.vidmap_enabled /\ r.pc = "user"
<1>1. 0 \in 0..KEYBOARD_BUF_SIZE /\ 0 \in Int
  BY TerminalAssumption
<1>2. FreePcb \in Pcb
  BY <1>1 DEF FreePcb, Pcb
<1>3. /\ ~FreePcb.valid /\ FreePcb.flags = {} /\ FreePcb.parent = NULL
      /\ FreePcb.terminal = NULL /\ FreePcb.page_id = NULL
      /\ ~FreePcb.vidmap_enabled /\ FreePcb.pc = "user"
  BY DEF FreePcb
<1>4. KernelPcb \in Pcb
  BY <1>2 DEF KernelPcb, Pcb
<1>5. /\ KernelPcb.valid /\ KernelPcb.flags = {} /\ KernelPcb.parent = NULL
      /\ KernelPcb.terminal = NULL /\ KernelPcb.page_id = NULL
      /\ ~KernelPcb.vidmap_enabled /\ KernelPcb.pc = "user"
  BY <1>2, <1>3 DEF KernelPcb, Pcb
<1> QED BY <1>2, <1>3, <1>4, <1>5

LEMMA Boot == Init => KernelInv
<1> SUFFICES ASSUME Init PROVE KernelInv
  OBVIOUS
<1>1. /\ InitTask \in Task /\ IdleTask \in Task /\ NULL \notin Task /\ NULL \notin Terminal
      /\ InitTask # IdleTask /\ NoNode \notin Node
      /\ \A t \in Task : t <= 1 <=> t \in {InitTask, IdleTask}
  BY SlotsAssumption, Distinct, Sentinels DEF InitTask, IdleTask, Task
<1>2. QueueInv
  <2>1. where = [t \in Task |-> IF t <= IdleTask THEN run_queue ELSE temp_list]
    BY <1>1 DEF Init, IdleTask
  <2>2. BootList(1) = BootList(IdleTask)
    BY DEF IdleTask
  <2>3. Sound(list, where)
    BY <1>1, <2>1, <2>2, BootSound DEF Init
  <2>4. /\ running \in Task /\ where[running] = run_queue
        /\ where[InitTask] = run_queue
        /\ cursor = NoNode /\ woken = FALSE
    BY <1>1 DEF Init
  <2>5. remain \in [Task -> 0..SCHED_TASK_TICKS]
    BY SliceAssumption DEF Init
  <2> QED BY <2>3, <2>4, <2>5 DEF QueueInv, HandlerStaysInList
<1>3. FreePcb \in Pcb /\ KernelPcb \in Pcb
  BY EmptyPcbs
<1>4. \A t \in Task : pcb[t] = IF t \in {InitTask, IdleTask} THEN KernelPcb ELSE FreePcb
  BY DEF Init
<1>5. Valid = {InitTask, IdleTask} /\ User = {} /\ Opened = {}
  BY <1>1, <1>4, EmptyPcbs DEF Valid, User, Opened, Init
<1>6. Records
  <2>1. pcb \in [Task -> Pcb]
    BY <1>3, <1>4 DEF Init
  <2>2. terminal_slot \in [Terminal -> Slot]
    BY TerminalAssumption DEF Init, Slot, NoTyping
  <2> QED BY <2>1, <2>2 DEF Records, Init
<1>7. \A t \in Task : where[t] = IF t \in {InitTask, IdleTask} THEN run_queue ELSE temp_list
  BY DEF Init
<1>8. Slots
  <2>1. /\ KernelPcb.valid /\ KernelPcb.flags = {}
        /\ ~FreePcb.valid /\ FreePcb.flags = {}
    BY EmptyPcbs
  <2>2. FlagsMatchLists
    BY <2>1, <1>4, <1>7, Distinct DEF FlagsMatchLists
  <2> QED BY <2>1, <2>2, <1>1, <1>4, <1>7 DEF Slots
<1>9. \A t \in Task : pcb[t].pc = "user" /\ pcb[t].terminal = NULL /\ pcb[t].page_id = NULL
  BY <1>4, EmptyPcbs
<1>10. HandlerInUser /\ Family /\ NoRing /\ Foreground /\ FocusIsForeground
  BY <1>1, <1>5, <1>7, <1>9, Distinct
     DEF HandlerInUser, Family, NoRing, Foreground, FocusIsForeground, Init
<1>11. Pages
  <2>1. Cardinality({InitTask, IdleTask}) = 2
    <3> DEFINE S == {InitTask}
    <3>1. IsFiniteSet(S) /\ Cardinality(S) = 1 /\ IdleTask \notin S
      BY <1>1, FS_Singleton
    <3> HIDE DEF S
    <3>2. Cardinality(S \cup {IdleTask}) = 1 + 1
      BY <3>1, FS_AddElement
    <3>3. S \cup {IdleTask} = {InitTask, IdleTask}
      BY DEF S
    <3> QED BY <3>2, <3>3
  <2> QED BY <2>1, <1>5 DEF Pages, Init
<1>12. Readers /\ WokenReaderSatisfied
  BY <1>5, <1>7, <1>9, Distinct DEF Readers, WokenReaderSatisfied, Init, Valid
<1>13. Mappings
  <2>1. /\ hw = [tss |-> running, pd |-> hw.pd] /\ DOMAIN hw.pd = PdEntry
        /\ running_term = NULL
        /\ \A e \in PdEntry : hw.pd[e] = BootDirectory[e]
    BY DEF Init, PdEntry
  <2>2. /\ BootDirectory[0] = TextEntry(kernel_page_table_0)
        /\ BootDirectory[VIDMAP_PAGE_ENTRY] = NoEntry
    BY DEF BootDirectory, TextEntry, VIDMAP_PAGE_ENTRY, KERNEL_PAGE_OFFSET,
           VRAM_BUFFER_PD_ENTRY
  <2>3. 0 \in PdEntry /\ VIDMAP_PAGE_ENTRY \in PdEntry
    BY DEF PdEntry
  <2>4. running \in Task
    BY <1>2 DEF QueueInv
  <2> QED BY <2>1, <2>2, <2>3, <2>4, <1>5, <1>9 DEF Mappings
<1>14. Stacked
  BY <1>5 DEF Stacked, Init
<1> QED BY <1>2, <1>6, <1>8, <1>10, <1>11, <1>12, <1>13, <1>14 DEF KernelInv

-----------------------------------------------------------------------------
(***************************************************************************)
(* What most steps leave alone: which tasks there are, how they are         *)
(* related, and their terminals and pages.                                  *)
(***************************************************************************)
SameTree ==
  /\ \A t \in Task :
       /\ pcb'[t].valid = pcb[t].valid /\ pcb'[t].parent = pcb[t].parent
       /\ pcb'[t].terminal = pcb[t].terminal /\ pcb'[t].page_id = pcb[t].page_id
       /\ "TERMINAL_OWNER" \in pcb'[t].flags <=> "TERMINAL_OWNER" \in pcb[t].flags
       /\ where'[t] = wait4child_list <=> where[t] = wait4child_list
       /\ where'[t] = rtc_wait_list => where[t] = rtc_wait_list \/ pcb[t].parent # NULL
  /\ \A i \in Terminal : terminal_slot'[i].valid = terminal_slot[i].valid
  /\ terminal_fg_task' = terminal_fg_task
  /\ task_count' = task_count /\ page_id_running' = page_id_running

LEMMA SameTasks ==
  ASSUME SameTree
  PROVE  Valid' = Valid /\ User' = User /\ Opened' = Opened
<1>1. Valid' = Valid
  BY DEF SameTree, Valid
<1>2. User' = User
  BY <1>1 DEF User
<1>3. Opened' = Opened
  BY DEF SameTree, Opened
<1> QED BY <1>1, <1>2, <1>3

\* What every user task has, and what the others do not.
LEMMA WorldFacts ==
  ASSUME World
  PROVE  /\ User \subseteq Task /\ InitTask \notin User /\ IdleTask \notin User
         /\ \A t \in Task : t \in User <=> /\ pcb[t].valid
                                           /\ t \notin {InitTask, IdleTask}
         /\ \A t \in Task \ User : /\ pcb[t].terminal = NULL /\ pcb[t].page_id = NULL
                                   /\ pcb[t].parent = NULL /\ ~pcb[t].vidmap_enabled
                                   /\ pcb[t].pc = "user"
         /\ \A t \in User : /\ pcb[t].terminal \in Opened /\ pcb[t].terminal # NULL
                            /\ pcb[t].page_id \in page_id_running
                            /\ pcb[t].page_id # NULL
         /\ Opened \subseteq Terminal
         /\ \A i \in Opened : terminal_fg_task[i] # NULL
         /\ pcb[running].valid /\ running \in Task
<1>1. User \subseteq Task /\ Opened \subseteq Terminal
  BY DEF User, Valid, Opened
<1>2. \A t \in Task \ User : pcb[t] \in {FreePcb, KernelPcb}
  BY DEF World, User, Valid
<1>3. page_id_running \subseteq Page
  BY DEF World, Records
<1>4. \A t \in Task \ User : /\ pcb[t].terminal = NULL /\ pcb[t].page_id = NULL
                             /\ pcb[t].parent = NULL /\ ~pcb[t].vidmap_enabled
                             /\ pcb[t].pc = "user"
  BY <1>2, EmptyPcbs
<1>5. \A t \in User : /\ pcb[t].terminal \in Opened /\ pcb[t].terminal # NULL
                      /\ pcb[t].page_id \in page_id_running /\ pcb[t].page_id # NULL
  BY <1>1, <1>3, Distinct DEF World, Family, Pages
<1>6. \A i \in Opened : terminal_fg_task[i] # NULL
  BY <1>1, Distinct DEF World, Foreground
<1>7. pcb[running].valid /\ running \in Task
  BY DEF World
<1> QED BY <1>1, <1>4, <1>5, <1>6, <1>7 DEF User, Valid

LEMMA UserFacts ==
  ASSUME KernelInv
  PROVE  /\ User \subseteq Task /\ InitTask \notin User /\ IdleTask \notin User
         /\ \A t \in Task : t \in User <=> /\ pcb[t].valid
                                           /\ t \notin {InitTask, IdleTask}
         /\ \A t \in Task \ User : /\ pcb[t].terminal = NULL /\ pcb[t].page_id = NULL
                                   /\ pcb[t].parent = NULL /\ ~pcb[t].vidmap_enabled
                                   /\ pcb[t].pc = "user"
         /\ \A t \in User : /\ pcb[t].terminal \in Opened /\ pcb[t].terminal # NULL
                            /\ pcb[t].page_id \in page_id_running
                            /\ pcb[t].page_id # NULL
         /\ Opened \subseteq Terminal
         /\ \A i \in Opened : terminal_fg_task[i] # NULL
         /\ pcb[running].valid /\ running \in Task
BY InvWorld, WorldFacts

LEMMA TreeKept ==
  ASSUME KernelInv, SameTree
  PROVE  Family' /\ NoRing' /\ Foreground' /\ Pages'
<1>1. Valid' = Valid /\ User' = User /\ Opened' = Opened /\ User \subseteq Task
      /\ \A t \in User : pcb[t].terminal \in Opened
  BY SameTasks, UserFacts
<1>2. Family'
  <2>1. \A t \in User :
          /\ pcb'[t].terminal \in Opened
          /\ "TERMINAL_OWNER" \in pcb'[t].flags <=> pcb'[t].parent = NULL
          /\ pcb'[t].parent # NULL =>
               /\ pcb'[t].parent \in User
               /\ where'[pcb'[t].parent] = wait4child_list
               /\ pcb'[pcb'[t].parent].terminal = pcb'[t].terminal
          /\ where'[t] = rtc_wait_list => pcb'[t].parent # NULL
    BY <1>1 DEF SameTree, KernelInv, Family
  <2>2. \A t, u \in User :
          pcb'[t].parent # NULL /\ pcb'[t].parent = pcb'[u].parent => t = u
    BY <1>1 DEF SameTree, KernelInv, Family
  <2>3. \A p \in Task :
          where'[p] = wait4child_list => \E t \in User : pcb'[t].parent = p
    BY <1>1 DEF SameTree, KernelInv, Family
  <2> QED BY <1>1, <2>1, <2>2, <2>3 DEF Family
<1>3. NoRing'
  <2>1. {p \in Task : where'[p] = wait4child_list}
          = {p \in Task : where[p] = wait4child_list}
    BY DEF SameTree
  <2>2. \A t \in Task : pcb'[t].parent = pcb[t].parent
    BY DEF SameTree
  <2> QED BY <2>1, <2>2 DEF KernelInv, NoRing
<1>4. Foreground'
  <2>1. terminal_fg_task' = terminal_fg_task
    BY DEF SameTree
  <2>2. \A i \in Opened : /\ terminal_fg_task[i] \in User
                          /\ pcb'[terminal_fg_task[i]].terminal = i
    BY <1>1 DEF SameTree, KernelInv, Foreground
  <2>3. \A t \in User :
          where'[t] # wait4child_list <=> terminal_fg_task[pcb'[t].terminal] = t
    BY <1>1 DEF SameTree, KernelInv, Foreground
  <2>4. \A i \in Opened : \E t \in User : pcb'[t].terminal = i /\ pcb'[t].parent = NULL
    BY <1>1 DEF SameTree, KernelInv, Foreground
  <2>5. \A t, u \in User :
          pcb'[t].parent = NULL /\ pcb'[u].parent = NULL
            /\ pcb'[t].terminal = pcb'[u].terminal => t = u
    BY <1>1 DEF SameTree, KernelInv, Foreground
  <2> QED BY <1>1, <2>1, <2>2, <2>3, <2>4, <2>5 DEF KernelInv, Foreground
<1>5. Pages'
  BY <1>1 DEF SameTree, KernelInv, Pages
<1> QED BY <1>2, <1>3, <1>4, <1>5

-----------------------------------------------------------------------------
(***************************************************************************)
(* Page directory entries.                                                  *)
(***************************************************************************)
IsTextEntry(pde) == pde \in {TextEntry(kernel_page_table_0)}
                      \cup {TextEntry(kernel_video_memory_pt(i)) : i \in Terminal}
IsVidmapEntry(pde) == pde \in {NoEntry} \cup {VidmapEntry(i) : i \in Terminal}

LEMMA EntryRewritten ==
  /\ \A pde, table : IsTextEntry(pde) => set_PDE_4kB(pde, table, FALSE) = TextEntry(table)
  /\ \A pde, i : IsVidmapEntry(pde) =>
       set_PDE_4kB(pde, user_video_memory_pt(i), TRUE) = VidmapEntry(i)
<1>1. ASSUME NEW a, NEW b, NEW u \in BOOLEAN, NEW v \in BOOLEAN
      PROVE  set_PDE_4kB(set_PDE_4kB(NoEntry, a, u), b, v) = set_PDE_4kB(NoEntry, b, v)
  BY DEF set_PDE_4kB, NoEntry, Entry
<1>2. ASSUME NEW pde, NEW table, IsTextEntry(pde)
      PROVE  set_PDE_4kB(pde, table, FALSE) = TextEntry(table)
  <2>1. PICK a : pde = set_PDE_4kB(NoEntry, a, FALSE)
    BY <1>2 DEF IsTextEntry, TextEntry
  <2> QED BY <2>1, <1>1 DEF TextEntry
<1>3. ASSUME NEW pde, NEW i, IsVidmapEntry(pde)
      PROVE  set_PDE_4kB(pde, user_video_memory_pt(i), TRUE) = VidmapEntry(i)
  <2>1. pde = NoEntry \/ \E a : pde = set_PDE_4kB(NoEntry, a, TRUE)
    BY <1>3 DEF IsVidmapEntry, VidmapEntry
  <2> QED BY <2>1, <1>1 DEF VidmapEntry
<1> QED BY <1>2, <1>3

\* terminal_set_running shows the text of the terminal, and nothing else changes.
LEMMA TextGood ==
  ASSUME NEW pd, DOMAIN pd = PdEntry, IsTextEntry(pd[0]),
         running_term # NULL => pd[0] = TextEntry(kernel_video_memory_pt(running_term)),
         NEW term \in Terminal \cup {NULL}, NEW opened,
         term # running_term /\ term # NULL => term \in opened
  PROVE  LET pd1 == terminal_set_running(pd, term, opened)
         IN  /\ DOMAIN pd1 = PdEntry /\ IsTextEntry(pd1[0])
             /\ term # NULL => pd1[0] = TextEntry(kernel_video_memory_pt(term))
             /\ pd1[TASK_IMG_PAGE_ENTRY] = pd[TASK_IMG_PAGE_ENTRY]
             /\ pd1[VIDMAP_PAGE_ENTRY] = pd[VIDMAP_PAGE_ENTRY]
<1> DEFINE pd1 == terminal_set_running(pd, term, opened)
<1>0. /\ 0 \in PdEntry /\ TASK_IMG_PAGE_ENTRY \in PdEntry /\ VIDMAP_PAGE_ENTRY \in PdEntry
      /\ TASK_IMG_PAGE_ENTRY # 0 /\ VIDMAP_PAGE_ENTRY # 0
  BY DEF PdEntry, TASK_IMG_PAGE_ENTRY, VIDMAP_PAGE_ENTRY
<1>1. CASE term = running_term
  BY <1>1 DEF terminal_set_running
<1>2. CASE term # running_term /\ term = NULL
  <2>1. pd1 = [pd EXCEPT ![0] = set_PDE_4kB(@, kernel_page_table_0, FALSE)]
    BY <1>2 DEF terminal_set_running, terminal_vidmem_set
  <2> HIDE DEF pd1
  <2>2. set_PDE_4kB(pd[0], kernel_page_table_0, FALSE) = TextEntry(kernel_page_table_0)
    BY EntryRewritten
  <2> QED BY <2>1, <2>2, <1>2, <1>0 DEF IsTextEntry, pd1
<1>3. CASE term # running_term /\ term # NULL
  <2>1. pd1 = [pd EXCEPT ![0] = set_PDE_4kB(@, kernel_video_memory_pt(term), FALSE)]
    BY <1>3 DEF terminal_set_running, terminal_vidmem_set
  <2> HIDE DEF pd1
  <2>2. set_PDE_4kB(pd[0], kernel_video_memory_pt(term), FALSE)
          = TextEntry(kernel_video_memory_pt(term))
    BY EntryRewritten
  <2> QED BY <2>1, <2>2, <1>3, <1>0 DEF IsTextEntry, pd1
<1> QED BY <1>1, <1>2, <1>3

\* A switch sets up the mappings of the task that runs next, provided that its
\* terminal is open.
LEMMA SwitchGood ==
  ASSUME KernelInv, running' \in Task, pcb[running'].valid, NEW opened,
         running' # running /\ pcb[running'].terminal # NULL
           => pcb[running'].terminal \in opened,
         SwitchMappings(running', opened), User' \subseteq User,
         \A u \in User' \cup {running'} :
            /\ pcb'[u].terminal = pcb[u].terminal
            /\ pcb'[u].page_id = pcb[u].page_id
            /\ pcb'[u].vidmap_enabled = pcb[u].vidmap_enabled
  PROVE  Mappings'
<1> DEFINE t == running'
           term == pcb[t].terminal
           pd1 == terminal_set_running(hw.pd, term, opened)
           pd2 == SetProgramPage(pd1, t, page_id_running)
           pd3 == task_apply_user_vidmap(pd2, t)
<1>0. /\ t \in Task /\ term \in Terminal \cup {NULL}
      /\ 0 \in PdEntry /\ TASK_IMG_PAGE_ENTRY \in PdEntry /\ VIDMAP_PAGE_ENTRY \in PdEntry
      /\ TASK_IMG_PAGE_ENTRY # 0 /\ VIDMAP_PAGE_ENTRY # 0
      /\ VIDMAP_PAGE_ENTRY # TASK_IMG_PAGE_ENTRY
  BY DEF KernelInv, Records, Pcb, PdEntry, TASK_IMG_PAGE_ENTRY, VIDMAP_PAGE_ENTRY
<1>1. /\ DOMAIN hw.pd = PdEntry /\ hw = [tss |-> running, pd |-> hw.pd]
      /\ running_term = pcb[running].terminal
      /\ IsTextEntry(hw.pd[0])
      /\ running_term # NULL
           => hw.pd[0] = TextEntry(kernel_video_memory_pt(running_term))
      /\ pcb[running].page_id # NULL =>
           hw.pd[TASK_IMG_PAGE_ENTRY] = task_set_img_paging(pcb[running].page_id)
      /\ IsVidmapEntry(hw.pd[VIDMAP_PAGE_ENTRY])
      /\ \A u \in User : pcb[u].vidmap_enabled /\ pcb[u].terminal = running_term
           => hw.pd[VIDMAP_PAGE_ENTRY] \in {NoEntry, VidmapEntry(running_term)}
  BY DEF KernelInv, Mappings, IsTextEntry, IsVidmapEntry
<1>2. CASE t = running
  <2>1. hw' = hw /\ running_term' = running_term
    BY <1>2 DEF SwitchMappings, ctxVars
  <2> QED BY <2>1, <1>1, <1>2 DEF Mappings, IsTextEntry, IsVidmapEntry
<1>3. CASE t # running
  <2>1. running_term' = term /\ hw' = [tss |-> t, pd |-> pd3] /\ hw'.pd = pd3
    BY <1>3 DEF SwitchMappings
  <2>2. pcb[t].page_id # NULL => pcb[t].page_id \in page_id_running
    BY <1>0, UserFacts
  <2> HIDE DEF t, term
  <2>3. /\ DOMAIN pd1 = PdEntry /\ IsTextEntry(pd1[0])
        /\ term # NULL => pd1[0] = TextEntry(kernel_video_memory_pt(term))
        /\ pd1[VIDMAP_PAGE_ENTRY] = hw.pd[VIDMAP_PAGE_ENTRY]
    <3>1. term # NULL => term \in opened
      BY <1>3 DEF term, t
    <3> QED BY <3>1, <1>0, <1>1, TextGood
  <2> HIDE DEF pd1
  <2>4. /\ DOMAIN pd2 = PdEntry /\ pd2[0] = pd1[0]
        /\ pcb[t].page_id # NULL
             => pd2[TASK_IMG_PAGE_ENTRY] = task_set_img_paging(pcb[t].page_id)
        /\ pd2[VIDMAP_PAGE_ENTRY] = hw.pd[VIDMAP_PAGE_ENTRY]
    BY <2>2, <2>3, <1>0 DEF SetProgramPage, task_paging_set
  <2> HIDE DEF pd2
  <2>5. /\ DOMAIN pd3 = PdEntry /\ pd3[0] = pd2[0]
        /\ pd3[TASK_IMG_PAGE_ENTRY] = pd2[TASK_IMG_PAGE_ENTRY]
        /\ IsVidmapEntry(pd3[VIDMAP_PAGE_ENTRY])
        /\ pd3[VIDMAP_PAGE_ENTRY] \in {NoEntry, VidmapEntry(term)}
    <3>1. CASE pcb[t].vidmap_enabled /\ term # NULL
      <4>1. pd3 = [pd2 EXCEPT ![VIDMAP_PAGE_ENTRY]
                                = set_PDE_4kB(@, user_video_memory_pt(term), TRUE)]
        BY <3>1 DEF task_apply_user_vidmap, task_set_user_vidmap, term
      <4>2. set_PDE_4kB(pd2[VIDMAP_PAGE_ENTRY], user_video_memory_pt(term), TRUE)
              = VidmapEntry(term)
        BY <2>4, <1>1, EntryRewritten
      <4>3. term \in Terminal
        BY <3>1, <1>0 DEF term, t
      <4> HIDE DEF pd3
      <4> QED BY <4>1, <4>2, <4>3, <2>4, <1>0 DEF IsVidmapEntry
    <3>2. CASE ~(pcb[t].vidmap_enabled /\ term # NULL)
      <4>1. pd3 = [pd2 EXCEPT ![VIDMAP_PAGE_ENTRY] = NoEntry]
        BY <3>2 DEF task_apply_user_vidmap, task_set_user_vidmap, term
      <4> HIDE DEF pd3
      <4> QED BY <4>1, <2>4, <1>0 DEF IsVidmapEntry
    <3> QED BY <3>1, <3>2
  <2> HIDE DEF pd3
  <2>6. pcb'[t].terminal = term /\ pcb'[t].page_id = pcb[t].page_id
    BY DEF t, term
  <2>7. IsTextEntry(pd3[0]) /\ IsVidmapEntry(pd3[VIDMAP_PAGE_ENTRY])
    BY <2>3, <2>4, <2>5
  <2> QED BY <2>1, <2>3, <2>4, <2>5, <2>6, <2>7
          DEF Mappings, IsTextEntry, IsVidmapEntry, t
<1> QED BY <1>2, <1>3

-----------------------------------------------------------------------------
(***************************************************************************)
(* Frames: what is left of the invariant when a step does not touch what    *)
(* a part of it speaks about.                                               *)
(***************************************************************************)

\* A reader that sleeps is the foreground task of its terminal, and does not have
\* what it asked for.
LEMMA SleeperFacts ==
  ASSUME KernelInv, NEW t \in Task, where[t] = terminal_wait_list
  PROVE  /\ t \in User /\ pcb[t].pc = "read"
         /\ pcb[t].terminal \in Opened /\ pcb[t].terminal \in Terminal
         /\ terminal_fg_task[pcb[t].terminal] = t
         /\ pcb[t].nbytes \in 1..KEYBOARD_BUF_SIZE
         /\ terminal_slot[pcb[t].terminal].user_ask_len = pcb[t].nbytes
         /\ ~Satisfied(terminal_slot[pcb[t].terminal], pcb[t].nbytes)
<1>1. /\ t \in User /\ pcb[t].pc = "read"
      /\ pcb[t].nbytes \in 1..KEYBOARD_BUF_SIZE
      /\ terminal_slot[pcb[t].terminal].user_ask_len = pcb[t].nbytes
      /\ ~Satisfied(terminal_slot[pcb[t].terminal], pcb[t].nbytes)
  BY DEF KernelInv, Readers
<1>2. terminal_fg_task[pcb[t].terminal] = t
  BY <1>1, Distinct DEF KernelInv, Foreground
<1> QED BY <1>1, <1>2, UserFacts

\* The terminals of those who sleep in a read keep the request, and still do not
\* have what was asked for.
Undisturbed(slots) ==
  \A t \in Task : where[t] = terminal_wait_list =>
     LET i == pcb[t].terminal
     IN  /\ slots[i].user_ask_len = pcb[t].nbytes
         /\ ~Satisfied(slots[i], pcb[t].nbytes)

LEMMA NobodyDisturbed == KernelInv => Undisturbed(terminal_slot)
BY SleeperFacts DEF Undisturbed

\* So it is when the only terminal that changes is nobody's bed.
LEMMA OthersUndisturbed ==
  ASSUME KernelInv, NEW i \in Terminal, NEW slots,
         \A j \in Terminal : j # i => slots[j] = terminal_slot[j],
         \A t \in Task : where[t] = terminal_wait_list => pcb[t].terminal # i
  PROVE  Undisturbed(slots)
BY SleeperFacts DEF Undisturbed

\* Readers are asleep while the running task is in user mode, and stay so.
LEMMA ReadersKept ==
  ASSUME KernelInv, SameTree, pcb[running].pc = "user",
         \A t \in Task :
            /\ pcb'[t].pc = pcb[t].pc /\ pcb'[t].nbytes = pcb[t].nbytes
            /\ where'[t] = terminal_wait_list <=> where[t] = terminal_wait_list,
         Undisturbed(terminal_slot')
  PROVE  Readers' /\ WokenReaderSatisfied'
<1>1. Valid' = Valid /\ User' = User /\ Opened' = Opened
  BY SameTasks
<1>2. \A t \in Task : pcb[t].pc = "read" =>
         /\ t \in User /\ where[t] = terminal_wait_list
         /\ pcb[t].nbytes \in 1..KEYBOARD_BUF_SIZE
  BY DEF KernelInv, Readers
<1>3. \A t \in Task : pcb'[t].terminal = pcb[t].terminal
  BY DEF SameTree
<1>4. Readers'
  <2>1. \A t \in Task : pcb'[t].pc = "read" =>
          /\ t \in User
          /\ where'[t] = terminal_wait_list
          /\ pcb'[t].nbytes \in 1..KEYBOARD_BUF_SIZE
          /\ terminal_slot'[pcb'[t].terminal].user_ask_len = pcb'[t].nbytes
    BY <1>2, <1>3 DEF Undisturbed
  <2>2. \A t \in Task : where'[t] = terminal_wait_list =>
          /\ pcb'[t].pc = "read"
          /\ ~Satisfied(terminal_slot'[pcb'[t].terminal], pcb'[t].nbytes)
    BY <1>3, SleeperFacts DEF Undisturbed
  <2> QED BY <1>1, <2>1, <2>2 DEF Readers
<1>5. WokenReaderSatisfied'
  BY <1>1, <1>2, Sentinels DEF WokenReaderSatisfied, Valid
<1> QED BY <1>4, <1>5

LEMMA MappingsKept ==
  ASSUME KernelInv, SameTree, UNCHANGED <<running, hw, running_term>>,
         \A t \in Task : pcb'[t].vidmap_enabled = pcb[t].vidmap_enabled
  PROVE  Mappings'
<1>1. User' = User /\ User \subseteq Task /\ running \in Task
  BY SameTasks, UserFacts
<1> QED BY <1>1 DEF SameTree, KernelInv, Mappings

LEMMA FocusKept ==
  ASSUME KernelInv, SameTree,
         focus_task' = focus_task \/ \E i \in Opened : focus_task' = terminal_fg_task[i]
  PROVE  FocusIsForeground'
<1>1. Opened' = Opened /\ terminal_fg_task' = terminal_fg_task
  BY SameTasks DEF SameTree
<1> QED BY <1>1 DEF KernelInv, FocusIsForeground

\* A parent leaves its list only when a child of it is torn down.
ParentStays ==
  \A p \in Task :
     where[p] = wait4child_list /\ where'[p] # wait4child_list
       => \E t \in Task : pcb[t].parent = p /\ pcb[t].valid /\ ~pcb'[t].valid

KernelStep == KernelInv' /\ ParentStays

-----------------------------------------------------------------------------
(***************************************************************************)
(* Handlers of the scheduler: only the running task changes.                *)
(***************************************************************************)
LEMMA SchedulerStep ==
  ASSUME KernelInv, GoodStep, pcb[running].pc = "user",
         where' = where, cursor' = NoNode, SwitchContext(running'),
         UNCHANGED <<taskVars, termVars, focusVars, page_id_running>>
  PROVE  KernelStep
<1>1. UNCHANGED <<pcb, task_count, terminal_slot, terminal_opened, window_stack,
                  terminal_fg_task, focus_task, page_id_running>>
  BY DEF taskVars, termVars, focusVars
<1>2. SameTree
  BY <1>1 DEF SameTree
<1>3. Valid' = Valid /\ User' = User /\ Opened' = Opened
  BY <1>2, SameTasks
<1>4. Family' /\ NoRing' /\ Foreground' /\ Pages'
  BY <1>2, TreeKept
<1>5. Readers' /\ WokenReaderSatisfied'
  BY <1>1, <1>2, NobodyDisturbed, ReadersKept
<1>6. FocusIsForeground'
  BY <1>1, <1>2, FocusKept
<1>7. Mappings'
  <2>1. running' \in Task /\ where[running'] = run_queue
    BY DEF GoodStep, QueueInv
  <2>2. pcb[running'].valid
    BY <2>1, Distinct DEF KernelInv, Slots, FlagsMatchLists
  <2>3. pcb[running'].terminal # NULL => pcb[running'].terminal \in terminal_opened
    BY <2>1, UserFacts DEF KernelInv, Stacked
  <2> QED BY <2>1, <2>2, <2>3, <1>1, <1>3, SwitchGood DEF SwitchContext
<1>8. Records' /\ Slots' /\ Stacked' /\ HandlerInUser'
  BY <1>1, <1>3 DEF KernelInv, Records, Slots, FlagsMatchLists, Stacked, HandlerInUser
<1> QED BY <1>4, <1>5, <1>6, <1>7, <1>8
        DEF KernelStep, ParentStays, KernelInv, GoodStep

LEMMA PitInterruptStep == KernelInv /\ PitInterrupt => KernelStep
<1> SUFFICES ASSUME KernelInv, PitInterrupt PROVE KernelStep
  OBVIOUS
<1>1. GoodStep /\ where' = where /\ cursor' = NoNode
  BY PitStep DEF KernelInv, PitInterrupt, sched_pit_interrupt_handler, handlerVars,
                 Interruptible
<1> QED BY <1>1, SchedulerStep DEF PitInterrupt, InUser

LEMMA InitYieldsStep == KernelInv /\ InitYields => KernelStep
<1> SUFFICES ASSUME KernelInv, InitYields PROVE KernelStep
  OBVIOUS
<1>1. GoodStep /\ where' = where /\ cursor' = NoNode
  BY YieldStep DEF KernelInv, InitYields, sched_yield, handlerVars, Interruptible
<1> QED BY <1>1, SchedulerStep DEF InitYields, InUser

LEMMA RtcInterruptEndsStep == KernelInv /\ RtcInterruptEnds => KernelStep
<1> SUFFICES ASSUME KernelInv, RtcInterruptEnds PROVE KernelStep
  OBVIOUS
<1>1. GoodStep /\ where' = where /\ cursor' = NoNode
  BY RtcEndsStep DEF KernelInv, RtcInterruptEnds, RtcEnds
<1>2. cursor # NoNode
  BY Sentinels DEF RtcInterruptEnds, RtcEnds
<1> QED BY <1>1, <1>2, SchedulerStep DEF RtcInterruptEnds, KernelInv, HandlerInUser

-----------------------------------------------------------------------------
(***************************************************************************)
(* The window stack.                                                        *)
(***************************************************************************)
LEMMA LowestIs ==
  ASSUME NEW S \in SUBSET Nat, S # {}
  PROVE  Lowest(S) \in S /\ \A j \in S : Lowest(S) <= j
BY LeastNat DEF Lowest

LEMMA WindowIndex ==
  ASSUME NEW ws \in Seq(Terminal), NEW i
  PROVE  LET idx == find_window_idx(ws, i)
         IN  /\ idx \in 1..(Len(ws) + 1)
             /\ idx = Len(ws) + 1 \/ ws[idx] = i
             /\ \A k \in 1..Len(ws) : k < idx => ws[k] # i
<1> DEFINE S == {k \in 1..(Len(ws) + 1) : k = Len(ws) + 1 \/ ws[k] = i}
<1>1. Len(ws) \in Nat
  OBVIOUS
<1>2. S \in SUBSET Nat /\ Len(ws) + 1 \in S
  BY <1>1
<1>3. Lowest(S) \in S /\ \A j \in S : Lowest(S) <= j
  BY <1>2, LowestIs
<1>4. \A k \in 1..Len(ws) : k < Lowest(S) => ws[k] # i
  BY <1>1, <1>3
<1> QED BY <1>3, <1>4 DEF find_window_idx

Injective(ws) == \A j, k \in DOMAIN ws : ws[j] = ws[k] => j = k
Windows(ws) == {ws[k] : k \in DOMAIN ws}

LEMMA ToTopFacts ==
  ASSUME NEW ws \in Seq(Terminal), Injective(ws), NEW i \in Terminal
  PROVE  /\ ToTop(ws, i) \in Seq(Terminal)
         /\ Injective(ToTop(ws, i))
         /\ Windows(ToTop(ws, i)) = Windows(ws) \cup {i}
<1> DEFINE idx == find_window_idx(ws, i)
           L == Len(ws)
           n == IF idx = L + 1 THEN L + 1 ELSE L
           m == ToTop(ws, i)
<1>1. L \in Nat /\ DOMAIN ws = 1..L /\ \A k \in 1..L : ws[k] \in Terminal
  OBVIOUS
<1>2. /\ idx \in 1..(L + 1)
      /\ idx = L + 1 \/ ws[idx] = i
      /\ \A k \in 1..L : k < idx => ws[k] # i
  BY WindowIndex
<1>3. m = [k \in DOMAIN ws \cup {idx} |->
             IF k = 1 THEN i ELSE IF k <= idx THEN ws[k - 1] ELSE ws[k]]
  BY DEF ToTop
<1> HIDE DEF idx, L, m
<1>4. DOMAIN ws \cup {idx} = 1..n /\ n \in Nat /\ 1 \in 1..n
  BY <1>1, <1>2
<1>5. /\ DOMAIN m = 1..n
      /\ \A k \in 1..n : m[k] = IF k = 1 THEN i ELSE IF k <= idx THEN ws[k - 1] ELSE ws[k]
  BY <1>3, <1>4
<1>6. \A k \in 1..n : /\ k # 1 /\ k <= idx => k - 1 \in 1..L /\ k - 1 < idx
                      /\ k > idx => k \in 1..L /\ idx \in 1..L /\ ws[idx] = i
  BY <1>1, <1>2
<1>7. m \in Seq(Terminal)
  <2>1. \A k \in 1..n : m[k] \in Terminal
    <3> SUFFICES ASSUME NEW k \in 1..n PROVE m[k] \in Terminal
      OBVIOUS
    <3>1. k = 1 \/ (k # 1 /\ k <= idx) \/ k > idx
      BY <1>1, <1>2, <1>4
    <3>2. CASE k = 1 BY <3>2, <1>5
    <3>3. CASE k # 1 /\ k <= idx BY <3>3, <1>1, <1>5, <1>6
    <3>4. CASE k # 1 /\ k > idx BY <3>4, <1>1, <1>2, <1>4, <1>5, <1>6
    <3> QED BY <3>1, <3>2, <3>3, <3>4
  <2>2. m \in [1..n -> Terminal]
    BY <2>1, <1>3, <1>4, <1>5
  <2> QED BY <2>2, <1>4, SeqDef
<1>8. Injective(m)
  <2> SUFFICES ASSUME NEW j \in 1..n, NEW k \in 1..n, m[j] = m[k], j < k
               PROVE  FALSE
    BY <1>4, <1>5 DEF Injective
  <2>0. j \in Nat /\ k \in Nat /\ k # 1
    BY <1>4
  <2>1. m[k] # i
    BY <2>0, <1>1, <1>2, <1>4, <1>5, <1>6 DEF Injective
  <2>2. j # 1
    BY <2>1, <1>5
  <2>3. m[j] = ws[IF j <= idx THEN j - 1 ELSE j] /\ m[k] = ws[IF k <= idx THEN k - 1 ELSE k]
    BY <2>0, <2>2, <1>5
  <2>4. /\ (IF j <= idx THEN j - 1 ELSE j) \in 1..L
        /\ (IF k <= idx THEN k - 1 ELSE k) \in 1..L
        /\ (IF j <= idx THEN j - 1 ELSE j) # (IF k <= idx THEN k - 1 ELSE k)
    BY <2>0, <2>2, <1>1, <1>2, <1>6
  <2> QED BY <2>3, <2>4, <1>1 DEF Injective
<1>9. Windows(m) = Windows(ws) \cup {i}
  <2>1. ASSUME NEW v \in Windows(m) PROVE v \in Windows(ws) \cup {i}
    <3>1. PICK k \in 1..n : v = m[k]
      BY <2>1, <1>5 DEF Windows
    <3>2. CASE k = 1 BY <3>1, <3>2, <1>5
    <3>3. CASE k # 1 /\ k <= idx BY <3>1, <3>3, <1>1, <1>5, <1>6 DEF Windows
    <3>4. CASE k # 1 /\ ~(k <= idx)
      <4>1. k \in 1..L /\ v = ws[k]
        BY <3>1, <3>4, <1>1, <1>2, <1>4, <1>5, <1>6
      <4> QED BY <4>1, <1>1 DEF Windows
    <3> QED BY <3>2, <3>3, <3>4
  <2>2. i \in Windows(m)
    BY <1>4, <1>5 DEF Windows
  <2>3. ASSUME NEW v \in Windows(ws) PROVE v \in Windows(m)
    <3>1. PICK k \in 1..L : v = ws[k]
      BY <1>1 DEF Windows
    <3>2. CASE k < idx
      <4>1. k + 1 \in 1..n /\ k + 1 # 1 /\ k + 1 <= idx /\ (k + 1) - 1 = k
        BY <3>1, <3>2, <1>1, <1>2
      <4>2. m[k + 1] = v
        BY <4>1, <3>1, <1>5
      <4> QED BY <4>1, <4>2, <1>5 DEF Windows
    <3>3. CASE k = idx
      BY <2>2, <3>1, <3>3, <1>1, <1>2
    <3>4. CASE k > idx
      <4>1. k \in 1..n /\ k # 1 /\ ~(k <= idx)
        BY <3>1, <3>4, <1>1, <1>2
      <4>2. m[k] = v
        BY <4>1, <3>1, <1>5
      <4> QED BY <4>1, <4>2, <1>5 DEF Windows
    <3> QED BY <3>2, <3>3, <3>4, <1>1, <1>2
  <2> QED BY <2>1, <2>2, <2>3
<1> QED BY <1>7, <1>8, <1>9 DEF m

LEMMA DestroyFacts ==
  ASSUME NEW ws \in Seq(Terminal), Injective(ws), NEW i \in Windows(ws)
  PROVE  /\ gui_destroy_window(ws, i) \in Seq(Terminal)
         /\ Injective(gui_destroy_window(ws, i))
         /\ Windows(gui_destroy_window(ws, i)) = Windows(ws) \ {i}
<1> DEFINE idx == find_window_idx(ws, i)
           L == Len(ws)
           m == gui_destroy_window(ws, i)
<1>1. L \in Nat /\ DOMAIN ws = 1..L /\ \A k \in 1..L : ws[k] \in Terminal
  OBVIOUS
<1>2. /\ idx \in 1..(L + 1)
      /\ idx = L + 1 \/ ws[idx] = i
      /\ \A k \in 1..L : k < idx => ws[k] # i
  BY WindowIndex
<1>3. m = IF idx > L THEN ws
          ELSE [k \in 1..(L - 1) |-> IF k < idx THEN ws[k] ELSE ws[k + 1]]
  BY DEF gui_destroy_window
<1> HIDE DEF idx, L, m
<1>4. idx \in 1..L /\ ws[idx] = i
  BY <1>1, <1>2 DEF Windows
<1>5. /\ m = [k \in 1..(L - 1) |-> IF k < idx THEN ws[k] ELSE ws[k + 1]]
      /\ L - 1 \in Nat
  BY <1>1, <1>3, <1>4
<1>6. DOMAIN m = 1..(L - 1)
      /\ \A k \in 1..(L - 1) : m[k] = ws[IF k < idx THEN k ELSE k + 1]
  BY <1>5
<1>7. \A k \in 1..(L - 1) : /\ (IF k < idx THEN k ELSE k + 1) \in 1..L
                            /\ (IF k < idx THEN k ELSE k + 1) # idx
  BY <1>1, <1>4
<1>8. m \in Seq(Terminal)
  <2>1. \A k \in 1..(L - 1) : m[k] \in Terminal
    BY <1>1, <1>6, <1>7
  <2>2. m \in [1..(L - 1) -> Terminal]
    BY <2>1, <1>5
  <2> QED BY SMTT(30), <2>2, <1>5, SeqDef
<1>9. Injective(m)
  <2> SUFFICES ASSUME NEW j \in 1..(L - 1), NEW k \in 1..(L - 1), m[j] = m[k], j < k
               PROVE  FALSE
    BY <1>5, <1>6 DEF Injective
  <2>1. (IF j < idx THEN j ELSE j + 1) # (IF k < idx THEN k ELSE k + 1)
    BY <1>1, <1>4
  <2> QED BY <2>1, <1>1, <1>6, <1>7 DEF Injective
<1>10. Windows(m) = Windows(ws) \ {i}
  <2>1. ASSUME NEW v \in Windows(m) PROVE v \in Windows(ws) \ {i}
    <3>1. PICK k \in 1..(L - 1) : v = m[k]
      BY <2>1, <1>6 DEF Windows
    <3> DEFINE j == IF k < idx THEN k ELSE k + 1
    <3>2. j \in 1..L /\ j # idx /\ v = ws[j]
      BY <3>1, <1>6, <1>7
    <3> HIDE DEF j
    <3>3. v # i
      BY <3>2, <1>1, <1>4 DEF Injective
    <3> QED BY <3>2, <3>3, <1>1 DEF Windows
  <2>2. ASSUME NEW v \in Windows(ws) \ {i} PROVE v \in Windows(m)
    <3>1. PICK k \in 1..L : v = ws[k] /\ k # idx
      BY <1>1, <1>4 DEF Windows
    <3>2. CASE k < idx
      <4>1. k \in 1..(L - 1)
        BY <3>1, <3>2, <1>1, <1>4
      <4> QED BY <4>1, <3>1, <3>2, <1>6 DEF Windows
    <3>3. CASE k > idx
      <4>1. k - 1 \in 1..(L - 1) /\ ~(k - 1 < idx) /\ (k - 1) + 1 = k
        BY <3>1, <3>3, <1>1, <1>4
      <4>2. m[k - 1] = v
        BY <4>1, <3>1, <1>6
      <4> QED BY <4>1, <4>2, <1>6 DEF Windows
    <3> QED BY <3>1, <3>2, <3>3, <1>1, <1>4
  <2> QED BY <2>1, <2>2
<1> QED BY <1>8, <1>9, <1>10 DEF m

-----------------------------------------------------------------------------
(***************************************************************************)
(* Steps that do not switch.                                                *)
(***************************************************************************)
LEMMA RtcInterruptBeginsStep == KernelInv /\ RtcInterruptBegins => KernelStep
<1> SUFFICES ASSUME KernelInv, RtcInterruptBegins PROVE KernelStep
  OBVIOUS
<1>1. GoodStep
  BY RtcBeginsStep DEF KernelInv, RtcInterruptBegins
<1>2. /\ UNCHANGED <<where, running, pcb, task_count, terminal_slot, terminal_opened,
                     window_stack, terminal_fg_task, focus_task, page_id_running,
                     hw, running_term>>
      /\ pcb[running].pc = "user"
  BY DEF RtcInterruptBegins, RtcBegins, InUser, taskVars, termVars, focusVars, ctxVars
<1>3. SameTree
  BY <1>2 DEF SameTree
<1>4. Valid' = Valid /\ User' = User /\ Opened' = Opened
  BY <1>3, SameTasks
<1>5. /\ Family' /\ NoRing' /\ Foreground' /\ Pages' /\ Readers' /\ WokenReaderSatisfied'
      /\ FocusIsForeground' /\ Mappings'
  BY <1>2, <1>3, TreeKept, NobodyDisturbed, ReadersKept, FocusKept, MappingsKept
<1>6. Records' /\ Slots' /\ Stacked' /\ HandlerInUser'
  BY <1>2, <1>4 DEF KernelInv, Records, Slots, FlagsMatchLists, Stacked, HandlerInUser
<1> QED BY <1>1, <1>2, <1>5, <1>6 DEF KernelStep, ParentStays, KernelInv, GoodStep

\* The waiter that the handler visits is a program with a parent that waits for it.
LEMMA RtcInterruptVisitsStep == KernelInv /\ RtcInterruptVisits => KernelStep
<1> SUFFICES ASSUME KernelInv, RtcInterruptVisits PROVE KernelStep
  OBVIOUS
<1> DEFINE due == pcb[cursor].counter = 1
           p == pcb[cursor].parent
<1>1. RtcVisits(due) /\ due \in BOOLEAN
  BY DEF RtcInterruptVisits
<1>2. GoodStep
  BY <1>1, RtcVisitsStep DEF KernelInv
<1>3. /\ cursor \in Task /\ where[cursor] = rtc_wait_list /\ cursor # NoNode
  BY <1>1, Sentinels DEF RtcVisits, KernelInv, QueueInv, HandlerStaysInList
<1>4. cursor \in User /\ p \in User /\ p # NULL
  <2>1. cursor \in User
    BY <1>3, Distinct, UserFacts DEF KernelInv, Slots, FlagsMatchLists
  <2> QED BY <1>3, <2>1, UserFacts DEF KernelInv, Family
<1>5. /\ UNCHANGED <<running, task_count, terminal_slot, terminal_opened,
                     window_stack, terminal_fg_task, focus_task, page_id_running,
                     hw, running_term>>
      /\ pcb[running].pc = "user"
      /\ where' = IF due THEN [where EXCEPT ![cursor] = run_queue] ELSE where
  BY <1>1, <1>3 DEF RtcInterruptVisits, RtcVisits, termVars, focusVars, ctxVars,
                    KernelInv, HandlerInUser
<1>6. pcb \in [Task -> Pcb] /\ p \in Task
  BY <1>4, UserFacts DEF KernelInv, Records
<1>7. pcb' = [[pcb EXCEPT ![cursor].counter = @ - 1]
                EXCEPT ![p].flags = IF due THEN @ \ {"WAITING_RTC"} ELSE @]
  BY DEF RtcInterruptVisits
<1> HIDE DEF due, p
<1>8. pcb' \in [Task -> Pcb]
  <2> DEFINE pcb1 == [pcb EXCEPT ![cursor].counter = @ - 1]
  <2>1. pcb1 \in [Task -> Pcb]
    BY <1>3, <1>6 DEF Pcb
  <2>2. pcb' = [pcb1 EXCEPT ![p].flags = IF due THEN @ \ {"WAITING_RTC"} ELSE @]
    BY <1>7
  <2> HIDE DEF pcb1
  <2> QED BY <1>6, <2>1, <2>2 DEF Pcb
<1>9. \A t \in Task :
         /\ pcb'[t].valid = pcb[t].valid /\ pcb'[t].parent = pcb[t].parent
         /\ pcb'[t].terminal = pcb[t].terminal /\ pcb'[t].page_id = pcb[t].page_id
         /\ pcb'[t].vidmap_enabled = pcb[t].vidmap_enabled
         /\ pcb'[t].pc = pcb[t].pc /\ pcb'[t].nbytes = pcb[t].nbytes
         /\ \A f \in Flag \ {"WAITING_RTC"} : f \in pcb'[t].flags <=> f \in pcb[t].flags
         /\ t # cursor /\ t # p => pcb'[t] = pcb[t]
  BY <1>3, <1>6, <1>7 DEF Pcb
<1>10. \A t \in Task : /\ where'[t] = wait4child_list <=> where[t] = wait4child_list
                       /\ where'[t] = terminal_wait_list <=> where[t] = terminal_wait_list
                       /\ where'[t] = temp_list <=> where[t] = temp_list
                       /\ where'[t] = rtc_wait_list => where[t] = rtc_wait_list
                       /\ where[t] = run_queue => where'[t] = run_queue
  BY <1>3, <1>5, Distinct, Sentinels DEF KernelInv, QueueInv, Sound
<1>11. SameTree
  BY <1>5, <1>9, <1>10 DEF SameTree, Flag
<1>12. Valid' = Valid /\ User' = User /\ Opened' = Opened
  BY <1>11, SameTasks
<1>13. Family' /\ NoRing' /\ Foreground' /\ Pages' /\ FocusIsForeground' /\ Mappings'
  BY <1>5, <1>9, <1>11, TreeKept, FocusKept, MappingsKept
<1>14. Readers' /\ WokenReaderSatisfied'
  BY <1>5, <1>9, <1>10, <1>11, NobodyDisturbed, ReadersKept
<1>15. Slots'
  <2>1. FlagsMatchLists'
    BY <1>9, <1>10 DEF KernelInv, Slots, FlagsMatchLists, Flag
  <2>2. \A t \in Task \ User : t # cursor /\ t # p
    BY <1>4
  <2>3. \A t \in Task : ~pcb'[t].valid => pcb'[t] = FreePcb
    BY <1>9, <2>2, UserFacts DEF KernelInv, Slots
  <2>4. InitTask \in Task \ User /\ IdleTask \in Task \ User
    BY UserFacts, Sentinels
  <2> QED BY <1>9, <1>10, <2>1, <2>2, <2>3, <2>4 DEF KernelInv, Slots
<1>16. Records' /\ Stacked' /\ HandlerInUser'
  <2>1. running \in Task
    BY UserFacts
  <2> QED BY <1>5, <1>8, <1>9, <1>12, <2>1 DEF KernelInv, Records, Stacked, HandlerInUser
<1> QED BY <1>2, <1>10, <1>13, <1>14, <1>15, <1>16
        DEF KernelStep, ParentStays, KernelInv, GoodStep

\* system_vidmap
LEMMA SysVidmapStep == KernelInv /\ SysVidmap => KernelStep
<1> SUFFICES ASSUME KernelInv, SysVidmap PROVE KernelStep
  OBVIOUS
<1> DEFINE i == pcb[running].terminal
<1>1. /\ UNCHANGED <<list, running, remain, where, cursor, woken, task_count,
                     terminal_slot, terminal_opened, window_stack, terminal_fg_task,
                     focus_task, page_id_running, running_term>>
      /\ UNCHANGED schedVars
      /\ pcb[running].pc = "user" /\ running \notin {InitTask, IdleTask}
      /\ pcb' = [pcb EXCEPT ![running].vidmap_enabled = TRUE]
      /\ hw' = [hw EXCEPT !.pd = task_set_user_vidmap(@, i, NULL)]
  BY DEF SysVidmap, UserTaskRuns, InUser, schedVars, handlerVars, termVars, focusVars
<1>2. running \in User /\ running \in Task /\ pcb \in [Task -> Pcb]
  BY <1>1, UserFacts DEF KernelInv, Records
<1>3. pcb' \in [Task -> Pcb]
  <2>1. pcb' = [pcb EXCEPT ![running].vidmap_enabled = TRUE]
    BY <1>1
  <2>2. [pcb[running] EXCEPT !.vidmap_enabled = TRUE] \in Pcb
    BY <1>2 DEF Pcb
  <2> QED BY <1>2, <2>1, <2>2
<1>4. \A t \in Task :
         /\ pcb'[t].valid = pcb[t].valid /\ pcb'[t].parent = pcb[t].parent
         /\ pcb'[t].terminal = pcb[t].terminal /\ pcb'[t].page_id = pcb[t].page_id
         /\ pcb'[t].pc = pcb[t].pc /\ pcb'[t].nbytes = pcb[t].nbytes
         /\ pcb'[t].flags = pcb[t].flags
         /\ t # running => pcb'[t] = pcb[t]
  BY <1>1, <1>2 DEF Pcb
<1>5. SameTree
  BY <1>1, <1>4 DEF SameTree
<1>6. Valid' = Valid /\ User' = User /\ Opened' = Opened
  BY <1>5, SameTasks
<1>7. QueueInv'
  BY <1>1, QueueUnchanged DEF KernelInv
<1>8. Family' /\ NoRing' /\ Foreground' /\ Pages' /\ FocusIsForeground'
      /\ Readers' /\ WokenReaderSatisfied'
  BY <1>1, <1>4, <1>5, TreeKept, FocusKept, NobodyDisturbed, ReadersKept
<1>9. Mappings'
  <2>1. /\ i \in Terminal /\ i = running_term /\ i # NULL
    BY <1>2, UserFacts DEF KernelInv, Mappings
  <2>2. /\ DOMAIN hw.pd = PdEntry /\ hw = [tss |-> running, pd |-> hw.pd]
        /\ IsTextEntry(hw.pd[0]) /\ IsVidmapEntry(hw.pd[VIDMAP_PAGE_ENTRY])
        /\ hw.pd[0] = TextEntry(kernel_video_memory_pt(i))
        /\ pcb[running].page_id # NULL =>
             hw.pd[TASK_IMG_PAGE_ENTRY] = task_set_img_paging(pcb[running].page_id)
    BY <2>1 DEF KernelInv, Mappings, IsTextEntry, IsVidmapEntry
  <2>3. /\ hw'.pd = task_set_user_vidmap(hw.pd, i, NULL)
        /\ hw' = [tss |-> running, pd |-> hw'.pd]
    BY <1>1, <2>2
  <2>7. hw'.pd = [hw.pd EXCEPT ![VIDMAP_PAGE_ENTRY]
                                 = set_PDE_4kB(@, user_video_memory_pt(i), TRUE)]
    BY <2>1, <2>3 DEF task_set_user_vidmap
  <2>8. /\ 0 \in PdEntry /\ TASK_IMG_PAGE_ENTRY \in PdEntry
        /\ VIDMAP_PAGE_ENTRY \in PdEntry
        /\ VIDMAP_PAGE_ENTRY # 0 /\ VIDMAP_PAGE_ENTRY # TASK_IMG_PAGE_ENTRY
    BY DEF PdEntry, TASK_IMG_PAGE_ENTRY, VIDMAP_PAGE_ENTRY
  <2>4. set_PDE_4kB(hw.pd[VIDMAP_PAGE_ENTRY], user_video_memory_pt(i), TRUE)
          = VidmapEntry(i)
    BY <2>2, EntryRewritten
  <2> HIDE DEF i
  <2>5. /\ DOMAIN hw'.pd = PdEntry /\ hw'.pd[0] = hw.pd[0]
        /\ hw'.pd[TASK_IMG_PAGE_ENTRY] = hw.pd[TASK_IMG_PAGE_ENTRY]
        /\ hw'.pd[VIDMAP_PAGE_ENTRY] = VidmapEntry(i)
    BY <2>2, <2>4, <2>7, <2>8
  <2>6. pcb'[running].terminal = i /\ pcb'[running].page_id = pcb[running].page_id
    BY <1>2, <1>4 DEF i
  <2> QED BY <2>1, <2>2, <2>3, <2>5, <2>6, <1>1, <1>4, <1>6
          DEF Mappings, IsTextEntry, IsVidmapEntry
<1>10. Slots'
  <2>1. \A t \in Task \ User : t # running
    BY <1>2
  <2>2. InitTask \in Task \ User /\ IdleTask \in Task \ User
    BY UserFacts, Sentinels
  <2>3. \A t \in Task : ~pcb'[t].valid => pcb'[t] = FreePcb
    BY <1>4, <2>1, UserFacts DEF KernelInv, Slots
  <2> QED BY <1>1, <1>4, <2>1, <2>2, <2>3 DEF KernelInv, Slots, FlagsMatchLists
<1>11. Records' /\ Stacked' /\ HandlerInUser'
  BY <1>1, <1>2, <1>3, <1>4, <1>6 DEF KernelInv, Records, Stacked, HandlerInUser
<1> QED BY <1>1, <1>7, <1>8, <1>9, <1>10, <1>11 DEF KernelStep, ParentStays, KernelInv

-----------------------------------------------------------------------------
(***************************************************************************)
(* Terminals.                                                               *)
(***************************************************************************)

\* A count of characters is a uint8_t, and a place below the buffer's end is a cell.
LEMMA Uint8 ==
  /\ \A n \in Int : uint8(n) \in 0..255
  /\ \A n \in 0..255 : uint8(n) = n
BY DEF uint8

\* Whatever is typed, edited, read or cleared, a control block stays one, and what
\* is not in the buffer keeps its value.
LEMMA SlotKept ==
  ASSUME NEW s \in Slot
  PROVE  /\ \A byte \in {"c", "n"} : /\ Typed(s, byte) \in Slot
                                     /\ Typed(s, byte).valid = s.valid
                                     /\ Typed(s, byte).user_ask_len = s.user_ask_len
         /\ \A key : /\ Edited(s, key) \in Slot
                     /\ Edited(s, key).valid = s.valid
                     /\ Edited(s, key).user_ask_len = s.user_ask_len
         /\ \A n \in Nat : /\ Consumed(s, n) \in Slot
                           /\ Consumed(s, n).valid = s.valid
         /\ ClearedSlot(s) \in Slot
         /\ ClearedSlot(s).valid = s.valid
<1>1. ASSUME NEW byte \in {"c", "n"}
      PROVE  /\ Typed(s, byte) \in Slot
             /\ Typed(s, byte).valid = s.valid
             /\ Typed(s, byte).user_ask_len = s.user_ask_len
  <2>1. uint8(s.key_buf_cnt + 1) \in 0..255
    BY Uint8 DEF Slot
  <2> QED BY <2>1 DEF Typed, Slot
<1>2. ASSUME NEW key
      PROVE  /\ Edited(s, key) \in Slot
             /\ Edited(s, key).valid = s.valid
             /\ Edited(s, key).user_ask_len = s.user_ask_len
  <2>1. CASE key = "back" /\ s.key_buf_cnt > 0
    <3>1. s.key_buf_cnt - 1 \in 0..255
      BY <2>1 DEF Slot
    <3>2. Edited(s, key) = [s EXCEPT !.key_buf_cnt = @ - 1]
      BY <2>1 DEF Edited
    <3> QED BY <3>1, <3>2 DEF Slot
  <2>2. CASE key = "char" /\ s.key_buf_cnt < KEYBOARD_BUF_SIZE - 1
    <3>1. Edited(s, key) = Typed(s, "c")
      BY <2>2 DEF Edited
    <3> QED BY <3>1, <1>1
  <2>3. CASE /\ ~(key = "back" /\ s.key_buf_cnt > 0)
             /\ ~(key = "char" /\ s.key_buf_cnt < KEYBOARD_BUF_SIZE - 1)
    BY <2>3 DEF Edited
  <2> QED BY <2>1, <2>2, <2>3
<1>3. ASSUME NEW n \in Nat
      PROVE  Consumed(s, n) \in Slot /\ Consumed(s, n).valid = s.valid
  <2> DEFINE S == {j \in 0..n : j = n \/ j >= s.key_buf_cnt \/ s.key_buf[j] = "n"}
             i == Scan(s, n)
             del == IF ByteAt(s, i) = "n" THEN i + 1 ELSE i
             count == IF s.key_buf_cnt > KEYBOARD_BUF_SIZE + del THEN 0 ELSE s.key_buf_cnt
             buf == [j \in Cell |-> IF j + del < s.key_buf_cnt
                                    THEN ByteAt(s, j + del) ELSE s.key_buf[j]]
  <2>1. i \in Nat
    <3>1. S \in SUBSET Nat /\ n \in S
      OBVIOUS
    <3>2. i = Lowest(S)
      BY DEF Scan
    <3> HIDE DEF S
    <3> QED BY <3>1, <3>2, LowestIs
  <2>2. del \in Int /\ count \in Int
    BY <2>1 DEF Slot
  <2>3. uint8(count - del) \in 0..255
    BY <2>2, Uint8
  <2>4. \A j : ByteAt(s, j) \in {"c", "n"}
    BY DEF ByteAt, Slot
  <2>5. s.key_buf \in [Cell -> {"c", "n"}]
    BY DEF Slot
  <2>6. buf \in [Cell -> {"c", "n"}]
    <3> HIDE DEF del
    <3> QED BY <2>4, <2>5
  <2>7. Consumed(s, n) = [s EXCEPT !.key_buf = buf, !.key_buf_cnt = uint8(count - del)]
    BY DEF Consumed
  <2> HIDE DEF buf, count, del
  <2> QED BY <2>3, <2>6, <2>7 DEF Slot
<1>4. ClearedSlot(s) \in Slot /\ ClearedSlot(s).valid = s.valid
  <2>1. NoTyping \in [Cell -> {"c", "n"}]
    BY DEF NoTyping
  <2>2. ClearedSlot(s) = [s EXCEPT !.key_buf = NoTyping, !.key_buf_cnt = 0]
    BY DEF ClearedSlot
  <2>3. 0 \in 0..255
    OBVIOUS
  <2> HIDE DEF NoTyping
  <2> QED BY <2>1, <2>2, <2>3 DEF Slot
<1> QED BY <1>1, <1>2, <1>3, <1>4

\* What ends a read: nbytes characters, or Enter; what does not: an edit that
\* leaves fewer.
LEMMA ReadEnds ==
  ASSUME NEW s \in Slot, NEW nbytes \in Nat, nbytes <= KEYBOARD_BUF_SIZE
  PROVE  /\ s.key_buf_cnt >= nbytes => Satisfied(s, nbytes)
         /\ ~Satisfied(s, nbytes) => s.key_buf_cnt < nbytes
         /\ ~Satisfied(s, nbytes) => Satisfied(Typed(s, "n"), nbytes)
         /\ \A key : ~Satisfied(s, nbytes) /\ Edited(s, key).key_buf_cnt < nbytes
                     => ~Satisfied(Edited(s, key), nbytes)
<1> DEFINE c == s.key_buf_cnt
<1>0. c \in 0..255 /\ KEYBOARD_BUF_SIZE \in 1..255 /\ s.key_buf \in [Cell -> {"c", "n"}]
  BY TerminalAssumption DEF Slot
<1>1. c >= nbytes <=> nbytes <= c
  BY <1>0
<1>2. ~Satisfied(s, nbytes) => c < nbytes
  BY <1>0 DEF Satisfied
<1>3. ASSUME NEW byte \in {"c", "n"}, c < nbytes
      PROVE  /\ Typed(s, byte).key_buf_cnt = c + 1
             /\ c \in Cell /\ Typed(s, byte).key_buf[c] = byte
             /\ \A j \in Cell : j # c => Typed(s, byte).key_buf[j] = s.key_buf[j]
  <2>0. c \in Nat /\ c < KEYBOARD_BUF_SIZE /\ KEYBOARD_BUF_SIZE \in 1..255
    BY <1>0, <1>3
  <2>1. c \in Cell /\ c + 1 \in 0..255
    <3> HIDE DEF c
    <3> QED BY <2>0 DEF Cell
  <2>2. uint8(c + 1) = c + 1
    BY <2>1, Uint8
  <2> QED BY <2>1, <2>2 DEF Typed, Slot
<1>4. ~Satisfied(s, nbytes) => Satisfied(Typed(s, "n"), nbytes)
  <2> SUFFICES ASSUME ~Satisfied(s, nbytes) PROVE Satisfied(Typed(s, "n"), nbytes)
    OBVIOUS
  <2>1. c < nbytes
    BY <1>2
  <2>2. c \in 0..(nbytes - 1) /\ c < c + 1
    BY <2>1, <1>0
  <2> QED BY <2>1, <2>2, <1>3 DEF Satisfied
<1>5. ASSUME NEW key, ~Satisfied(s, nbytes), Edited(s, key).key_buf_cnt < nbytes
      PROVE  ~Satisfied(Edited(s, key), nbytes)
  <2>1. c < nbytes /\ \A j \in 0..(nbytes - 1) : j < c => s.key_buf[j] # "n"
    BY <1>2, <1>5 DEF Satisfied
  <2>2. CASE key = "back" /\ c > 0
    <3>1. Edited(s, key) = [s EXCEPT !.key_buf_cnt = c - 1]
      BY <2>2 DEF Edited
    <3>2. Edited(s, key).key_buf_cnt = c - 1 /\ Edited(s, key).key_buf = s.key_buf
      BY <3>1 DEF Slot
    <3> QED BY <3>2, <2>1, <1>0 DEF Satisfied
  <2>3. CASE key = "char" /\ c < KEYBOARD_BUF_SIZE - 1
    <3>1. Edited(s, key) = Typed(s, "c")
      BY <2>3 DEF Edited
    <3>2. \A j \in 0..(nbytes - 1) : j \in Cell
      BY <1>0 DEF Cell
    <3>3. ASSUME NEW j \in 0..(nbytes - 1), j < c + 1
          PROVE  Typed(s, "c").key_buf[j] # "n"
      <4>1. CASE j = c
        BY <4>1, <2>1, <1>3
      <4>2. CASE j # c
        <5>1. j < c
          BY <4>2, <3>3, <1>0
        <5> QED BY <4>2, <5>1, <3>2, <2>1, <1>3
      <4> QED BY <4>1, <4>2
    <3>4. Typed(s, "c").key_buf_cnt = c + 1
      BY <2>1, <1>3
    <3>5. c + 1 < nbytes
      BY <3>1, <3>4, <1>5
    <3>6. ~(nbytes <= c + 1)
      BY <3>5, <1>0
    <3> QED BY <3>1, <3>3, <3>4, <3>6 DEF Satisfied
  <2>4. CASE ~(key = "back" /\ c > 0) /\ ~(key = "char" /\ c < KEYBOARD_BUF_SIZE - 1)
    BY <2>4, <1>5 DEF Edited
  <2> QED BY <2>2, <2>3, <2>4
<1> QED BY <1>0, <1>2, <1>4, <1>5 DEF Satisfied

\* The focus task is the foreground task of its terminal, which is open.
LEMMA FocusFacts ==
  ASSUME KernelInv, focus_task # NULL
  PROVE  /\ focus_task \in User
         /\ pcb[focus_task].terminal \in Opened
         /\ terminal_fg_task[pcb[focus_task].terminal] = focus_task
<1>1. Opened # {}
  BY DEF KernelInv, FocusIsForeground
<1>2. PICK i \in Opened : focus_task = terminal_fg_task[i]
  BY <1>1 DEF KernelInv, FocusIsForeground
<1> QED BY <1>2 DEF KernelInv, Foreground

-----------------------------------------------------------------------------
(***************************************************************************)
(* Steps that touch buffers, windows and the focus only.                    *)
(***************************************************************************)
LEMMA QuietStep ==
  ASSUME KernelInv, pcb[running].pc = "user",
         UNCHANGED <<schedVars, pcb, task_count, terminal_fg_task, page_id_running,
                     terminal_opened, ctxVars>>,
         terminal_slot' \in [Terminal -> Slot],
         \A i \in Terminal : terminal_slot'[i].valid = terminal_slot[i].valid,
         Undisturbed(terminal_slot'),
         focus_task' = focus_task \/ \E i \in Opened : focus_task' = terminal_fg_task[i],
         window_stack' \in Seq(Terminal), Injective(window_stack'),
         Windows(window_stack') = Windows(window_stack)
  PROVE  KernelStep
<1>1. UNCHANGED <<list, running, remain, where, cursor, woken, hw, running_term>>
  BY DEF schedVars, handlerVars, ctxVars
<1>2. SameTree
  BY <1>1 DEF SameTree
<1>3. Valid' = Valid /\ User' = User /\ Opened' = Opened
  BY <1>2, SameTasks
<1>4. Family' /\ NoRing' /\ Foreground' /\ Pages' /\ Mappings'
  BY <1>1, <1>2, TreeKept, MappingsKept
<1>5. FocusIsForeground'
  BY <1>2, FocusKept
<1>6. Readers' /\ WokenReaderSatisfied'
  BY <1>1, <1>2, ReadersKept
<1>7. QueueInv'
  BY QueueUnchanged DEF KernelInv
<1>8. Records'
  <2>1. focus_task' \in Task \cup {NULL}
    BY DEF KernelInv, Records, Opened
  <2> QED BY <2>1 DEF KernelInv, Records
<1>9. Slots' /\ HandlerInUser'
  BY <1>1 DEF KernelInv, Slots, FlagsMatchLists, HandlerInUser
<1>10. Stacked'
  <2>1. {window_stack'[k] : k \in DOMAIN window_stack'} = Opened
    BY DEF KernelInv, Stacked, Windows
  <2> QED BY <2>1, <1>3 DEF KernelInv, Stacked, Injective
<1> QED BY <1>1, <1>4, <1>5, <1>6, <1>7, <1>8, <1>9, <1>10
        DEF KernelStep, ParentStays, KernelInv

\* Nothing on the stack of windows has changed.
LEMMA StackFacts ==
  ASSUME KernelInv
  PROVE  /\ window_stack \in Seq(Terminal) /\ Injective(window_stack)
         /\ Windows(window_stack) = Opened
BY DEF KernelInv, Stacked, Injective, Windows

LEMMA PressOnWindowStep ==
  ASSUME KernelInv, NEW k \in 2..TERMINAL_MAX_COUNT, PressOnWindow(k)
  PROVE  KernelStep
<1> DEFINE i == window_stack[k]
<1>1. k \in DOMAIN window_stack
  BY StackFacts DEF PressOnWindow
<1>2. i \in Opened /\ i \in Terminal
  BY <1>1, StackFacts, UserFacts DEF Windows
<1>3. /\ window_stack' \in Seq(Terminal) /\ Injective(window_stack')
      /\ Windows(window_stack') = Windows(window_stack)
  <2>1. window_stack' = ToTop(window_stack, i)
    BY DEF PressOnWindow
  <2>2. Windows(window_stack) \cup {i} = Windows(window_stack)
    BY <1>2, StackFacts
  <2> HIDE DEF i
  <2> QED BY <1>2, <2>1, <2>2, StackFacts, ToTopFacts
<1>4. focus_task' = focus_task \/ \E j \in Opened : focus_task' = terminal_fg_task[j]
  BY <1>2 DEF PressOnWindow, task_change_focus
<1>5. /\ UNCHANGED <<schedVars, pcb, task_count, terminal_fg_task, page_id_running,
                     terminal_opened, terminal_slot, ctxVars>>
      /\ pcb[running].pc = "user"
  BY DEF PressOnWindow, InUser, taskVars
<1>6. terminal_slot' \in [Terminal -> Slot] /\ Undisturbed(terminal_slot')
  BY <1>5, NobodyDisturbed DEF KernelInv, Records
<1> QED BY <1>3, <1>4, <1>5, <1>6, QuietStep

-----------------------------------------------------------------------------
(***************************************************************************)
(* Keys.                                                                    *)
(***************************************************************************)

\* The foreground task that a key wakes runs next.  If it was not asleep, it may
\* have been moved out of the list it was in, and the invariant says no more of the
\* lists; its kin, terminal, page and mappings are what they were.
LEMMA WakeUp ==
  ASSUME KernelInv, InUser, NEW i, NEW f \in User, where[f] # wait4child_list,
         NEW b \in [Terminal -> Slot], wake_reader(i, f, b),
         \A j \in Terminal : b[j].valid = terminal_slot[j].valid,
         focus_task' = focus_task \/ \E j \in Opened : focus_task' = terminal_fg_task[j],
         UNCHANGED <<task_count, terminal_opened, window_stack, terminal_fg_task,
                     page_id_running>>
  PROVE  /\ World' /\ ParentStays /\ SameTree /\ NoRing'
         /\ running' = f /\ f \in Task /\ f # InitTask /\ f # IdleTask
         /\ \A t \in Task : where'[t] = IF t = f THEN run_queue ELSE where[t]
         /\ \A t \in Task :
              /\ pcb'[t].valid = pcb[t].valid
              /\ pcb'[t].terminal = pcb[t].terminal
              /\ pcb'[t].pc = pcb[t].pc /\ pcb'[t].nbytes = pcb[t].nbytes
              /\ \A g \in Flag \ {"WAITING_TERMINAL"} :
                   g \in pcb'[t].flags <=> g \in pcb[t].flags
              /\ "WAITING_TERMINAL" \in pcb'[t].flags
                   <=> t # f /\ "WAITING_TERMINAL" \in pcb[t].flags
              /\ t # f => pcb'[t] = pcb[t]
<1>1. /\ pcb' = [pcb EXCEPT ![f].flags = @ \ {"WAITING_TERMINAL"}]
      /\ where' = [where EXCEPT ![f] = run_queue]
      /\ remain' = sched_refill_time(remain, f)
      /\ terminal_slot' = b
      /\ Launch(sched_insert_to_head(list, f))
  BY DEF wake_reader
<1>2. /\ f \in Task /\ f # IdleTask /\ f # InitTask /\ pcb \in [Task -> Pcb]
      /\ where \in [Task -> Lists \cup {temp_list}]
      /\ remain \in [Task -> 0..SCHED_TASK_TICKS] /\ list \in Heap
  BY UserFacts DEF KernelInv, Records, QueueInv, Sound
<1>3. list' \in Heap /\ running' = f
  BY <1>1, <1>2, HeadIsLaunched DEF Launch, sched_launch_to_current_head
<1>4. pcb' \in [Task -> Pcb]
  BY <1>1, <1>2 DEF Pcb
<1>5. \A t \in Task :
         /\ pcb'[t].valid = pcb[t].valid /\ pcb'[t].parent = pcb[t].parent
         /\ pcb'[t].terminal = pcb[t].terminal /\ pcb'[t].page_id = pcb[t].page_id
         /\ pcb'[t].vidmap_enabled = pcb[t].vidmap_enabled
         /\ pcb'[t].pc = pcb[t].pc /\ pcb'[t].nbytes = pcb[t].nbytes
         /\ \A g \in Flag \ {"WAITING_TERMINAL"} : g \in pcb'[t].flags <=> g \in pcb[t].flags
         /\ "WAITING_TERMINAL" \in pcb'[t].flags
              <=> t # f /\ "WAITING_TERMINAL" \in pcb[t].flags
         /\ t # f => pcb'[t] = pcb[t]
  BY <1>1, <1>2 DEF Pcb
<1>6. \A t \in Task : where'[t] = IF t = f THEN run_queue ELSE where[t]
  BY <1>1, <1>2
<1>7. SameTree
  BY <1>1, <1>5, <1>6, Distinct DEF SameTree, Flag
<1>8. Valid' = Valid /\ User' = User /\ Opened' = Opened
  BY <1>7, SameTasks
<1>9. Family' /\ NoRing' /\ Foreground' /\ Pages' /\ FocusIsForeground'
  BY <1>7, TreeKept, FocusKept
<1>10. Mappings'
  <2>1. pcb[f].valid /\ pcb[f].terminal \in terminal_opened
    BY <1>2, UserFacts DEF KernelInv, Stacked
  <2>2. SwitchMappings(running', terminal_opened)
    BY <1>1 DEF Launch, SwitchContext, sched_launch_to_current_head
  <2> QED BY <2>1, <2>2, <1>2, <1>3, <1>5, <1>8, UserFacts, SwitchGood
<1>11. Records' /\ Stacked'
  <2>1. focus_task' \in Task \cup {NULL}
    BY DEF KernelInv, Records, Opened
  <2> QED BY <2>1, <1>1, <1>4, <1>8 DEF KernelInv, Records, Stacked
<1>12. /\ where' \in [Task -> Lists \cup {temp_list}]
       /\ remain' \in [Task -> 0..SCHED_TASK_TICKS]
  BY <1>1, <1>2, Distinct, RefillType
<1>13. \A t \in Task : "WAITING_CHILD" \in pcb'[t].flags <=> where'[t] = wait4child_list
  BY <1>5, <1>6, Distinct DEF KernelInv, Slots, FlagsMatchLists, Flag
<1>14. /\ pcb'[running'].valid
       /\ \A t \in Task : ~pcb'[t].valid => pcb'[t] = FreePcb
       /\ pcb'[InitTask] = KernelPcb /\ pcb'[IdleTask] = KernelPcb
  BY <1>2, <1>3, <1>5, UserFacts, Sentinels DEF KernelInv, Slots
<1>15. World'
  BY <1>2, <1>3, <1>9, <1>10, <1>11, <1>12, <1>13, <1>14 DEF World
<1>16. ParentStays
  BY <1>6, Distinct DEF ParentStays
<1> QED BY <1>2, <1>3, <1>5, <1>6, <1>7, <1>9, <1>15, <1>16

\* When it was asleep in a read of the key's terminal, it finds what it waited for.
LEMMA WakeReaderStep ==
  ASSUME KernelInv, InUser, NEW i \in Terminal, NEW f \in User, ReadsFrom(i, f),
         NEW b \in [Terminal -> Slot], wake_reader(i, f, b),
         \A j \in Terminal : /\ b[j].valid = terminal_slot[j].valid
                             /\ b[j].user_ask_len = terminal_slot[j].user_ask_len
                             /\ j # i => b[j] = terminal_slot[j],
         Satisfied(b[i], pcb[f].nbytes),
         focus_task' = focus_task \/ \E j \in Opened : focus_task' = terminal_fg_task[j],
         UNCHANGED <<task_count, terminal_opened, window_stack, terminal_fg_task,
                     page_id_running>>
  PROVE  KernelStep
<1>1. /\ UNCHANGED <<cursor, woken>> /\ cursor = NoNode /\ pcb[running].pc = "user"
      /\ where' = [where EXCEPT ![f] = run_queue]
      /\ remain' = sched_refill_time(remain, f)
      /\ terminal_slot' = b
      /\ Launch(sched_insert_to_head(list, f))
  BY DEF wake_reader, handlerVars, InUser, Interruptible
<1>2. /\ pcb[f].terminal = i /\ pcb[f].pc = "read" /\ f \in Task
      /\ where[f] = terminal_wait_list
  BY UserFacts DEF ReadsFrom
<1>3. where[f] # wait4child_list
  BY <1>2, Distinct
<1>4. GoodStep
  BY <1>1, <1>2, Distinct, WakeStep DEF KernelInv, Launch, handlerVars, Interruptible
<1>5. /\ World' /\ ParentStays /\ SameTree /\ NoRing'
      /\ running' = f /\ f # InitTask /\ f # IdleTask
      /\ \A t \in Task : where'[t] = IF t = f THEN run_queue ELSE where[t]
      /\ \A t \in Task :
           /\ pcb'[t].valid = pcb[t].valid
           /\ pcb'[t].terminal = pcb[t].terminal
           /\ pcb'[t].pc = pcb[t].pc /\ pcb'[t].nbytes = pcb[t].nbytes
           /\ \A g \in Flag \ {"WAITING_TERMINAL"} :
                g \in pcb'[t].flags <=> g \in pcb[t].flags
           /\ "WAITING_TERMINAL" \in pcb'[t].flags
                <=> t # f /\ "WAITING_TERMINAL" \in pcb[t].flags
           /\ t # f => pcb'[t] = pcb[t]
  BY <1>3, WakeUp
<1>6. Valid' = Valid /\ User' = User /\ Opened' = Opened
  BY <1>5, SameTasks
<1>7. \A t \in Task : pcb[t].pc = "read" =>
          /\ t \in User /\ where[t] = terminal_wait_list
          /\ pcb[t].terminal \in Terminal
          /\ t # f => pcb[t].terminal # i
  <2> SUFFICES ASSUME NEW t \in Task, pcb[t].pc = "read"
               PROVE  /\ t \in User /\ where[t] = terminal_wait_list
                      /\ pcb[t].terminal \in Terminal
                      /\ t # f => pcb[t].terminal # i
    OBVIOUS
  <2>1. t \in User /\ where[t] = terminal_wait_list
    BY <1>1 DEF KernelInv, Readers
  <2>2. terminal_fg_task[pcb[t].terminal] = t /\ terminal_fg_task[i] = f
    BY <2>1, <1>2, SleeperFacts
  <2> QED BY <2>1, <2>2, UserFacts
<1>8. Readers'
  <2>1. \A t \in Task : pcb'[t].pc = "read" =>
          /\ t \in User
          /\ where'[t] = terminal_wait_list \/ t = running'
          /\ pcb'[t].nbytes \in 1..KEYBOARD_BUF_SIZE
          /\ terminal_slot'[pcb'[t].terminal].user_ask_len = pcb'[t].nbytes
    BY <1>1, <1>5, <1>7 DEF KernelInv, Readers
  <2>2. \A t \in Task : where'[t] = terminal_wait_list =>
          /\ pcb'[t].pc = "read"
          /\ ~Satisfied(terminal_slot'[pcb'[t].terminal], pcb'[t].nbytes)
    <3> SUFFICES ASSUME NEW t \in Task, where'[t] = terminal_wait_list
                 PROVE  /\ pcb'[t].pc = "read"
                        /\ ~Satisfied(terminal_slot'[pcb'[t].terminal], pcb'[t].nbytes)
      OBVIOUS
    <3>1. t # f /\ where[t] = terminal_wait_list /\ pcb'[t] = pcb[t]
      BY <1>5, Distinct
    <3>2. pcb[t].pc = "read" /\ ~Satisfied(terminal_slot[pcb[t].terminal], pcb[t].nbytes)
      BY <3>1, SleeperFacts
    <3>3. terminal_slot'[pcb[t].terminal] = terminal_slot[pcb[t].terminal]
      BY <3>1, <3>2, <1>1, <1>7
    <3> QED BY <3>1, <3>2, <3>3
  <2> QED BY <2>1, <2>2, <1>6 DEF Readers
<1>9. WokenReaderSatisfied'
  <2> SUFFICES ASSUME NEW t \in Task, pcb'[t].pc = "read", where'[t] = run_queue
               PROVE  Satisfied(terminal_slot'[pcb'[t].terminal], pcb'[t].nbytes)
    BY <1>6 DEF WokenReaderSatisfied, Valid
  <2>1. t = f
    BY <1>5, <1>7, Distinct
  <2> QED BY <2>1, <1>1, <1>2, <1>5
<1>10. Slots'
  <2>1. FlagsMatchLists'
    BY <1>2, <1>5, UserFacts, Distinct DEF KernelInv, Slots, FlagsMatchLists, Flag
  <2> QED BY <2>1, <1>5, Sentinels DEF KernelInv, Slots, World
<1>11. HandlerInUser'
  BY <1>1 DEF HandlerInUser
<1> QED BY <1>4, <1>5, <1>8, <1>9, <1>10, <1>11
        DEF KernelStep, KernelInv, World, GoodStep

\* One control block is written: nobody's request has changed.
LEMMA BufferWritten ==
  ASSUME KernelInv, NEW i \in Terminal, NEW s \in Slot,
         s.valid = terminal_slot[i].valid, s.user_ask_len = terminal_slot[i].user_ask_len
  PROVE  LET b == [terminal_slot EXCEPT ![i] = s]
         IN  /\ b \in [Terminal -> Slot]
             /\ b[i] = s
             /\ \A j \in Terminal :
                  /\ b[j].valid = terminal_slot[j].valid
                  /\ b[j].user_ask_len = terminal_slot[j].user_ask_len
                  /\ j # i => b[j] = terminal_slot[j]
BY DEF KernelInv, Records

\* What a key does: all is well, or it has woken a task that did not wait for it.
KeyOutcome == KernelStep \/ (misled' /\ World' /\ ParentStays)

\* A key that wakes f for terminal i.
LEMMA KeyWakes ==
  ASSUME KernelInv, InUser, NEW i \in Terminal, NEW f,
         (f = focus_task /\ focus_task # NULL) \/ \E j \in Opened : f = terminal_fg_task[j],
         NEW b \in [Terminal -> Slot], wake_reader(i, f, b),
         \A j \in Terminal : /\ b[j].valid = terminal_slot[j].valid
                             /\ b[j].user_ask_len = terminal_slot[j].user_ask_len
                             /\ j # i => b[j] = terminal_slot[j],
         ReadsFrom(i, f) => Satisfied(b[i], pcb[f].nbytes),
         focus_task' = focus_task \/ \E j \in Opened : focus_task' = terminal_fg_task[j],
         UNCHANGED <<task_count, terminal_opened, window_stack, terminal_fg_task,
                     page_id_running>>
  PROVE  KeyOutcome
<1>1. f \in User /\ where[f] # wait4child_list
  <2>1. PICK j \in Opened : f = terminal_fg_task[j]
    BY FocusFacts
  <2>2. f \in User /\ pcb[f].terminal = j
    BY <2>1 DEF KernelInv, Foreground
  <2> QED BY <2>1, <2>2 DEF KernelInv, Foreground
<1>2. CASE ReadsFrom(i, f)
  BY <1>1, <1>2, WakeReaderStep DEF KeyOutcome
<1>3. CASE ~ReadsFrom(i, f)
  <2>1. misled'
    BY <1>3 DEF wake_reader
  <2>2. World' /\ ParentStays
    BY <1>1, WakeUp
  <2> QED BY <2>1, <2>2 DEF KeyOutcome
<1> QED BY <1>2, <1>3

LEMMA KeyEnterStep == KernelInv /\ KeyEnter => KeyOutcome
<1> SUFFICES ASSUME KernelInv, KeyEnter PROVE KeyOutcome
  OBVIOUS
<1> DEFINE i == pcb[focus_task].terminal
           s == terminal_slot[i]
<1>1. /\ InUser /\ focus_task # NULL /\ pcb[running].pc = "user"
      /\ UNCHANGED <<task_count, terminal_opened, window_stack, focus_task,
                     terminal_fg_task, page_id_running>>
  BY DEF KeyEnter, InUser, focusVars
<1>2. i \in Opened /\ i \in Terminal
  BY <1>1, FocusFacts, UserFacts
<1>3. s \in Slot
  BY <1>2 DEF KernelInv, Records
<1>4. CASE s.user_ask_len # 0
  <2> DEFINE b == [terminal_slot EXCEPT ![i] = Typed(s, "n")]
  <2>1. wake_reader(i, focus_task, b)
    BY <1>4 DEF KeyEnter
  <2>2. /\ Typed(s, "n") \in Slot /\ Typed(s, "n").valid = s.valid
        /\ Typed(s, "n").user_ask_len = s.user_ask_len
    BY <1>3, SlotKept
  <2>3. /\ b \in [Terminal -> Slot] /\ b[i] = Typed(s, "n")
        /\ \A j \in Terminal : /\ b[j].valid = terminal_slot[j].valid
                               /\ b[j].user_ask_len = terminal_slot[j].user_ask_len
                               /\ j # i => b[j] = terminal_slot[j]
    BY <2>2, <1>2, BufferWritten
  <2>4. ReadsFrom(i, focus_task) => Satisfied(b[i], pcb[focus_task].nbytes)
    <3> SUFFICES ASSUME ReadsFrom(i, focus_task)
                 PROVE  Satisfied(Typed(s, "n"), pcb[focus_task].nbytes)
      BY <2>3
    <3>1. focus_task \in Task /\ where[focus_task] = terminal_wait_list
      BY <1>1, FocusFacts, UserFacts DEF ReadsFrom
    <3>2. pcb[focus_task].nbytes \in 1..KEYBOARD_BUF_SIZE /\ KEYBOARD_BUF_SIZE \in Nat
          /\ ~Satisfied(s, pcb[focus_task].nbytes)
      BY <3>1, SleeperFacts, TerminalAssumption
    <3> QED BY <3>2, <1>3, ReadEnds
  <2> HIDE DEF b, i, s
  <2> QED BY <2>1, <2>3, <2>4, <1>1, <1>2, KeyWakes
<1>5. CASE s.user_ask_len = 0
  <2> DEFINE s2 == [s EXCEPT !.key_buf_cnt = 0]
             b == [terminal_slot EXCEPT ![i] = s2]
  <2>1. NoWake(b)
    BY <1>5 DEF KeyEnter
  <2>2. s2 \in Slot /\ s2.valid = s.valid /\ s2.user_ask_len = s.user_ask_len
    BY <1>3 DEF Slot
  <2> HIDE DEF s2
  <2>3. /\ b \in [Terminal -> Slot]
        /\ \A j \in Terminal : /\ b[j].valid = terminal_slot[j].valid
                               /\ j # i => b[j] = terminal_slot[j]
    BY <2>2, <1>2, BufferWritten
  <2>4. \A t \in Task : where[t] = terminal_wait_list => pcb[t].terminal # i
    BY <1>5, SleeperFacts
  <2> HIDE DEF b, i, s
  <2>5. Undisturbed(b)
    BY <2>3, <2>4, <1>2, OthersUndisturbed
  <2>6. terminal_slot' = b /\ UNCHANGED <<schedVars, pcb, ctxVars>>
    BY <2>1 DEF NoWake
  <2>7. /\ window_stack' \in Seq(Terminal) /\ Injective(window_stack')
        /\ Windows(window_stack') = Windows(window_stack)
    BY <1>1, StackFacts
  <2>8. Undisturbed(terminal_slot')
    BY <2>5, <2>6
  <2> QED BY <2>3, <2>6, <2>7, <2>8, <1>1, QuietStep DEF KeyOutcome
<1> QED BY <1>4, <1>5

LEMMA KeyOtherStep ==
  ASSUME KernelInv, NEW key, NEW fn \in Terminal \cup {NULL}, KeyOther(key, fn)
  PROVE  KeyOutcome
<1> DEFINE i == pcb[focus_task].terminal
           focus == IF fn = NULL THEN focus_task ELSE task_change_focus(fn)
           old == terminal_slot[i]
           s == Edited(old, key)
           ask == s.user_ask_len
           b == [terminal_slot EXCEPT ![i] = s]
<1>1. /\ InUser /\ focus_task # NULL /\ pcb[running].pc = "user"
      /\ UNCHANGED <<task_count, terminal_opened, window_stack,
                     terminal_fg_task, page_id_running>>
      /\ focus_task' = focus
      /\ IF ask > 0 /\ s.key_buf_cnt >= ask THEN wake_reader(i, focus, b) ELSE NoWake(b)
  BY DEF KeyOther, InUser
<1>2. i \in Opened /\ i \in Terminal
  BY <1>1, FocusFacts, UserFacts
<1>3. old \in Slot
  BY <1>2 DEF KernelInv, Records
<1>4. s \in Slot /\ s.valid = old.valid /\ ask = old.user_ask_len
  BY <1>3, SlotKept
<1>5. ask \in Nat /\ s.key_buf_cnt \in Nat /\ KEYBOARD_BUF_SIZE \in Nat
  BY <1>4, TerminalAssumption DEF Slot
<1>6. focus = focus_task \/ \E j \in Opened : focus = terminal_fg_task[j]
  <2>1. CASE fn = NULL
    BY <2>1
  <2>2. CASE fn # NULL /\ fn \in Opened
    BY <2>2 DEF task_change_focus
  <2>3. CASE fn # NULL /\ fn \notin Opened
    BY <2>3 DEF task_change_focus, KernelInv, Foreground
  <2> QED BY <2>1, <2>2, <2>3
<1>7. ASSUME NEW t \in Task, where[t] = terminal_wait_list, pcb[t].terminal = i
      PROVE  /\ ask = pcb[t].nbytes /\ pcb[t].nbytes \in Nat /\ pcb[t].nbytes # 0
             /\ pcb[t].nbytes <= KEYBOARD_BUF_SIZE
             /\ ~Satisfied(old, pcb[t].nbytes)
  BY <1>4, <1>5, <1>7, SleeperFacts
<1> HIDE DEF i, old, focus
<1>8. /\ b \in [Terminal -> Slot] /\ b[i] = s
      /\ \A j \in Terminal : /\ b[j].valid = terminal_slot[j].valid
                             /\ b[j].user_ask_len = terminal_slot[j].user_ask_len
                             /\ j # i => b[j] = terminal_slot[j]
  BY <1>2, <1>4, BufferWritten DEF old
<1>9. CASE ask > 0 /\ s.key_buf_cnt >= ask
  <2>1. wake_reader(i, focus, b)
    BY <1>1, <1>9
  <2>2. ReadsFrom(i, focus) => Satisfied(b[i], pcb[focus].nbytes)
    <3> SUFFICES ASSUME ReadsFrom(i, focus) PROVE Satisfied(s, pcb[focus].nbytes)
      BY <1>8
    <3>1. focus \in Task
      BY <1>1, <1>6, FocusFacts, UserFacts DEF KernelInv, Foreground
    <3>2. /\ ask = pcb[focus].nbytes /\ pcb[focus].nbytes \in Nat
          /\ pcb[focus].nbytes <= KEYBOARD_BUF_SIZE
      BY <3>1, <1>7 DEF ReadsFrom
    <3> HIDE DEF s
    <3> QED BY <3>2, <1>4, <1>9, ReadEnds
  <2> HIDE DEF b, s
  <2> QED BY <2>1, <2>2, <1>1, <1>2, <1>6, <1>8, KeyWakes
<1>10. CASE ~(ask > 0 /\ s.key_buf_cnt >= ask)
  <2>1. terminal_slot' = b /\ UNCHANGED <<schedVars, pcb, ctxVars>>
    BY <1>1, <1>10 DEF NoWake
  <2>2. Undisturbed(b)
    <3> SUFFICES ASSUME NEW t \in Task, where[t] = terminal_wait_list
                 PROVE  /\ b[pcb[t].terminal].user_ask_len = pcb[t].nbytes
                        /\ ~Satisfied(b[pcb[t].terminal], pcb[t].nbytes)
      BY DEF Undisturbed
    <3>1. CASE pcb[t].terminal # i
      BY <3>1, <1>8, SleeperFacts
    <3>2. CASE pcb[t].terminal = i
      <4>1. /\ ask = pcb[t].nbytes /\ pcb[t].nbytes \in Nat /\ pcb[t].nbytes # 0
            /\ pcb[t].nbytes <= KEYBOARD_BUF_SIZE
            /\ ~Satisfied(old, pcb[t].nbytes)
        BY <3>2, <1>7
      <4>2. s.key_buf_cnt < pcb[t].nbytes
        BY <4>1, <1>5, <1>10
      <4>3. ~Satisfied(s, pcb[t].nbytes)
        BY <4>1, <4>2, <1>3, ReadEnds
      <4> QED BY <3>2, <4>1, <4>3, <1>8
    <3> QED BY <3>1, <3>2
  <2>3. Undisturbed(terminal_slot')
    BY <2>1, <2>2
  <2>4. /\ window_stack' \in Seq(Terminal) /\ Injective(window_stack')
        /\ Windows(window_stack') = Windows(window_stack)
    BY <1>1, StackFacts
  <2> HIDE DEF b, s
  <2> QED BY <2>1, <2>3, <2>4, <1>1, <1>6, <1>8, QuietStep DEF KeyOutcome
<1> QED BY <1>9, <1>10

-----------------------------------------------------------------------------
(***************************************************************************)
(* Reads that end, and reads that sleep.                                    *)
(***************************************************************************)
LEMMA FinishRead ==
  ASSUME KernelInv, NEW i \in Terminal, NEW nbytes \in Nat, finish_read(i, nbytes)
  PROVE  /\ terminal_slot' \in [Terminal -> Slot]
         /\ \A j \in Terminal : /\ terminal_slot'[j].valid = terminal_slot[j].valid
                                /\ j # i => terminal_slot'[j] = terminal_slot[j]
         /\ terminal_slot'[i].user_ask_len = 0
<1> DEFINE rest == Consumed(terminal_slot[i], nbytes)
<1>1. terminal_slot \in [Terminal -> Slot]
  BY DEF KernelInv, Records
<1>2. rest \in Slot /\ rest.valid = terminal_slot[i].valid
  BY <1>1, SlotKept
<1>3. terminal_slot' = [terminal_slot EXCEPT ![i] = [rest EXCEPT !.user_ask_len = 0]]
  BY DEF finish_read
<1> HIDE DEF rest
<1>4. 0 \in 0..KEYBOARD_BUF_SIZE
  BY TerminalAssumption
<1>5. /\ [rest EXCEPT !.user_ask_len = 0] \in Slot
      /\ [rest EXCEPT !.user_ask_len = 0].valid = rest.valid
      /\ [rest EXCEPT !.user_ask_len = 0].user_ask_len = 0
  BY <1>2, <1>4 DEF Slot
<1> QED BY <1>1, <1>2, <1>3, <1>5

\* What a user program that runs is.
LEMMA RunningUser ==
  ASSUME KernelInv, UserTaskRuns
  PROVE  /\ running \in User /\ running \in Task
         /\ pcb[running].pc = "user" /\ cursor = NoNode
         /\ where[running] = run_queue
         /\ pcb[running].terminal \in Opened /\ pcb[running].terminal \in Terminal
         /\ terminal_fg_task[pcb[running].terminal] = running
         /\ \A t \in Task : where[t] = terminal_wait_list
                          => pcb[t].terminal # pcb[running].terminal
<1>1. /\ running \in User /\ running \in Task /\ pcb[running].pc = "user"
      /\ cursor = NoNode /\ where[running] = run_queue
      /\ pcb[running].terminal \in Opened /\ pcb[running].terminal \in Terminal
  BY UserFacts DEF UserTaskRuns, InUser, Interruptible, KernelInv, QueueInv
<1>2. terminal_fg_task[pcb[running].terminal] = running
  BY <1>1, Distinct DEF KernelInv, Foreground
<1>3. \A t \in Task : where[t] = terminal_wait_list
                     => pcb[t].terminal # pcb[running].terminal
  BY <1>1, <1>2, SleeperFacts, Sentinels
<1> QED BY <1>1, <1>2, <1>3

LEMMA ReadAtOnceStep ==
  ASSUME KernelInv, NEW nbytes \in ReadSizes, TerminalRead(nbytes),
         Satisfied(terminal_slot[pcb[running].terminal], nbytes)
  PROVE  KernelStep
<1> DEFINE i == pcb[running].terminal
<1>1. /\ UserTaskRuns /\ finish_read(i, nbytes)
      /\ UNCHANGED <<schedVars, pcb, ctxVars, task_count, terminal_opened,
                     window_stack, focus_task, terminal_fg_task, page_id_running>>
  BY DEF TerminalRead, focusVars
<1>2. /\ pcb[running].pc = "user" /\ i \in Terminal
      /\ \A t \in Task : where[t] = terminal_wait_list => pcb[t].terminal # i
  BY <1>1, RunningUser
<1>3. nbytes \in Nat
  BY TerminalAssumption DEF ReadSizes
<1> HIDE DEF i
<1>4. /\ terminal_slot' \in [Terminal -> Slot]
      /\ \A j \in Terminal : /\ terminal_slot'[j].valid = terminal_slot[j].valid
                             /\ j # i => terminal_slot'[j] = terminal_slot[j]
  BY <1>1, <1>2, <1>3, FinishRead
<1>5. Undisturbed(terminal_slot')
  BY <1>2, <1>4, OthersUndisturbed
<1>6. /\ window_stack' \in Seq(Terminal) /\ Injective(window_stack')
      /\ Windows(window_stack') = Windows(window_stack)
  BY <1>1, StackFacts
<1> QED BY <1>1, <1>2, <1>4, <1>5, <1>6, QuietStep

\* The task that runs goes to a wait list, and another one is launched.
LEMMA SleeperStep ==
  ASSUME KernelInv, UserTaskRuns, NEW w \in {rtc_wait_list, terminal_wait_list},
         w = rtc_wait_list => pcb[running].parent # NULL,
         where' = [where EXCEPT ![running] = w], UNCHANGED <<remain, handlerVars>>,
         Launch(move_task_after_node(list, running, w)),
         UNCHANGED <<task_count, terminal_opened, window_stack, focusVars,
                     page_id_running>>,
         pcb' \in [Task -> Pcb], terminal_slot' \in [Terminal -> Slot],
         \A t \in Task :
            /\ pcb'[t].valid = pcb[t].valid /\ pcb'[t].parent = pcb[t].parent
            /\ pcb'[t].terminal = pcb[t].terminal /\ pcb'[t].page_id = pcb[t].page_id
            /\ pcb'[t].vidmap_enabled = pcb[t].vidmap_enabled
            /\ t # running => pcb'[t] = pcb[t],
         \A f \in {"WAITING_CHILD", "TERMINAL_OWNER"} :
            f \in pcb'[running].flags <=> f \in pcb[running].flags,
         "WAITING_TERMINAL" \in pcb'[running].flags <=> w = terminal_wait_list,
         \A i \in Terminal : terminal_slot'[i].valid = terminal_slot[i].valid,
         SameTree => Readers' /\ WokenReaderSatisfied'
  PROVE  KernelStep
<1>1. /\ running \in User /\ running \in Task /\ where[running] = run_queue
      /\ UNCHANGED <<cursor, woken, remain, task_count, terminal_opened, window_stack,
                     focus_task, terminal_fg_task, page_id_running>>
      /\ cursor = NoNode /\ running # InitTask /\ running # IdleTask
      /\ where \in [Task -> Lists \cup {temp_list}]
  BY RunningUser, UserFacts DEF handlerVars, focusVars, KernelInv, QueueInv, Sound
<1>2. w \in WaitLists /\ w # run_queue /\ w # wait4child_list /\ w # temp_list
  BY Distinct, Sentinels
<1>3. GoodStep
  BY <1>1, <1>2, SleepStep DEF KernelInv, Launch, Interruptible
<1>4. \A t \in Task : where'[t] = IF t = running THEN w ELSE where[t]
  BY <1>1
<1>5. running' \in Task /\ where'[running'] = run_queue
  BY <1>3 DEF GoodStep, QueueInv
<1>6. running' # running /\ where[running'] = run_queue
  BY <1>2, <1>4, <1>5
<1>7. SameTree
  <2>1. \A t \in Task :
          /\ "TERMINAL_OWNER" \in pcb'[t].flags <=> "TERMINAL_OWNER" \in pcb[t].flags
          /\ where'[t] = wait4child_list <=> where[t] = wait4child_list
          /\ where'[t] = rtc_wait_list => where[t] = rtc_wait_list \/ pcb[t].parent # NULL
    BY <1>1, <1>2, <1>4, Distinct
  <2> QED BY <2>1, <1>1 DEF SameTree
<1>8. Valid' = Valid /\ User' = User /\ Opened' = Opened
  BY <1>7, SameTasks
<1>9. Family' /\ NoRing' /\ Foreground' /\ Pages' /\ FocusIsForeground'
  BY <1>1, <1>7, TreeKept, FocusKept
<1>10. Mappings'
  <2>1. pcb[running'].valid
    BY <1>5, <1>6, Distinct DEF KernelInv, Slots, FlagsMatchLists
  <2>2. pcb[running'].terminal # NULL => pcb[running'].terminal \in terminal_opened
    BY <1>5, UserFacts DEF KernelInv, Stacked
  <2>3. SwitchMappings(running', terminal_opened)
    BY DEF Launch, SwitchContext, sched_launch_to_current_head
  <2> QED BY <2>1, <2>2, <2>3, <1>5, <1>8, UserFacts, SwitchGood
<1>11. Slots'
  <2>1. FlagsMatchLists'
    BY <1>1, <1>2, <1>4, UserFacts, Distinct
       DEF KernelInv, Slots, FlagsMatchLists, Flag
  <2>2. \A t \in Task : ~pcb'[t].valid => pcb'[t] = FreePcb
    BY <1>1, UserFacts DEF KernelInv, Slots
  <2> QED BY <2>1, <2>2, <1>1, <1>4, Sentinels DEF KernelInv, Slots
<1>12. Records' /\ Stacked' /\ HandlerInUser' /\ ParentStays
  BY <1>1, <1>4, <1>8, Distinct
     DEF KernelInv, Records, Stacked, HandlerInUser, ParentStays
<1> QED BY <1>3, <1>7, <1>9, <1>10, <1>11, <1>12
        DEF KernelStep, KernelInv, GoodStep

LEMMA ReadSleepsStep ==
  ASSUME KernelInv, NEW nbytes \in ReadSizes, TerminalRead(nbytes),
         ~Satisfied(terminal_slot[pcb[running].terminal], nbytes)
  PROVE  KernelStep
<1> DEFINE i == pcb[running].terminal
<1>1. /\ UserTaskRuns
      /\ terminal_slot' = [terminal_slot EXCEPT ![i].user_ask_len = nbytes]
      /\ pcb' = [pcb EXCEPT ![running].flags = @ \cup {"WAITING_TERMINAL"},
                            ![running].pc = "read",
                            ![running].nbytes = nbytes]
      /\ where' = [where EXCEPT ![running] = terminal_wait_list]
      /\ UNCHANGED <<remain, handlerVars>>
      /\ Launch(move_task_after_node(list, running, terminal_wait_list))
      /\ UNCHANGED <<task_count, terminal_opened, window_stack, focusVars,
                     page_id_running>>
  BY DEF TerminalRead
<1>2. /\ running \in User /\ running \in Task /\ pcb[running].pc = "user"
      /\ i \in Opened /\ i \in Terminal
      /\ terminal_fg_task[i] = running
  BY <1>1, RunningUser
<1>3. /\ pcb \in [Task -> Pcb] /\ terminal_slot \in [Terminal -> Slot]
      /\ where \in [Task -> Lists \cup {temp_list}]
      /\ nbytes \in 1..KEYBOARD_BUF_SIZE /\ nbytes \in 0..KEYBOARD_BUF_SIZE
      /\ KEYBOARD_BUF_SIZE \in Nat
  BY TerminalAssumption DEF ReadSizes, KernelInv, Records, QueueInv, Sound
<1>4. ~Satisfied(terminal_slot[i], nbytes)
  OBVIOUS
<1> HIDE DEF i
<1>5. /\ terminal_slot' \in [Terminal -> Slot]
      /\ \A j \in Terminal : /\ terminal_slot'[j].valid = terminal_slot[j].valid
                             /\ j # i => terminal_slot'[j] = terminal_slot[j]
      /\ terminal_slot'[i].user_ask_len = nbytes
      /\ ~Satisfied(terminal_slot'[i], nbytes)
  BY <1>1, <1>2, <1>3, <1>4 DEF Slot, Satisfied
<1>6. pcb' \in [Task -> Pcb]
  <2>1. pcb[running].flags \cup {"WAITING_TERMINAL"} \in SUBSET Flag
    BY <1>2, <1>3 DEF Pcb, Flag
  <2> QED BY <2>1, <1>1, <1>2, <1>3 DEF Pcb
<1>7. /\ \A t \in Task :
            /\ pcb'[t].valid = pcb[t].valid /\ pcb'[t].parent = pcb[t].parent
            /\ pcb'[t].terminal = pcb[t].terminal /\ pcb'[t].page_id = pcb[t].page_id
            /\ pcb'[t].vidmap_enabled = pcb[t].vidmap_enabled
            /\ t # running => pcb'[t] = pcb[t]
      /\ pcb'[running].flags = pcb[running].flags \cup {"WAITING_TERMINAL"}
      /\ pcb'[running].pc = "read" /\ pcb'[running].nbytes = nbytes
  BY <1>1, <1>2, <1>3 DEF Pcb
<1>8. ASSUME SameTree
      PROVE  Readers' /\ WokenReaderSatisfied'
  <2>1. Valid' = Valid /\ User' = User /\ Opened' = Opened
        /\ terminal_fg_task' = terminal_fg_task
    BY <1>1, <1>8, SameTasks DEF focusVars
  <2>2. \A t \in Task : where'[t] = IF t = running THEN terminal_wait_list ELSE where[t]
    BY <1>1, <1>2, <1>3
  <2>3. \A t \in Task : pcb[t].pc = "read" =>
           /\ t # running /\ t \in User /\ where[t] = terminal_wait_list
           /\ pcb[t].terminal \in Terminal /\ pcb[t].terminal # i
    <3> SUFFICES ASSUME NEW t \in Task, pcb[t].pc = "read"
                 PROVE  /\ t # running /\ t \in User /\ where[t] = terminal_wait_list
                        /\ pcb[t].terminal \in Terminal /\ pcb[t].terminal # i
      OBVIOUS
    <3>1. t # running /\ t \in User /\ where[t] = terminal_wait_list
      BY <1>2 DEF KernelInv, Readers
    <3>2. terminal_fg_task[pcb[t].terminal] = t
      BY <3>1, Distinct DEF KernelInv, Foreground
    <3> QED BY <3>1, <3>2, <1>2, UserFacts
  <2>4. \A t \in Task : pcb'[t].pc = "read" =>
          /\ t \in User
          /\ where'[t] = terminal_wait_list
          /\ pcb'[t].nbytes \in 1..KEYBOARD_BUF_SIZE
          /\ terminal_slot'[pcb'[t].terminal].user_ask_len = pcb'[t].nbytes
    <3> SUFFICES ASSUME NEW t \in Task, pcb'[t].pc = "read"
                 PROVE  /\ t \in User
                        /\ where'[t] = terminal_wait_list
                        /\ pcb'[t].nbytes \in 1..KEYBOARD_BUF_SIZE
                        /\ terminal_slot'[pcb'[t].terminal].user_ask_len = pcb'[t].nbytes
      OBVIOUS
    <3>1. CASE t = running
      BY <3>1, <2>2, <1>2, <1>3, <1>5, <1>7 DEF i
    <3>2. CASE t # running
      <4>1. pcb[t].pc = "read" /\ pcb'[t] = pcb[t]
        BY <3>2, <1>7
      <4> QED BY <3>2, <4>1, <2>2, <2>3, <1>5 DEF KernelInv, Readers
    <3> QED BY <3>1, <3>2
  <2>5. \A t \in Task : where'[t] = terminal_wait_list =>
          /\ pcb'[t].pc = "read"
          /\ ~Satisfied(terminal_slot'[pcb'[t].terminal], pcb'[t].nbytes)
    <3> SUFFICES ASSUME NEW t \in Task, where'[t] = terminal_wait_list
                 PROVE  /\ pcb'[t].pc = "read"
                        /\ ~Satisfied(terminal_slot'[pcb'[t].terminal], pcb'[t].nbytes)
      OBVIOUS
    <3>1. CASE t = running
      BY <3>1, <1>2, <1>5, <1>7 DEF i
    <3>2. CASE t # running
      <4>1. where[t] = terminal_wait_list /\ pcb'[t] = pcb[t]
        BY <3>2, <2>2, <1>7
      <4>2. pcb[t].pc = "read" /\ ~Satisfied(terminal_slot[pcb[t].terminal], pcb[t].nbytes)
        BY <4>1, SleeperFacts
      <4> QED BY <4>1, <4>2, <2>3, <1>5
    <3> QED BY <3>1, <3>2
  <2>7. Readers'
    BY <2>1, <2>4, <2>5 DEF Readers
  <2>8. WokenReaderSatisfied'
    BY <2>1, <2>4, Distinct, Sentinels DEF WokenReaderSatisfied, Valid
  <2> QED BY <2>7, <2>8
<1>9. \A f \in {"WAITING_CHILD", "TERMINAL_OWNER"} :
         f \in pcb'[running].flags <=> f \in pcb[running].flags
  BY <1>7
<1>10. /\ "WAITING_TERMINAL" \in pcb'[running].flags
       /\ rtc_wait_list # terminal_wait_list
  BY <1>7, Sentinels
<1> QED BY <1>1, <1>5, <1>6, <1>7, <1>8, <1>9, <1>10, SleeperStep

LEMMA RtcReadStep ==
  ASSUME KernelInv, NEW count \in RtcCounts, RtcRead(count)
  PROVE  KernelStep
<1>1. /\ UserTaskRuns
      /\ pcb[running].parent # NULL
      /\ pcb' = [pcb EXCEPT ![running].flags = @ \cup {"WAITING_RTC"},
                            ![running].counter = count]
      /\ where' = [where EXCEPT ![running] = rtc_wait_list]
      /\ UNCHANGED <<remain, handlerVars>>
      /\ Launch(move_task_after_node(list, running, rtc_wait_list))
      /\ UNCHANGED <<task_count, terminal_slot, terminal_opened, window_stack, focusVars,
                     page_id_running>>
  BY DEF RtcRead, termVars
<1>2. /\ running \in User /\ running \in Task /\ pcb[running].pc = "user"
      /\ where[running] = run_queue
  BY <1>1, RunningUser
<1>3. /\ pcb \in [Task -> Pcb] /\ terminal_slot \in [Terminal -> Slot]
      /\ where \in [Task -> Lists \cup {temp_list}]
      /\ count \in Int
  BY TerminalAssumption DEF KernelInv, Records, QueueInv, Sound
<1>4. pcb' \in [Task -> Pcb]
  <2>0. pcb[running] \in Pcb
    BY <1>2, <1>3
  <2>1. pcb[running].flags \cup {"WAITING_RTC"} \in SUBSET Flag
    BY <2>0 DEF Pcb, Flag
  <2>2. [pcb[running] EXCEPT !.flags = @ \cup {"WAITING_RTC"}, !.counter = count] \in Pcb
    BY <2>0, <2>1, <1>3 DEF Pcb
  <2>3. pcb' = [pcb EXCEPT ![running] =
                  [pcb[running] EXCEPT !.flags = @ \cup {"WAITING_RTC"}, !.counter = count]]
    BY <1>1
  <2> QED BY <2>2, <2>3, <1>2, <1>3
<1>5. /\ \A t \in Task :
            /\ pcb'[t].valid = pcb[t].valid /\ pcb'[t].parent = pcb[t].parent
            /\ pcb'[t].terminal = pcb[t].terminal /\ pcb'[t].page_id = pcb[t].page_id
            /\ pcb'[t].vidmap_enabled = pcb[t].vidmap_enabled
            /\ pcb'[t].pc = pcb[t].pc /\ pcb'[t].nbytes = pcb[t].nbytes
            /\ t # running => pcb'[t] = pcb[t]
      /\ pcb'[running].flags = pcb[running].flags \cup {"WAITING_RTC"}
  BY <1>1, <1>2, <1>3 DEF Pcb
<1>6. \A t \in Task : where'[t] = terminal_wait_list <=> where[t] = terminal_wait_list
  BY <1>1, <1>2, <1>3, Sentinels, Distinct
<1>7. "WAITING_TERMINAL" \notin pcb'[running].flags
  BY <1>2, <1>5, Sentinels DEF KernelInv, Slots, FlagsMatchLists
<1>8. ASSUME SameTree
      PROVE  Readers' /\ WokenReaderSatisfied'
  BY <1>1, <1>2, <1>5, <1>6, <1>8, NobodyDisturbed, ReadersKept
<1>9. /\ terminal_slot' \in [Terminal -> Slot]
      /\ \A i \in Terminal : terminal_slot'[i].valid = terminal_slot[i].valid
      /\ rtc_wait_list # terminal_wait_list
      /\ \A f \in {"WAITING_CHILD", "TERMINAL_OWNER"} :
            f \in pcb'[running].flags <=> f \in pcb[running].flags
  BY <1>1, <1>3, <1>5, Sentinels
<1> QED BY <1>1, <1>4, <1>5, <1>7, <1>8, <1>9, SleeperStep

\* The reader that was woken takes what it asked for.
LEMMA TerminalReadReturnsStep == KernelInv /\ TerminalReadReturns => KernelStep
<1> SUFFICES ASSUME KernelInv, TerminalReadReturns PROVE KernelStep
  OBVIOUS
<1> DEFINE i == pcb[running].terminal
<1>1. /\ pcb[running].pc = "read"
      /\ finish_read(i, pcb[running].nbytes)
      /\ pcb' = [pcb EXCEPT ![running].pc = "user", ![running].nbytes = 0]
      /\ UNCHANGED schedVars
      /\ UNCHANGED <<running, where, cursor, task_count, terminal_opened, window_stack,
                     focus_task, terminal_fg_task, page_id_running, hw, running_term>>
  BY DEF TerminalReadReturns, schedVars, handlerVars, focusVars, ctxVars
<1>2. /\ running \in User /\ running \in Task /\ i \in Terminal
      /\ pcb[running].nbytes \in Nat /\ where[running] = run_queue
  BY <1>1, UserFacts, TerminalAssumption DEF KernelInv, Readers, QueueInv
<1>3. pcb \in [Task -> Pcb] /\ 0 \in 0..KEYBOARD_BUF_SIZE
  BY TerminalAssumption DEF KernelInv, Records
<1>4. /\ terminal_slot' \in [Terminal -> Slot]
      /\ \A j \in Terminal : /\ terminal_slot'[j].valid = terminal_slot[j].valid
                             /\ j # i => terminal_slot'[j] = terminal_slot[j]
      /\ terminal_slot'[i].user_ask_len = 0
  BY <1>1, <1>2, FinishRead
<1>5. pcb' \in [Task -> Pcb]
  <2>1. [pcb[running] EXCEPT !.pc = "user", !.nbytes = 0] \in Pcb
    BY <1>2, <1>3 DEF Pcb
  <2>2. pcb' = [pcb EXCEPT ![running] = [pcb[running] EXCEPT !.pc = "user", !.nbytes = 0]]
    BY <1>1
  <2> QED BY <2>1, <2>2, <1>2, <1>3
<1>6. /\ \A t \in Task :
            /\ pcb'[t].valid = pcb[t].valid /\ pcb'[t].parent = pcb[t].parent
            /\ pcb'[t].terminal = pcb[t].terminal /\ pcb'[t].page_id = pcb[t].page_id
            /\ pcb'[t].vidmap_enabled = pcb[t].vidmap_enabled
            /\ pcb'[t].flags = pcb[t].flags
            /\ t # running => pcb'[t] = pcb[t]
      /\ pcb'[running].pc = "user"
  BY <1>1, <1>2, <1>3 DEF Pcb
<1>7. SameTree
  BY <1>1, <1>4, <1>6 DEF SameTree
<1>8. Valid' = Valid /\ User' = User /\ Opened' = Opened
  BY <1>7, SameTasks
<1>9. \A t \in Task \ {running} : pcb[t].pc = "read" =>
         /\ t \in User /\ where[t] = terminal_wait_list
         /\ pcb[t].terminal \in Terminal /\ pcb[t].terminal # i
  <2> SUFFICES ASSUME NEW t \in Task \ {running}, pcb[t].pc = "read"
               PROVE  /\ t \in User /\ where[t] = terminal_wait_list
                      /\ pcb[t].terminal \in Terminal /\ pcb[t].terminal # i
    OBVIOUS
  <2>1. t \in User /\ where[t] = terminal_wait_list
    BY DEF KernelInv, Readers
  <2>2. /\ terminal_fg_task[pcb[t].terminal] = t
        /\ terminal_fg_task[i] = running
    BY <2>1, <1>2, Distinct DEF KernelInv, Foreground
  <2> QED BY <2>1, <2>2, UserFacts
<1> HIDE DEF i
<1>10. Readers'
  <2>0. \A t \in Task : pcb'[t].pc = "read" => t # running /\ pcb'[t] = pcb[t]
    BY <1>6
  <2>1. \A t \in Task : pcb'[t].pc = "read" =>
          /\ t \in User
          /\ where[t] = terminal_wait_list
          /\ pcb'[t].nbytes \in 1..KEYBOARD_BUF_SIZE
          /\ terminal_slot'[pcb'[t].terminal].user_ask_len = pcb'[t].nbytes
    BY <2>0, <1>4, <1>9 DEF KernelInv, Readers
  <2>2. ASSUME NEW t \in Task, where[t] = terminal_wait_list
        PROVE  /\ pcb'[t].pc = "read"
               /\ ~Satisfied(terminal_slot'[pcb'[t].terminal], pcb'[t].nbytes)
    <3>1. t # running
      BY <2>2, <1>2, Sentinels
    <3>2. pcb[t].pc = "read" /\ ~Satisfied(terminal_slot[pcb[t].terminal], pcb[t].nbytes)
      BY <2>2, SleeperFacts
    <3>3. /\ pcb'[t] = pcb[t]
          /\ terminal_slot'[pcb[t].terminal] = terminal_slot[pcb[t].terminal]
      BY <3>1, <3>2, <1>4, <1>6, <1>9
    <3> QED BY <3>2, <3>3
  <2> QED BY <2>1, <2>2, <1>1, <1>8 DEF Readers
<1>11. WokenReaderSatisfied'
  <2>1. \A t \in Task : pcb'[t].pc = "read" => where'[t] = terminal_wait_list
    BY ZenonT(60), <1>1, <1>6, <1>9
  <2> QED BY <2>1, Sentinels DEF WokenReaderSatisfied, Valid
<1>12. Family' /\ NoRing' /\ Foreground' /\ Pages' /\ FocusIsForeground' /\ Mappings'
  BY <1>1, <1>6, <1>7, TreeKept, FocusKept, MappingsKept
<1>13. QueueInv'
  BY <1>1, QueueUnchanged DEF KernelInv
<1>14. Slots'
  <2>1. \A t \in Task : ~pcb'[t].valid => pcb'[t] = FreePcb
    BY <1>2, <1>6, UserFacts DEF KernelInv, Slots
  <2>2. InitTask # running /\ IdleTask # running
    BY <1>2, UserFacts
  <2>3. FlagsMatchLists'
    <3>1. \A t \in Task : /\ pcb'[t].valid = pcb[t].valid
                          /\ pcb'[t].flags = pcb[t].flags /\ where'[t] = where[t]
      BY <1>1, <1>6
    <3> QED BY <3>1 DEF KernelInv, Slots, FlagsMatchLists
  <2> QED BY <2>1, <2>2, <2>3, <1>1, <1>6, Sentinels DEF KernelInv, Slots
<1>15. Records' /\ Stacked' /\ HandlerInUser' /\ ParentStays
  BY <1>1, <1>4, <1>5, <1>6, <1>8
     DEF KernelInv, Records, Stacked, HandlerInUser, ParentStays
<1> QED BY <1>10, <1>11, <1>12, <1>13, <1>14, <1>15 DEF KernelStep, KernelInv

-----------------------------------------------------------------------------
(***************************************************************************)
(* system_execute.  Started says, in terms of the parts of the invariant,   *)
(* what it does when it succeeds.                                           *)
(***************************************************************************)
Started(new, term, page, wait) ==
  /\ new \in Task \ Valid /\ new \notin {InitTask, IdleTask}
  /\ page \in Page \ page_id_running
  /\ running \in Task /\ running # new /\ where[running] = run_queue
  /\ pcb[running].pc = "user" /\ cursor = NoNode
  /\ term \in Terminal
  /\ wait => running \in User /\ term = pcb[running].terminal /\ term \in Opened
  /\ ~wait => term \notin Opened
  /\ pcb' \in [Task -> Pcb]
  /\ pcb'[new].valid /\ pcb'[new].flags = IF wait THEN {} ELSE {"TERMINAL_OWNER"}
  /\ pcb'[new].parent = IF wait THEN running ELSE NULL
  /\ pcb'[new].terminal = term /\ pcb'[new].page_id = page
  /\ ~pcb'[new].vidmap_enabled /\ pcb'[new].pc = "user"
  /\ \A t \in Task \ {new} :
       /\ pcb'[t].valid = pcb[t].valid /\ pcb'[t].parent = pcb[t].parent
       /\ pcb'[t].terminal = pcb[t].terminal /\ pcb'[t].page_id = pcb[t].page_id
       /\ pcb'[t].vidmap_enabled = pcb[t].vidmap_enabled
       /\ pcb'[t].pc = pcb[t].pc /\ pcb'[t].nbytes = pcb[t].nbytes
       /\ pcb'[t].flags = IF wait /\ t = running
                          THEN pcb[t].flags \cup {"WAITING_CHILD"} ELSE pcb[t].flags
       /\ ~(wait /\ t = running) => pcb'[t] = pcb[t]
  /\ \A t \in Task : where'[t] = IF t = new THEN run_queue
                                 ELSE IF wait /\ t = running THEN wait4child_list
                                 ELSE where[t]
  /\ terminal_slot' \in [Terminal -> Slot]
  /\ \A i \in Terminal :
       /\ terminal_slot'[i].valid <=> i = term \/ terminal_slot[i].valid
       /\ terminal_slot'[i].user_ask_len = terminal_slot[i].user_ask_len
       /\ i \in Opened => terminal_slot'[i] = terminal_slot[i]
  /\ \A i \in Terminal : terminal_fg_task'[i] = IF i = term THEN new
                                                ELSE terminal_fg_task[i]
  /\ terminal_fg_task' \in [Terminal -> Task \cup {NULL}]
  /\ focus_task' = new /\ running' = new
  /\ task_count' = task_count + 1
  /\ page_id_running' = page_id_running \cup {page}
  /\ Valid' = Valid \cup {new} /\ User' = User \cup {new}
  /\ Opened' = Opened \cup {term}

\* As task_count says, there is a free slot.
LEMMA FreeSlotExists ==
  ASSUME KernelInv, task_count < TASK_MAX_COUNT
  PROVE  FreeSlots # {} /\ IsFiniteSet(Valid)
<1>1. IsFiniteSet(Task) /\ Cardinality(Task) = TASK_MAX_COUNT
  BY SlotsAssumption, FS_Interval DEF Task
<1>2. IsFiniteSet(Valid)
  BY <1>1, FS_Subset DEF Valid
<1>3. FreeSlots # {}
  <2> SUFFICES ASSUME FreeSlots = {} PROVE FALSE
    OBVIOUS
  <2>1. Valid = Task
    BY DEF Valid, FreeSlots
  <2> QED BY <2>1, <1>1, SlotsAssumption DEF KernelInv, Pages
<1> QED BY <1>2, <1>3

LEMMA ExecuteStarts ==
  ASSUME KernelInv, InUser, NEW wait \in BOOLEAN, wait => UserTaskRuns,
         NEW file, CanExecute(~wait, file), system_execute(wait)
  PROVE  Started(Lowest(FreeSlots),
                 IF wait THEN pcb[running].terminal ELSE Lowest(FreeTerminals),
                 Lowest(FreePages), wait)
<1> DEFINE new == Lowest(FreeSlots)
           term == IF wait THEN pcb[running].terminal ELSE Lowest(FreeTerminals)
           page == Lowest(FreePages)
           child == [FreePcb EXCEPT
                       !.valid = TRUE,
                       !.flags = IF wait THEN {} ELSE {"TERMINAL_OWNER"},
                       !.parent = IF wait THEN running ELSE NULL,
                       !.terminal = term,
                       !.page_id = page]
<1>1. new \in FreeSlots
  <2>1. FreeSlots \in SUBSET Nat
    BY SlotsAssumption DEF FreeSlots, Task
  <2>2. FreeSlots # {}
    BY FreeSlotExists DEF CanExecute
  <2> QED BY <2>1, <2>2, LowestIs
<1>2. page \in Page \ page_id_running
  <2>1. FreePages \in SUBSET Nat
    BY TerminalAssumption, SlotsAssumption DEF FreePages, Page
  <2>2. FreePages # {}
    BY DEF CanExecute, CanLoad
  <2>3. page \in FreePages
    BY <2>1, <2>2, LowestIs
  <2> QED BY <2>3 DEF FreePages
<1>3. /\ term \in Terminal
      /\ wait => running \in User /\ term = pcb[running].terminal /\ term \in Opened
      /\ ~wait => term \notin Opened
  <2>1. CASE wait
    BY <2>1, RunningUser
  <2>2. CASE ~wait
    <3>1. FreeTerminals \in SUBSET Nat
      BY TerminalAssumption DEF FreeTerminals, Terminal
    <3>2. FreeTerminals # {}
      BY <2>2 DEF CanExecute
    <3>3. term \in FreeTerminals
      BY <2>2, <3>1, <3>2, LowestIs
    <3> QED BY <2>2, <3>3 DEF FreeTerminals, Opened
  <2> QED BY <2>1, <2>2
<1>4. /\ new \in Task \ Valid /\ new \notin {InitTask, IdleTask}
      /\ running \in Task /\ running # new /\ where[running] = run_queue
      /\ pcb[running].pc = "user" /\ cursor = NoNode
      /\ pcb \in [Task -> Pcb] /\ terminal_slot \in [Terminal -> Slot]
      /\ where \in [Task -> Lists \cup {temp_list}]
      /\ terminal_fg_task \in [Terminal -> Task \cup {NULL}]
  BY <1>1, EmptyPcbs, UserFacts
     DEF FreeSlots, Valid, InUser, Interruptible, KernelInv, QueueInv, Sound, Records,
         Slots
<1>5. /\ task_count' = task_count + 1
      /\ pcb' = [pcb EXCEPT ![new] = child,
                    ![running].flags = IF wait THEN @ \cup {"WAITING_CHILD"} ELSE @]
      /\ terminal_slot' = IF wait THEN terminal_slot ELSE terminal_allocate(term)
      /\ page_id_running' = page_id_running \cup {page}
      /\ terminal_fg_task' = [terminal_fg_task EXCEPT ![term] = new]
      /\ focus_task' = new /\ running' = new
      /\ where' = [where EXCEPT ![new] = run_queue,
                     ![running] = IF wait THEN wait4child_list ELSE @]
  BY DEF system_execute
<1>6. /\ child \in Pcb /\ child.valid
      /\ child.flags = IF wait THEN {} ELSE {"TERMINAL_OWNER"}
      /\ child.parent = IF wait THEN running ELSE NULL
      /\ child.terminal = term /\ child.page_id = page
      /\ ~child.vidmap_enabled /\ child.pc = "user"
  <2>1. (IF wait THEN {} ELSE {"TERMINAL_OWNER"}) \in SUBSET Flag
    BY DEF Flag
  <2>2. (IF wait THEN running ELSE NULL) \in Task \cup {NULL}
    BY <1>4
  <2> DEFINE flags == IF wait THEN {} ELSE {"TERMINAL_OWNER"}
             parent == IF wait THEN running ELSE NULL
  <2> HIDE DEF term, page, flags, parent
  <2>3. child = [FreePcb EXCEPT !.valid = TRUE, !.flags = flags, !.parent = parent,
                                !.terminal = term, !.page_id = page]
    BY DEF flags, parent
  <2> HIDE DEF child
  <2>4. /\ child \in Pcb /\ child.valid
        /\ child.flags = flags /\ child.parent = parent
        /\ child.terminal = term /\ child.page_id = page
        /\ ~child.vidmap_enabled /\ child.pc = "user"
    BY <2>1, <2>2, <2>3, <1>2, <1>3, EmptyPcbs DEF Pcb, flags, parent
  <2> QED BY <2>4 DEF flags, parent
<1> HIDE DEF new, term, page, child
<1>7. /\ pcb' \in [Task -> Pcb]
      /\ pcb'[new] = child
      /\ \A t \in Task \ {new} :
           /\ pcb'[t].valid = pcb[t].valid /\ pcb'[t].parent = pcb[t].parent
           /\ pcb'[t].terminal = pcb[t].terminal /\ pcb'[t].page_id = pcb[t].page_id
           /\ pcb'[t].vidmap_enabled = pcb[t].vidmap_enabled
           /\ pcb'[t].pc = pcb[t].pc /\ pcb'[t].nbytes = pcb[t].nbytes
           /\ pcb'[t].flags = IF wait /\ t = running
                              THEN pcb[t].flags \cup {"WAITING_CHILD"} ELSE pcb[t].flags
           /\ ~(wait /\ t = running) => pcb'[t] = pcb[t]
  <2> DEFINE parent == [pcb[running] EXCEPT !.flags =
                                              IF wait THEN @ \cup {"WAITING_CHILD"} ELSE @]
  <2>1. pcb[running] \in Pcb /\ pcb[running].flags \cup {"WAITING_CHILD"} \in SUBSET Flag
    BY <1>4 DEF Pcb, Flag
  <2>2. /\ parent \in Pcb
        /\ parent.valid = pcb[running].valid /\ parent.parent = pcb[running].parent
        /\ parent.terminal = pcb[running].terminal
        /\ parent.page_id = pcb[running].page_id
        /\ parent.vidmap_enabled = pcb[running].vidmap_enabled
        /\ parent.pc = pcb[running].pc /\ parent.nbytes = pcb[running].nbytes
        /\ parent.flags = IF wait THEN pcb[running].flags \cup {"WAITING_CHILD"}
                                  ELSE pcb[running].flags
    BY <2>1 DEF Pcb
  <2>3. ~wait => parent = pcb[running]
    BY <2>1 DEF Pcb
  <2>4. pcb' = [pcb EXCEPT ![new] = child, ![running] = parent]
    BY <1>4, <1>5
  <2> HIDE DEF parent
  <2>5. pcb' \in [Task -> Pcb]
    BY <2>2, <2>4, <1>4, <1>6
  <2>6. \A t \in Task : pcb'[t] = IF t = new THEN child
                                  ELSE IF t = running THEN parent ELSE pcb[t]
    BY <2>4, <1>4
  <2> QED BY <2>2, <2>3, <2>5, <2>6, <1>4
<1>8. \A t \in Task : where'[t] = IF t = new THEN run_queue
                                  ELSE IF wait /\ t = running THEN wait4child_list
                                  ELSE where[t]
  BY <1>4, <1>5
<1>9. /\ terminal_slot' \in [Terminal -> Slot]
      /\ \A i \in Terminal :
           /\ terminal_slot'[i].valid <=> i = term \/ terminal_slot[i].valid
           /\ terminal_slot'[i].user_ask_len = terminal_slot[i].user_ask_len
           /\ i \in Opened => terminal_slot'[i] = terminal_slot[i]
  <2>1. CASE wait
    <3>1. terminal_slot' = terminal_slot /\ terminal_slot[term].valid
      BY <2>1, <1>3, <1>5 DEF Opened
    <3> QED BY <3>1, <1>3, <1>4
  <2>2. CASE ~wait
    <3> DEFINE b == [ClearedSlot(terminal_slot[term]) EXCEPT !.valid = TRUE]
    <3>4. terminal_slot' = [terminal_slot EXCEPT ![term] = b]
      BY <2>2, <1>5 DEF terminal_allocate
    <3>5. b \in Slot /\ b.valid /\ b.user_ask_len = terminal_slot[term].user_ask_len
      <4>1. terminal_slot[term] \in Slot
        BY <1>3, <1>4
      <4>2. ClearedSlot(terminal_slot[term]) \in Slot
        BY <4>1, SlotKept
      <4>3. ClearedSlot(terminal_slot[term]).user_ask_len = terminal_slot[term].user_ask_len
        BY <4>1 DEF ClearedSlot, Slot
      <4> QED BY <4>2, <4>3 DEF Slot
    <3> HIDE DEF b
    <3>6. terminal_slot' \in [Terminal -> Slot]
      BY <3>4, <3>5, <1>4
    <3>7. \A j \in Terminal : terminal_slot'[j] = IF j = term THEN b ELSE terminal_slot[j]
      BY <3>4, <1>4
    <3> QED BY <3>5, <3>6, <3>7, <2>2, <1>3
  <2> QED BY <2>1, <2>2
<1>10. /\ terminal_fg_task' \in [Terminal -> Task \cup {NULL}]
       /\ \A i \in Terminal : terminal_fg_task'[i] = IF i = term THEN new
                                                     ELSE terminal_fg_task[i]
  BY <1>3, <1>4, <1>5
<1>11. Valid' = Valid \cup {new} /\ User' = User \cup {new}
  <2>1. \A t \in Task : pcb'[t].valid <=> t = new \/ pcb[t].valid
    BY <1>6, <1>7
  <2>2. Valid' = Valid \cup {new}
    BY <2>1, <1>4 DEF Valid
  <2> QED BY <2>2, <1>4 DEF User
<1>12. Opened' = Opened \cup {term}
  BY <1>3, <1>9 DEF Opened
<1>13. Started(new, term, page, wait)
  BY ZenonT(60), <1>2, <1>3, <1>4, <1>5, <1>6, <1>7, <1>8, <1>9, <1>10, <1>11, <1>12 DEF Started
<1> QED BY <1>13 DEF new, term, page

\* A program that is started becomes the only child of the task that waits for it,
\* or the owner of a new terminal, and the innermost program of its terminal.
LEMMA StartedTree ==
  ASSUME KernelInv, NEW new, NEW term, NEW page, NEW wait \in BOOLEAN,
         Started(new, term, page, wait)
  PROVE  Family' /\ NoRing' /\ Foreground' /\ FocusIsForeground'
<1>1. /\ new \in Task /\ new \notin Valid /\ new \notin User /\ running \in Task
      /\ running # new /\ where[running] = run_queue
      /\ term \in Terminal
      /\ User' = User \cup {new} /\ Opened' = Opened \cup {term}
      /\ wait => running \in User /\ term = pcb[running].terminal /\ term \in Opened
      /\ ~wait => term \notin Opened
      /\ run_queue # wait4child_list /\ run_queue # rtc_wait_list
  BY Distinct, Sentinels DEF Started, User
<1>2. /\ pcb'[new].parent = IF wait THEN running ELSE NULL
      /\ pcb'[new].terminal = term
      /\ "TERMINAL_OWNER" \in pcb'[new].flags <=> ~wait
  BY DEF Started
<1>3. \A t \in User : /\ t \in Task /\ t # new
                      /\ pcb'[t].parent = pcb[t].parent
                      /\ pcb'[t].terminal = pcb[t].terminal
                      /\ "TERMINAL_OWNER" \in pcb'[t].flags
                           <=> "TERMINAL_OWNER" \in pcb[t].flags
  <2>1. \A t \in Task \ {new} :
          /\ pcb'[t].parent = pcb[t].parent /\ pcb'[t].terminal = pcb[t].terminal
          /\ pcb'[t].flags = IF wait /\ t = running
                             THEN pcb[t].flags \cup {"WAITING_CHILD"} ELSE pcb[t].flags
    BY DEF Started
  <2>2. \A t \in User : t \in Task \ {new}
    BY <1>1, UserFacts
  <2>3. ASSUME NEW t \in Task \ {new}
        PROVE  "TERMINAL_OWNER" \in pcb'[t].flags <=> "TERMINAL_OWNER" \in pcb[t].flags
    <3>1. CASE wait /\ t = running
      <4>1. pcb'[t].flags = pcb[t].flags \cup {"WAITING_CHILD"}
        BY <3>1, <2>1
      <4> QED BY <4>1
    <3>2. CASE ~(wait /\ t = running)
      BY <3>2, <2>1
    <3> QED BY <3>1, <3>2
  <2> QED BY <2>1, <2>2, <2>3
<1>4. \A t \in Task : where'[t] = IF t = new THEN run_queue
                                  ELSE IF wait /\ t = running THEN wait4child_list
                                  ELSE where[t]
  BY DEF Started
<1>5. \A t \in User : /\ pcb[t].terminal \in Opened
                      /\ pcb[t].parent # NULL =>
                           /\ pcb[t].parent \in User
                           /\ where[pcb[t].parent] = wait4child_list
                           /\ pcb[t].parent # running
  BY <1>1, UserFacts DEF KernelInv, Family
<1>6. Family'
  <2>1. ASSUME NEW t \in User \cup {new}
        PROVE  /\ pcb'[t].terminal \in Opened \cup {term}
               /\ "TERMINAL_OWNER" \in pcb'[t].flags <=> pcb'[t].parent = NULL
               /\ pcb'[t].parent # NULL =>
                    /\ pcb'[t].parent \in User \cup {new}
                    /\ where'[pcb'[t].parent] = wait4child_list
                    /\ pcb'[pcb'[t].parent].terminal = pcb'[t].terminal
               /\ where'[t] = rtc_wait_list => pcb'[t].parent # NULL
    <3>1. CASE t = new
      <4>1. running # NULL
        BY <1>1, Distinct
      <4>2. wait => pcb'[running].terminal = term /\ where'[running] = wait4child_list
        BY <1>1, <1>3, <1>4
      <4> QED BY <3>1, <4>1, <4>2, <1>1, <1>2, <1>4
    <3>2. CASE t \in User
      <4>1. /\ pcb'[t].terminal \in Opened
            /\ "TERMINAL_OWNER" \in pcb'[t].flags <=> pcb'[t].parent = NULL
        BY <3>2, <1>3, <1>5 DEF KernelInv, Family
      <4>2. pcb'[t].parent # NULL =>
              /\ pcb'[t].parent \in User
              /\ where'[pcb'[t].parent] = wait4child_list
              /\ pcb'[pcb'[t].parent].terminal = pcb'[t].terminal
        BY <3>2, <1>3, <1>4, <1>5 DEF KernelInv, Family
      <4>3. where'[t] = rtc_wait_list => pcb'[t].parent # NULL
        BY <3>2, <1>3, <1>4, Distinct DEF KernelInv, Family
      <4> QED BY <4>1, <4>2, <4>3
    <3> QED BY <3>1, <3>2
  <2>2. ASSUME NEW t \in User \cup {new}, NEW u \in User \cup {new},
               pcb'[t].parent # NULL, pcb'[t].parent = pcb'[u].parent
        PROVE  t = u
    <3>1. \A v \in User : pcb'[v].parent # NULL => pcb'[v].parent # pcb'[new].parent
      BY <1>2, <1>3, <1>5
    <3>2. CASE t = new \/ u = new
      BY <2>2, <3>1, <3>2
    <3>3. CASE t # new /\ u # new
      BY <2>2, <3>3, <1>3 DEF KernelInv, Family
    <3> QED BY <3>2, <3>3
  <2>3. ASSUME NEW p \in Task, where'[p] = wait4child_list
        PROVE  \E t \in User \cup {new} : pcb'[t].parent = p
    <3>1. CASE wait /\ p = running
      BY <3>1, <1>2
    <3>2. CASE ~(wait /\ p = running)
      <4>1. where[p] = wait4child_list
        BY <2>3, <3>2, <1>1, <1>4
      <4> QED BY <4>1, <1>3 DEF KernelInv, Family
    <3> QED BY <3>1, <3>2
  <2> QED BY <1>1, <2>1, <2>2, <2>3 DEF Family
<1>7. NoRing'
  <2> SUFFICES ASSUME NEW T \in SUBSET {p \in Task : where'[p] = wait4child_list},
                      T # {}
               PROVE  \E p \in T : \A t \in T : pcb'[t].parent # p
    BY DEF NoRing
  <2>0. \A t \in T : t \in Task /\ t # new /\ pcb'[t].parent = pcb[t].parent
    <3>1. \A t \in T : t \in Task /\ t # new
      BY <1>1, <1>4
    <3>2. \A t \in Task \ {new} : pcb'[t].parent = pcb[t].parent
      BY DEF Started
    <3> QED BY <3>1, <3>2
  <2>1. CASE wait /\ running \in T
    <3>1. \A t \in T : pcb[t].parent # running
      BY <2>0, <2>1, <1>1, <1>5, UserFacts, Distinct
    <3> QED BY <2>0, <2>1, <3>1
  <2>2. CASE ~(wait /\ running \in T)
    <3>1. T \in SUBSET {p \in Task : where[p] = wait4child_list}
      BY <2>0, <2>2, <1>4
    <3> QED BY <2>0, <3>1 DEF KernelInv, NoRing
  <2> QED BY <2>1, <2>2
<1>8. \A i \in Terminal : terminal_fg_task'[i] = IF i = term THEN new
                                                 ELSE terminal_fg_task[i]
  BY DEF Started
<1>9. Foreground'
  <2>1. \A i \in Terminal : i \notin Opened \cup {term} => terminal_fg_task'[i] = NULL
    BY <1>8 DEF KernelInv, Foreground
  <2>2. \A i \in Opened \cup {term} : /\ terminal_fg_task'[i] \in User \cup {new}
                                      /\ pcb'[terminal_fg_task'[i]].terminal = i
    <3> SUFFICES ASSUME NEW i \in Opened \cup {term}
                 PROVE  /\ terminal_fg_task'[i] \in User \cup {new}
                        /\ pcb'[terminal_fg_task'[i]].terminal = i
      OBVIOUS
    <3>1. CASE i = term
      BY <3>1, <1>1, <1>2, <1>8
    <3>2. CASE i # term
      <4>1. i \in Opened /\ i \in Terminal /\ terminal_fg_task'[i] = terminal_fg_task[i]
        BY <3>2, <1>8, UserFacts
      <4>2. terminal_fg_task[i] \in User /\ pcb[terminal_fg_task[i]].terminal = i
        BY <4>1 DEF KernelInv, Foreground
      <4> QED BY <4>1, <4>2, <1>3
    <3> QED BY <3>1, <3>2
  <2>3. ASSUME NEW t \in User \cup {new}
        PROVE  where'[t] # wait4child_list <=> terminal_fg_task'[pcb'[t].terminal] = t
    <3>1. CASE t = new
      BY <3>1, <1>1, <1>2, <1>4, <1>8
    <3>2. CASE t # new /\ pcb[t].terminal # term
      <4>1. t \in User /\ where'[t] = where[t] /\ pcb'[t].terminal = pcb[t].terminal
        BY <3>2, <1>1, <1>3, <1>4
      <4> QED BY <3>2, <4>1, <1>5, <1>8, UserFacts DEF KernelInv, Foreground
    <3>3. CASE t # new /\ pcb[t].terminal = term
      <4>1. t \in User /\ wait /\ pcb'[t].terminal = term /\ terminal_fg_task'[term] = new
        BY <3>3, <1>1, <1>3, <1>5, <1>8
      <4>2. terminal_fg_task[term] = running
        BY <4>1, <1>1 DEF KernelInv, Foreground
      <4>3. where'[t] = wait4child_list
        BY <3>3, <4>1, <4>2, <1>3, <1>4 DEF KernelInv, Foreground
      <4> QED BY <3>3, <4>1, <4>3
    <3> QED BY <3>1, <3>2, <3>3
  <2>4. ASSUME NEW i \in Opened \cup {term}
        PROVE  \E t \in User \cup {new} : pcb'[t].terminal = i /\ pcb'[t].parent = NULL
    <3>1. CASE i \in Opened
      BY <3>1, <1>3 DEF KernelInv, Foreground
    <3>2. CASE i \notin Opened
      BY <3>2, <1>1, <1>2
    <3> QED BY <3>1, <3>2
  <2>5. ASSUME NEW t \in User \cup {new}, NEW u \in User \cup {new},
               pcb'[t].parent = NULL, pcb'[u].parent = NULL,
               pcb'[t].terminal = pcb'[u].terminal
        PROVE  t = u
    <3>1. \A v \in User : pcb'[v].parent = NULL /\ pcb'[new].parent = NULL
                            => pcb'[v].terminal # pcb'[new].terminal
      BY <1>1, <1>2, <1>3, <1>5, Distinct
    <3>2. CASE t = new \/ u = new
      BY <2>5, <3>1, <3>2
    <3>3. CASE t # new /\ u # new
      BY <2>5, <3>3, <1>3 DEF KernelInv, Foreground
    <3> QED BY <3>2, <3>3
  <2> QED BY <1>1, <2>1, <2>2, <2>3, <2>4, <2>5 DEF Foreground
<1>10. FocusIsForeground'
  <2>1. focus_task' = new /\ terminal_fg_task'[term] = new
    BY <1>1, <1>8 DEF Started
  <2> QED BY <2>1, <1>1 DEF FocusIsForeground
<1> QED BY <1>6, <1>7, <1>9, <1>10

\* A slot and a page nobody has.
LEMMA StartedPages ==
  ASSUME KernelInv, NEW new, NEW term, NEW page, NEW wait \in BOOLEAN,
         Started(new, term, page, wait), IsFiniteSet(Valid)
  PROVE  Pages'
<1>1. task_count' = Cardinality(Valid')
  <2>1. Cardinality(Valid \cup {new}) = Cardinality(Valid) + 1
    BY FS_AddElement DEF Started
  <2> QED BY <2>1 DEF Started, KernelInv, Pages
<1>2. /\ User' = User \cup {new} /\ page_id_running' = page_id_running \cup {page}
      /\ page \notin page_id_running /\ pcb'[new].page_id = page
      /\ \A t \in User : pcb'[t].page_id = pcb[t].page_id /\ pcb[t].page_id \in page_id_running
  <2>1. \A t \in User : t \in Task \ {new} /\ pcb[t].page_id \in page_id_running
    BY UserFacts DEF Started, User
  <2>2. \A t \in Task \ {new} : pcb'[t].page_id = pcb[t].page_id
    BY DEF Started
  <2>3. /\ User' = User \cup {new} /\ page_id_running' = page_id_running \cup {page}
        /\ page \notin page_id_running /\ pcb'[new].page_id = page
    BY DEF Started
  <2> QED BY <2>1, <2>2, <2>3
<1>3. \A t \in User' : pcb'[t].page_id \in page_id_running'
  BY <1>2
<1>4. \A t, u \in User' : pcb'[t].page_id = pcb'[u].page_id => t = u
  BY <1>2 DEF KernelInv, Pages
<1> QED BY <1>1, <1>3, <1>4 DEF Pages

\* Readers sleep, and on other terminals.
LEMMA StartedReaders ==
  ASSUME KernelInv, NEW new, NEW term, NEW page, NEW wait \in BOOLEAN,
         Started(new, term, page, wait)
  PROVE  Readers' /\ WokenReaderSatisfied'
<1>1. /\ new \in Task /\ new \notin User /\ running # new /\ pcb[running].pc = "user"
      /\ pcb'[new].pc = "user"
      /\ User' = User \cup {new} /\ Opened' = Opened \cup {term}
      /\ where[running] = run_queue /\ term \in Terminal
  BY DEF Started, User
<1>2. \A t \in Task \ {new} :
         /\ pcb'[t].pc = pcb[t].pc /\ pcb'[t].nbytes = pcb[t].nbytes
         /\ pcb'[t].terminal = pcb[t].terminal
         /\ pcb[t].pc = "read" => t # running /\ where'[t] = where[t]
  BY <1>1 DEF Started
<1>3. \A t \in Task : pcb[t].pc = "read" =>
         /\ t \in User /\ t # new /\ where[t] = terminal_wait_list
         /\ pcb[t].terminal \in Opened /\ pcb[t].terminal \in Terminal
  BY <1>1, UserFacts DEF KernelInv, Readers
<1>4. \A i \in Terminal :
         /\ terminal_slot'[i].user_ask_len = terminal_slot[i].user_ask_len
         /\ i \in Opened => terminal_slot'[i] = terminal_slot[i]
         /\ terminal_fg_task'[i] = IF i = term THEN new ELSE terminal_fg_task[i]
  BY DEF Started
<1>5. \A t \in Task : where'[t] = terminal_wait_list => t # new /\ where[t] = terminal_wait_list
  BY <1>1, Distinct, Sentinels DEF Started
<1>6. Readers'
  <2>1. \A t \in Task : pcb'[t].pc = "read" =>
          /\ t \in User
          /\ where'[t] = terminal_wait_list
          /\ pcb'[t].nbytes \in 1..KEYBOARD_BUF_SIZE
          /\ terminal_slot'[pcb'[t].terminal].user_ask_len = pcb'[t].nbytes
    <3> SUFFICES ASSUME NEW t \in Task, pcb'[t].pc = "read"
                 PROVE  /\ t \in User
                        /\ where'[t] = terminal_wait_list
                        /\ pcb'[t].nbytes \in 1..KEYBOARD_BUF_SIZE
                        /\ terminal_slot'[pcb'[t].terminal].user_ask_len = pcb'[t].nbytes
      OBVIOUS
    <3>1. t # new /\ pcb[t].pc = "read"
      BY <1>1, <1>2
    <3> QED BY <3>1, <1>2, <1>3, <1>4 DEF KernelInv, Readers
  <2>2. ASSUME NEW t \in Task, where'[t] = terminal_wait_list
        PROVE  /\ pcb'[t].pc = "read"
               /\ ~Satisfied(terminal_slot'[pcb'[t].terminal], pcb'[t].nbytes)
    <3>1. t # new /\ where[t] = terminal_wait_list
      BY <2>2, <1>5
    <3>2. pcb[t].pc = "read" /\ ~Satisfied(terminal_slot[pcb[t].terminal], pcb[t].nbytes)
      BY <3>1, SleeperFacts
    <3> QED BY <3>1, <3>2, <1>2, <1>3, <1>4
  <2> QED BY <1>1, <2>1, <2>2 DEF Readers
<1>7. WokenReaderSatisfied'
  <2>1. \A t \in Task : pcb'[t].pc = "read" => where'[t] = terminal_wait_list
    BY <1>1, <1>2, <1>3
  <2> QED BY <2>1, Sentinels DEF WokenReaderSatisfied, Valid
<1> QED BY <1>6, <1>7

\* The new program sees its own image and its own screen.
LEMMA StartedMappings ==
  ASSUME KernelInv, NEW new, NEW term, NEW page, NEW wait \in BOOLEAN,
         Started(new, term, page, wait), running_term' = term,
         hw' = [tss |-> new,
                pd  |-> terminal_set_running(
                          task_paging_set(hw.pd, page, {page}),
                          term, terminal_opened \cup {term})]
  PROVE  Mappings'
<1> DEFINE pd1 == task_paging_set(hw.pd, page, {page})
           pd2 == terminal_set_running(pd1, term, terminal_opened \cup {term})
<1>0. /\ 0 \in PdEntry /\ TASK_IMG_PAGE_ENTRY \in PdEntry /\ VIDMAP_PAGE_ENTRY \in PdEntry
      /\ TASK_IMG_PAGE_ENTRY # 0 /\ VIDMAP_PAGE_ENTRY # 0
      /\ VIDMAP_PAGE_ENTRY # TASK_IMG_PAGE_ENTRY
  BY DEF PdEntry, TASK_IMG_PAGE_ENTRY, VIDMAP_PAGE_ENTRY
<1>1. /\ DOMAIN hw.pd = PdEntry /\ running_term = pcb[running].terminal
      /\ IsTextEntry(hw.pd[0])
      /\ running_term # NULL
           => hw.pd[0] = TextEntry(kernel_video_memory_pt(running_term))
      /\ IsVidmapEntry(hw.pd[VIDMAP_PAGE_ENTRY])
      /\ \A u \in User : pcb[u].vidmap_enabled /\ pcb[u].terminal = running_term
           => hw.pd[VIDMAP_PAGE_ENTRY] \in {NoEntry, VidmapEntry(running_term)}
  BY DEF KernelInv, Mappings, IsTextEntry, IsVidmapEntry
<1>2. /\ term \in Terminal /\ term # NULL /\ running' = new
      /\ wait => term = running_term
      /\ ~wait => term \notin Opened
      /\ User' = User \cup {new} /\ new \in Task /\ new \notin User
      /\ pcb'[new].terminal = term /\ pcb'[new].page_id = page
      /\ ~pcb'[new].vidmap_enabled
  BY <1>1, Distinct DEF Started, User
<1>3. /\ DOMAIN pd1 = PdEntry /\ pd1[0] = hw.pd[0]
      /\ pd1[TASK_IMG_PAGE_ENTRY] = task_set_img_paging(page)
      /\ pd1[VIDMAP_PAGE_ENTRY] = hw.pd[VIDMAP_PAGE_ENTRY]
  BY <1>0, <1>1 DEF task_paging_set
<1>4. hw' = [tss |-> new, pd |-> pd2] /\ hw'.pd = pd2
  OBVIOUS
<1> HIDE DEF pd1
<1>5. /\ DOMAIN pd2 = PdEntry /\ IsTextEntry(pd2[0])
      /\ pd2[0] = TextEntry(kernel_video_memory_pt(term))
      /\ pd2[TASK_IMG_PAGE_ENTRY] = pd1[TASK_IMG_PAGE_ENTRY]
      /\ pd2[VIDMAP_PAGE_ENTRY] = pd1[VIDMAP_PAGE_ENTRY]
  BY <1>1, <1>2, <1>3, TextGood
<1> HIDE DEF pd2
<1>6. ASSUME NEW t \in User', pcb'[t].vidmap_enabled, pcb'[t].terminal = term
      PROVE  pd2[VIDMAP_PAGE_ENTRY] \in {NoEntry, VidmapEntry(term)}
  <2>1. t \in User
    BY <1>2, <1>6
  <2>2. pcb[t].vidmap_enabled /\ pcb[t].terminal = term
    BY <2>1, <1>2, <1>6, UserFacts DEF Started
  <2>3. wait /\ term = running_term
    BY <2>1, <2>2, <1>2, UserFacts
  <2> QED BY <2>1, <2>2, <2>3, <1>1, <1>3, <1>5
<1> QED BY <1>1, <1>2, <1>3, <1>4, <1>5, <1>6 DEF Mappings, IsTextEntry, IsVidmapEntry

LEMMA StartedRest ==
  ASSUME KernelInv, NEW new, NEW term, NEW page, NEW wait \in BOOLEAN,
         Started(new, term, page, wait), wait => UserTaskRuns,
         UNCHANGED handlerVars, terminal_opened' = terminal_opened \cup {term},
         window_stack' = ToTop(window_stack, term)
  PROVE  Records' /\ Slots' /\ HandlerInUser' /\ Stacked' /\ ParentStays
<1>1. /\ new \in Task /\ new \notin {InitTask, IdleTask} /\ running \in Task
      /\ running # new /\ where[running] = run_queue /\ term \in Terminal
      /\ page \in Page /\ cursor' = NoNode
      /\ wait => running \notin {InitTask, IdleTask}
      /\ Opened' = Opened \cup {term} /\ ~pcb[new].valid
      /\ pcb'[new].valid /\ pcb'[new].flags = IF wait THEN {} ELSE {"TERMINAL_OWNER"}
  BY DEF Started, handlerVars, UserTaskRuns, Valid
<1>2. Records'
  BY <1>1 DEF Started, KernelInv, Records
<1>3. \A t \in Task : where'[t] = IF t = new THEN run_queue
                                  ELSE IF wait /\ t = running THEN wait4child_list
                                  ELSE where[t]
  BY DEF Started
<1>4. \A t \in Task \ {new} :
         /\ pcb'[t].valid = pcb[t].valid
         /\ pcb'[t].flags = IF wait /\ t = running
                            THEN pcb[t].flags \cup {"WAITING_CHILD"} ELSE pcb[t].flags
         /\ ~(wait /\ t = running) => pcb'[t] = pcb[t]
  BY DEF Started
<1>5. FlagsMatchLists'
  <2> SUFFICES ASSUME NEW t \in Task
               PROVE  /\ pcb'[t].valid <=> where'[t] # temp_list
                      /\ "WAITING_CHILD" \in pcb'[t].flags <=> where'[t] = wait4child_list
                      /\ "WAITING_TERMINAL" \in pcb'[t].flags
                           <=> where'[t] = terminal_wait_list
    BY DEF FlagsMatchLists
  <2>0. /\ pcb[t].valid <=> where[t] # temp_list
        /\ "WAITING_CHILD" \in pcb[t].flags <=> where[t] = wait4child_list
        /\ "WAITING_TERMINAL" \in pcb[t].flags <=> where[t] = terminal_wait_list
    BY DEF KernelInv, Slots, FlagsMatchLists
  <2>1. CASE t = new
    <3>1. "WAITING_CHILD" \notin pcb'[t].flags /\ "WAITING_TERMINAL" \notin pcb'[t].flags
      BY <2>1, <1>1
    <3> QED BY <3>1, <2>1, <1>1, <1>3, Distinct, Sentinels
  <2>2. CASE t # new /\ wait /\ t = running
    <3>1. pcb'[t].flags = pcb[t].flags \cup {"WAITING_CHILD"} /\ pcb'[t].valid = pcb[t].valid
      BY <2>2, <1>4
    <3>2. where'[t] = wait4child_list /\ where[t] = run_queue
      BY <2>2, <1>1, <1>3
    <3> QED BY <3>1, <3>2, <2>0, Distinct, Sentinels
  <2>3. CASE t # new /\ ~(wait /\ t = running)
    <3>1. pcb'[t] = pcb[t] /\ where'[t] = where[t]
      BY <2>3, <1>3, <1>4
    <3> QED BY <3>1, <2>0
  <2> QED BY <2>1, <2>2, <2>3
<1>6. Slots'
  <2>1. \A t \in {InitTask, IdleTask} : /\ t \in Task /\ t # new /\ ~(wait /\ t = running)
                                        /\ pcb'[t] = pcb[t] /\ where'[t] = where[t]
    <3>1. \A t \in {InitTask, IdleTask} : t \in Task /\ t # new /\ ~(wait /\ t = running)
      BY <1>1, Sentinels
    <3>2. \A t \in Task : t # new /\ ~(wait /\ t = running)
                            => pcb'[t] = pcb[t] /\ where'[t] = where[t]
      BY <1>3, <1>4
    <3> QED BY <3>1, <3>2
  <2>2. \A t \in Task : ~pcb'[t].valid => pcb'[t] = FreePcb
    <3> SUFFICES ASSUME NEW t \in Task, ~pcb'[t].valid PROVE pcb'[t] = FreePcb
      OBVIOUS
    <3>1. t # new /\ ~pcb[t].valid
      BY <1>1, <1>4
    <3>2. t # running
      BY <3>1, UserFacts
    <3> QED BY <3>1, <3>2, <1>4 DEF KernelInv, Slots
  <2> QED BY <2>1, <2>2, <1>5 DEF KernelInv, Slots
<1>7. HandlerInUser'
  BY <1>1 DEF HandlerInUser
<1>8. Stacked'
  <2>1. /\ window_stack' \in Seq(Terminal) /\ Injective(window_stack')
        /\ Windows(window_stack') = Opened \cup {term}
    BY <1>1, StackFacts, ToTopFacts
  <2>2. terminal_opened = Opened
    BY DEF KernelInv, Stacked
  <2> QED BY <2>1, <2>2, <1>1 DEF Stacked, Injective, Windows
<1>9. ParentStays
  BY <1>1, <1>3, Distinct DEF ParentStays, KernelInv, Slots, FlagsMatchLists
<1> QED BY <1>2, <1>6, <1>7, <1>8, <1>9

LEMMA ExecuteStep ==
  ASSUME KernelInv, InUser, NEW wait \in BOOLEAN, wait => UserTaskRuns,
         NEW file, CanExecute(~wait, file), system_execute(wait)
  PROVE  KernelStep
<1> DEFINE new == Lowest(FreeSlots)
           term == IF wait THEN pcb[running].terminal ELSE Lowest(FreeTerminals)
           page == Lowest(FreePages)
<1>1. Started(new, term, page, wait)
  BY ExecuteStarts
<1>2. /\ list' = ExecuteList(new, wait)
      /\ where' = [where EXCEPT ![new] = run_queue,
                     ![running] = IF wait THEN wait4child_list ELSE @]
      /\ remain' = sched_refill_time(remain, new)
      /\ running' = new
      /\ running_term' = term
      /\ window_stack' = ToTop(window_stack, term)
      /\ terminal_opened' = terminal_opened \cup {term}
      /\ hw' = [tss |-> new,
                pd  |-> terminal_set_running(
                          task_paging_set(hw.pd, page, {page}),
                          term, terminal_opened \cup {term})]
      /\ UNCHANGED handlerVars
  BY DEF system_execute
<1>3. IsFiniteSet(Valid)
  BY FreeSlotExists DEF CanExecute
<1> HIDE DEF new, term, page
<1>4. QueueInv'
  <2>1. /\ new \in Task /\ where[new] = temp_list /\ running \in Task /\ new # running
        /\ where[running] = run_queue /\ Sound(list, where)
        /\ remain \in [Task -> 0..SCHED_TASK_TICKS] /\ cursor = NoNode
    BY <1>1 DEF Started, Valid, KernelInv, Slots, FlagsMatchLists, QueueInv
  <2>2. Sound(list', where')
    BY <1>2, <2>1, ExecuteSound
  <2>3. where'[new] = run_queue
    BY <1>1 DEF Started
  <2>4. where'[InitTask] = run_queue
    <3>1. InitTask \in Task /\ InitTask # new /\ (wait => InitTask # running)
      BY <1>1, Sentinels DEF Started, UserTaskRuns
    <3> QED BY <3>1, <1>1 DEF Started, KernelInv, Slots
  <2>5. remain' \in [Task -> 0..SCHED_TASK_TICKS]
    BY <1>2, <2>1, RefillType
  <2> QED BY <1>2, <2>1, <2>2, <2>3, <2>4, <2>5
          DEF QueueInv, HandlerStaysInList, handlerVars, KernelInv
<1>5. Family' /\ NoRing' /\ Foreground' /\ FocusIsForeground'
  BY <1>1, StartedTree
<1>6. Pages' /\ Readers' /\ WokenReaderSatisfied'
  BY <1>1, <1>3, StartedPages, StartedReaders
<1>7. Mappings'
  BY <1>1, <1>2, StartedMappings
<1>8. Records' /\ Slots' /\ HandlerInUser' /\ Stacked' /\ ParentStays
  BY <1>1, <1>2, StartedRest
<1> QED BY <1>4, <1>5, <1>6, <1>7, <1>8 DEF KernelStep, KernelInv

\* The execute system call.
LEMMA SysExecuteStep ==
  ASSUME KernelInv, NEW file, SysExecute(file)
  PROVE  KernelStep
<1>1. CASE CanExecute(FALSE, file)
  <2>1. UserTaskRuns /\ InUser /\ system_execute(TRUE)
    BY <1>1 DEF SysExecute, UserTaskRuns
  <2> QED BY <1>1, <2>1, ExecuteStep
<1>2. CASE ~CanExecute(FALSE, file)
  <2>1. UNCHANGED vars /\ pcb[running].pc = "user"
    BY <1>2 DEF SysExecute, UserTaskRuns, InUser
  <2>2. /\ UNCHANGED <<schedVars, pcb, task_count, terminal_fg_task, page_id_running,
                       terminal_opened, ctxVars, terminal_slot, focus_task, window_stack>>
    BY <2>1 DEF vars, taskVars, termVars, focusVars
  <2>3. /\ terminal_slot' \in [Terminal -> Slot]
        /\ window_stack' \in Seq(Terminal) /\ Injective(window_stack')
        /\ Windows(window_stack') = Windows(window_stack)
        /\ Undisturbed(terminal_slot')
    BY <2>2, StackFacts, NobodyDisturbed DEF KernelInv, Records
  <2> QED BY <2>1, <2>2, <2>3, QuietStep
<1> QED BY <1>1, <1>2

\* A click on the terminal button.  When no shell can be started, what is left is
\* the cleared buffer of a terminal nobody uses.
LEMMA SpawnShellStep == KernelInv /\ SpawnShell => KernelStep
<1> SUFFICES ASSUME KernelInv, SpawnShell PROVE KernelStep
  OBVIOUS
<1>0. InUser /\ pcb[running].pc = "user"
  BY DEF SpawnShell, InUser
<1>1. CASE CanExecute(TRUE, "program")
  <2>1. system_execute(FALSE)
    BY <1>1 DEF SpawnShell
  <2> QED BY <1>0, <1>1, <2>1, ExecuteStep
<1>2. CASE ~CanExecute(TRUE, "program")
  <2> DEFINE i == Lowest(FreeTerminals)
             b == [terminal_slot EXCEPT ![i] = ClearedSlot(@)]
  <2>1. /\ UNCHANGED <<schedVars, pcb, task_count, terminal_fg_task, page_id_running,
                       terminal_opened, ctxVars, focus_task, window_stack>>
        /\ terminal_slot' = IF task_count < TASK_MAX_COUNT /\ FreeTerminals # {}
                            THEN b ELSE terminal_slot
    BY <1>2 DEF SpawnShell, taskVars, focusVars
  <2>2. terminal_slot \in [Terminal -> Slot]
    BY DEF KernelInv, Records
  <2>3. FreeTerminals # {} => i \in Terminal /\ i \notin Opened
    <3>1. FreeTerminals \in SUBSET Nat
      BY TerminalAssumption DEF FreeTerminals, Terminal
    <3>2. FreeTerminals # {} => i \in FreeTerminals
      BY <3>1, LowestIs
    <3> QED BY <3>2 DEF FreeTerminals, Opened
  <2> HIDE DEF i
  <2>4. FreeTerminals # {} =>
          /\ b \in [Terminal -> Slot]
          /\ \A j \in Terminal : /\ b[j].valid = terminal_slot[j].valid
                                 /\ j # i => b[j] = terminal_slot[j]
    BY <2>2, <2>3, SlotKept
  <2> HIDE DEF b
  <2>5. /\ terminal_slot' \in [Terminal -> Slot]
        /\ \A j \in Terminal : terminal_slot'[j].valid = terminal_slot[j].valid
        /\ Undisturbed(terminal_slot')
    <3>1. CASE task_count < TASK_MAX_COUNT /\ FreeTerminals # {}
      <4>1. \A t \in Task : where[t] = terminal_wait_list => pcb[t].terminal # i
        BY <3>1, <2>3, SleeperFacts
      <4>2. Undisturbed(b)
        BY <3>1, <4>1, <2>3, <2>4, OthersUndisturbed
      <4>3. terminal_slot' = b
        BY <3>1, <2>1
      <4> QED BY <3>1, <4>2, <4>3, <2>4
    <3>2. CASE ~(task_count < TASK_MAX_COUNT /\ FreeTerminals # {})
      <4>1. terminal_slot' = terminal_slot
        BY <3>2, <2>1
      <4> QED BY <4>1, <2>2, NobodyDisturbed
    <3> QED BY <3>1, <3>2
  <2>6. /\ window_stack' \in Seq(Terminal) /\ Injective(window_stack')
        /\ Windows(window_stack') = Windows(window_stack)
    BY <2>1, StackFacts
  <2> QED BY <1>0, <2>1, <2>5, <2>6, QuietStep
<1> QED BY <1>1, <1>2

-----------------------------------------------------------------------------
(***************************************************************************)
(* tear_down_task.  Torn says what it does to an innermost program t of the *)
(* terminal i: p is its parent, or NULL when i was opened with it.          *)
(***************************************************************************)
Torn(t, i, p) ==
  /\ t \in User /\ t \in Task /\ where[t] \in Lists /\ where[t] # wait4child_list
  /\ pcb[running].pc = "user"
  /\ cursor = NoNode /\ cursor' = NoNode
  /\ running \in Task /\ where[running] = run_queue
  /\ i = pcb[t].terminal /\ i \in Opened /\ i \in Terminal
  /\ terminal_fg_task[i] = t
  /\ p = pcb[t].parent /\ p # t
  /\ p # NULL => /\ p \in User /\ p \in Task
                 /\ where[p] = wait4child_list /\ pcb[p].terminal = i
  /\ p = NULL => \A u \in User : pcb[u].terminal = i => u = t
  /\ pcb' \in [Task -> Pcb] /\ pcb'[t] = FreePcb
  /\ \A u \in Task \ {t} :
       /\ pcb'[u].valid = pcb[u].valid /\ pcb'[u].parent = pcb[u].parent
       /\ pcb'[u].terminal = pcb[u].terminal /\ pcb'[u].page_id = pcb[u].page_id
       /\ pcb'[u].vidmap_enabled = pcb[u].vidmap_enabled
       /\ pcb'[u].pc = pcb[u].pc /\ pcb'[u].nbytes = pcb[u].nbytes
       /\ pcb'[u].flags = IF u = p THEN pcb[u].flags \ {"WAITING_CHILD"}
                                   ELSE pcb[u].flags
       /\ u # p => pcb'[u] = pcb[u]
  /\ \A u \in Task : where'[u] = IF u = t THEN temp_list
                                 ELSE IF u = p THEN run_queue ELSE where[u]
  /\ remain' \in [Task -> 0..SCHED_TASK_TICKS]
  /\ terminal_slot' \in [Terminal -> Slot]
  /\ \A j \in Terminal : j # i => terminal_slot'[j] = terminal_slot[j]
  /\ terminal_slot'[i].valid <=> p # NULL
  /\ terminal_fg_task' \in [Terminal -> Task \cup {NULL}]
  /\ \A j \in Terminal : terminal_fg_task'[j] = IF j = i THEN p ELSE terminal_fg_task[j]
  /\ task_count' = task_count - 1
  /\ Valid' = Valid \ {t} /\ User' = User \ {t}
  /\ Opened' = IF p = NULL THEN Opened \ {i} ELSE Opened
  /\ terminal_opened' = Opened'

\* The owner of a terminal that waits for nobody is the only program on it: every
\* other one would wait, and the innermost of them for a child on that terminal.
LEMMA OwnerAlone ==
  ASSUME KernelInv, NEW t \in User, pcb[t].parent = NULL, where[t] # wait4child_list,
         NEW u \in User, pcb[u].terminal = pcb[t].terminal
  PROVE  u = t
<1> DEFINE i == pcb[t].terminal
           T == {v \in User : pcb[v].terminal = i /\ v # t}
<1>1. \A v \in T : v \in Task /\ where[v] = wait4child_list
  <2>1. terminal_fg_task[i] = t
    BY DEF KernelInv, Foreground
  <2> QED BY <2>1, UserFacts DEF KernelInv, Foreground
<1>2. T \in SUBSET {p \in Task : where[p] = wait4child_list}
  BY <1>1
<1>3. T = {}
  <2> SUFFICES ASSUME T # {} PROVE FALSE
    OBVIOUS
  <2>1. PICK q \in T : \A v \in T : pcb[v].parent # q
    BY <1>2 DEF KernelInv, NoRing
  <2>2. PICK v \in User : pcb[v].parent = q
    BY <1>1 DEF KernelInv, Family
  <2>3. q # NULL
    BY <1>1, Distinct
  <2>4. pcb[v].terminal = pcb[q].terminal
    BY <2>2, <2>3 DEF KernelInv, Family
  <2> QED BY <2>1, <2>2, <2>3, <2>4
<1> QED BY <1>3

LEMMA TearDownTears ==
  ASSUME KernelInv, InUser, NEW t \in User, where[t] # wait4child_list,
         tear_down_task(t)
  PROVE  /\ Torn(t, pcb[t].terminal, pcb[t].parent)
         /\ IF pcb[t].parent = NULL THEN CloseTerminal(pcb[t].terminal)
                                    ELSE ReturnTerminal(pcb[t].parent)
<1> DEFINE i == pcb[t].terminal
           p == pcb[t].parent
<1>1. /\ t \in Task /\ running \in Task /\ where[running] = run_queue
      /\ pcb[running].pc = "user" /\ cursor = NoNode /\ cursor' = NoNode
      /\ pcb \in [Task -> Pcb] /\ terminal_slot \in [Terminal -> Slot]
      /\ terminal_fg_task \in [Terminal -> Task \cup {NULL}]
      /\ where \in [Task -> Lists \cup {temp_list}]
      /\ remain \in [Task -> 0..SCHED_TASK_TICKS]
      /\ i \in Opened /\ i \in Terminal /\ terminal_opened = Opened
      /\ RevivedParent(t) /\ task_count' = task_count - 1
  BY UserFacts DEF InUser, Interruptible, tear_down_task, handlerVars, KernelInv, Records,
                   QueueInv, Sound, Stacked
<1>2. where[t] \in Lists
  BY <1>1, UserFacts DEF KernelInv, Slots, FlagsMatchLists
<1>3. terminal_fg_task[i] = t
  BY <1>1 DEF KernelInv, Foreground
<1>4. p # NULL => /\ p \in User /\ p \in Task /\ p # t
                  /\ where[p] = wait4child_list /\ pcb[p].terminal = i
  BY UserFacts DEF KernelInv, Family
<1>5. p # t
  BY <1>1, <1>4, Distinct
<1>6. p = NULL => \A u \in User : pcb[u].terminal = i => u = t
  BY OwnerAlone
<1>7. "TERMINAL_OWNER" \in pcb[t].flags <=> p = NULL
  BY DEF KernelInv, Family
<1>8. IF p = NULL THEN CloseTerminal(i) ELSE ReturnTerminal(p)
  BY <1>7 DEF tear_down_task
<1>9. /\ \A u \in Task : where'[u] = IF u = t THEN temp_list
                                     ELSE IF u = p THEN run_queue ELSE where[u]
      /\ \A u \in Task : remain'[u] = IF u = t THEN 0
                                      ELSE IF u = p THEN SCHED_TASK_TICKS ELSE remain[u]
      /\ DOMAIN remain' = Task
      /\ pcb' = [u \in Task |->
                   IF u = t THEN FreePcb
                   ELSE IF u = p THEN [pcb[u] EXCEPT !.flags = @ \ {"WAITING_CHILD"}]
                   ELSE pcb[u]]
  BY <1>1, <1>5 DEF RevivedParent
<1>10. remain' \in [Task -> 0..SCHED_TASK_TICKS]
  <2>1. remain' = [u \in Task |-> remain'[u]]
    BY <1>1 DEF RevivedParent
  <2> QED BY <2>1, <1>1, <1>9, SliceAssumption
<1> HIDE DEF i, p
<1>11. /\ pcb' \in [Task -> Pcb] /\ pcb'[t] = FreePcb
       /\ \A u \in Task \ {t} :
            /\ pcb'[u].valid = pcb[u].valid /\ pcb'[u].parent = pcb[u].parent
            /\ pcb'[u].terminal = pcb[u].terminal /\ pcb'[u].page_id = pcb[u].page_id
            /\ pcb'[u].vidmap_enabled = pcb[u].vidmap_enabled
            /\ pcb'[u].pc = pcb[u].pc /\ pcb'[u].nbytes = pcb[u].nbytes
            /\ pcb'[u].flags = IF u = p THEN pcb[u].flags \ {"WAITING_CHILD"}
                                        ELSE pcb[u].flags
            /\ u # p => pcb'[u] = pcb[u]
  <2> DEFINE back(u) == [pcb[u] EXCEPT !.flags = @ \ {"WAITING_CHILD"}]
  <2>1. ASSUME NEW u \in Task
        PROVE  /\ back(u) \in Pcb
               /\ back(u).valid = pcb[u].valid /\ back(u).parent = pcb[u].parent
               /\ back(u).terminal = pcb[u].terminal /\ back(u).page_id = pcb[u].page_id
               /\ back(u).vidmap_enabled = pcb[u].vidmap_enabled
               /\ back(u).pc = pcb[u].pc /\ back(u).nbytes = pcb[u].nbytes
               /\ back(u).flags = pcb[u].flags \ {"WAITING_CHILD"}
    <3>1. pcb[u] \in Pcb
      BY <1>1
    <3> QED BY <3>1 DEF Pcb
  <2>2. pcb' = [u \in Task |-> IF u = t THEN FreePcb
                               ELSE IF u = p THEN back(u) ELSE pcb[u]]
    BY <1>9
  <2> HIDE DEF back
  <2>3. pcb' \in [Task -> Pcb]
    BY <2>1, <2>2, <1>1, EmptyPcbs
  <2>4. \A u \in Task : pcb'[u] = IF u = t THEN FreePcb
                                  ELSE IF u = p THEN back(u) ELSE pcb[u]
    BY <2>2
  <2>5. pcb'[t] = FreePcb
    BY <2>4, <1>1
  <2>6. ASSUME NEW u \in Task \ {t}
        PROVE  /\ pcb'[u].valid = pcb[u].valid /\ pcb'[u].parent = pcb[u].parent
               /\ pcb'[u].terminal = pcb[u].terminal /\ pcb'[u].page_id = pcb[u].page_id
               /\ pcb'[u].vidmap_enabled = pcb[u].vidmap_enabled
               /\ pcb'[u].pc = pcb[u].pc /\ pcb'[u].nbytes = pcb[u].nbytes
               /\ pcb'[u].flags = IF u = p THEN pcb[u].flags \ {"WAITING_CHILD"}
                                           ELSE pcb[u].flags
               /\ u # p => pcb'[u] = pcb[u]
    <3>1. CASE u = p
      <4>1. pcb'[u] = back(u)
        BY <3>1, <2>4
      <4> QED BY <3>1, <4>1, <2>1
    <3>2. CASE u # p
      <4>1. pcb'[u] = pcb[u]
        BY <3>2, <2>4
      <4> QED BY <3>2, <4>1
    <3> QED BY <3>1, <3>2
  <2> QED BY <2>3, <2>5, <2>6
<1>12. /\ terminal_slot' \in [Terminal -> Slot]
       /\ \A j \in Terminal : j # i => terminal_slot'[j] = terminal_slot[j]
       /\ terminal_slot'[i].valid <=> p # NULL
       /\ terminal_fg_task' = [terminal_fg_task EXCEPT ![i] = p]
       /\ terminal_opened' = IF p = NULL THEN Opened \ {i} ELSE Opened
  <2>1. CASE p = NULL
    <3>1. /\ terminal_slot' = [terminal_slot EXCEPT ![i].valid = FALSE]
          /\ terminal_fg_task' = [terminal_fg_task EXCEPT ![i] = NULL]
          /\ terminal_opened' = terminal_opened \ {i}
      BY <2>1, <1>8 DEF CloseTerminal
    <3>2. /\ [terminal_slot[i] EXCEPT !.valid = FALSE] \in Slot
          /\ [terminal_slot[i] EXCEPT !.valid = FALSE].valid = FALSE
      <4>1. ASSUME NEW slot \in Slot
            PROVE  /\ [slot EXCEPT !.valid = FALSE] \in Slot
                   /\ [slot EXCEPT !.valid = FALSE].valid = FALSE
        BY DEF Slot
      <4>2. terminal_slot[i] \in Slot
        BY <1>1
      <4> QED BY <4>1, <4>2
    <3> QED BY <3>1, <3>2, <2>1, <1>1, <1>3
  <2>2. CASE p # NULL
    <3>1. /\ terminal_slot' = terminal_slot
          /\ terminal_fg_task' = [terminal_fg_task EXCEPT ![i] = p]
          /\ terminal_opened' = terminal_opened
      BY <2>2, <1>4, <1>8 DEF ReturnTerminal, termVars
    <3>2. terminal_slot[i].valid
      BY <1>1 DEF Opened
    <3> QED BY <3>1, <3>2, <2>2, <1>1, <1>3
  <2> QED BY <2>1, <2>2
<1>13. /\ terminal_fg_task' \in [Terminal -> Task \cup {NULL}]
       /\ \A j \in Terminal : terminal_fg_task'[j] = IF j = i THEN p
                                                     ELSE terminal_fg_task[j]
  BY <1>1, <1>4, <1>12
<1>14. Valid' = Valid \ {t} /\ User' = User \ {t}
  <2>1. Valid' = Valid \ {t}
    BY <1>11, EmptyPcbs DEF Valid
  <2> QED BY <2>1 DEF User
<1>15. Opened' = IF p = NULL THEN Opened \ {i} ELSE Opened
  <2>1. Opened' = {j \in Terminal : IF j = i THEN p # NULL ELSE terminal_slot[j].valid}
    BY <1>12 DEF Opened
  <2>2. i \in Terminal /\ terminal_slot[i].valid
    BY <1>1 DEF Opened
  <2> QED BY <2>1, <2>2 DEF Opened
<1>16. Torn(t, i, p)
  <2>1. i = pcb[t].terminal /\ p = pcb[t].parent
    BY DEF i, p
  <2> QED BY <2>1, <1>1, <1>2, <1>3, <1>4, <1>5, <1>6, <1>9, <1>10, <1>11, <1>12, <1>13,
             <1>14, <1>15 DEF Torn
<1> QED BY <1>8, <1>16 DEF i, p

\* A task that dies leaves no child behind, and a parent that runs on takes its
\* place on the terminal.
LEMMA TornTree ==
  ASSUME KernelInv, NEW t, NEW i, NEW p, Torn(t, i, p)
  PROVE  Family' /\ NoRing' /\ Foreground' /\ ParentStays
<1>1. /\ t \in User /\ t \in Task /\ where[t] # wait4child_list
      /\ i = pcb[t].terminal /\ i \in Opened /\ i \in Terminal
      /\ terminal_fg_task[i] = t /\ p = pcb[t].parent /\ p # t
      /\ p # NULL => /\ p \in User /\ p \in Task
                     /\ where[p] = wait4child_list /\ pcb[p].terminal = i
      /\ p = NULL => \A u \in User : pcb[u].terminal = i => u = t
      /\ User' = User \ {t}
      /\ Opened' = IF p = NULL THEN Opened \ {i} ELSE Opened
      /\ run_queue # wait4child_list /\ run_queue # rtc_wait_list
      /\ temp_list # wait4child_list /\ temp_list # rtc_wait_list
  BY Distinct, Sentinels DEF Torn
<1>2. \A u \in User' : /\ u \in User /\ u \in Task /\ u # t
                       /\ pcb'[u].parent = pcb[u].parent
                       /\ pcb'[u].terminal = pcb[u].terminal
                       /\ "TERMINAL_OWNER" \in pcb'[u].flags
                            <=> "TERMINAL_OWNER" \in pcb[u].flags
  <2>1. \A u \in Task \ {t} :
          /\ pcb'[u].parent = pcb[u].parent /\ pcb'[u].terminal = pcb[u].terminal
          /\ pcb'[u].flags = IF u = p THEN pcb[u].flags \ {"WAITING_CHILD"}
                                      ELSE pcb[u].flags
    BY DEF Torn
  <2>2. \A u \in User' : u \in User /\ u \in Task \ {t}
    BY <1>1, UserFacts
  <2>3. ASSUME NEW u \in Task \ {t}
        PROVE  "TERMINAL_OWNER" \in pcb'[u].flags <=> "TERMINAL_OWNER" \in pcb[u].flags
    <3>1. CASE u = p
      <4>1. pcb'[u].flags = pcb[u].flags \ {"WAITING_CHILD"}
        BY <3>1, <2>1
      <4> QED BY <4>1
    <3>2. CASE u # p
      BY <3>2, <2>1
    <3> QED BY <3>1, <3>2
  <2> QED BY <2>1, <2>2, <2>3
<1>3. \A u \in Task : where'[u] = IF u = t THEN temp_list
                                  ELSE IF u = p THEN run_queue ELSE where[u]
  BY DEF Torn
<1>4. \A u \in User : pcb[u].parent # t
  BY <1>1, UserFacts, Distinct DEF KernelInv, Family
<1>5. \A u \in User' : pcb[u].parent = p => p = NULL
  BY <1>1, <1>2 DEF KernelInv, Family
<1>6. Family'
  <2>1. ASSUME NEW u \in User'
        PROVE  /\ pcb'[u].terminal \in Opened'
               /\ "TERMINAL_OWNER" \in pcb'[u].flags <=> pcb'[u].parent = NULL
               /\ pcb'[u].parent # NULL =>
                    /\ pcb'[u].parent \in User'
                    /\ where'[pcb'[u].parent] = wait4child_list
                    /\ pcb'[pcb'[u].parent].terminal = pcb'[u].terminal
               /\ where'[u] = rtc_wait_list => pcb'[u].parent # NULL
    <3>1. pcb'[u].terminal \in Opened'
      <4>1. pcb'[u].terminal = pcb[u].terminal /\ pcb[u].terminal \in Opened
        BY <2>1, <1>2, UserFacts
      <4>2. p = NULL => pcb[u].terminal # i
        BY <2>1, <1>1, <1>2
      <4> QED BY <4>1, <4>2, <1>1
    <3>2. "TERMINAL_OWNER" \in pcb'[u].flags <=> pcb'[u].parent = NULL
      BY <2>1, <1>2 DEF KernelInv, Family
    <3>3. ASSUME pcb'[u].parent # NULL
          PROVE  /\ pcb'[u].parent \in User'
                 /\ where'[pcb'[u].parent] = wait4child_list
                 /\ pcb'[pcb'[u].parent].terminal = pcb'[u].terminal
      <4> DEFINE q == pcb[u].parent
      <4>1. /\ u \in User /\ pcb'[u].parent = q /\ q # NULL /\ q # t /\ q # p
            /\ pcb'[u].terminal = pcb[u].terminal
        BY <2>1, <3>3, <1>2, <1>4, <1>5
      <4>2. q \in User /\ where[q] = wait4child_list /\ pcb[q].terminal = pcb[u].terminal
        BY <4>1 DEF KernelInv, Family
      <4> HIDE DEF q
      <4>3. q \in User' /\ q \in Task
        BY <4>1, <4>2, <1>1, UserFacts
      <4>4. where'[q] = wait4child_list /\ pcb'[q].terminal = pcb[u].terminal
        BY <4>1, <4>2, <4>3, <1>2, <1>3
      <4> QED BY <4>1, <4>3, <4>4
    <3>4. where'[u] = rtc_wait_list => pcb'[u].parent # NULL
      <4>1. u \in User /\ u \in Task /\ u # t /\ pcb'[u].parent = pcb[u].parent
        BY <2>1, <1>2
      <4>2. where'[u] = rtc_wait_list => where[u] = rtc_wait_list
        BY <4>1, <1>1, <1>3
      <4> QED BY <4>1, <4>2 DEF KernelInv, Family
    <3> QED BY <3>1, <3>2, <3>3, <3>4
  <2>2. \A u, v \in User' :
          pcb'[u].parent # NULL /\ pcb'[u].parent = pcb'[v].parent => u = v
    BY <1>2 DEF KernelInv, Family
  <2>3. ASSUME NEW q \in Task, where'[q] = wait4child_list
        PROVE  \E u \in User' : pcb'[u].parent = q
    <3>1. q # t /\ q # p /\ where[q] = wait4child_list
      BY <2>3, <1>1, <1>3
    <3>2. PICK u \in User : pcb[u].parent = q
      BY <3>1 DEF KernelInv, Family
    <3>3. u \in User'
      BY <3>1, <3>2, <1>1
    <3> QED BY <3>2, <3>3, <1>2
  <2> QED BY <2>1, <2>2, <2>3 DEF Family
<1>7. NoRing'
  <2> SUFFICES ASSUME NEW T \in SUBSET {q \in Task : where'[q] = wait4child_list},
                      T # {}
               PROVE  \E q \in T : \A u \in T : pcb'[u].parent # q
    BY DEF NoRing
  <2>1. \A u \in T : u \in Task \ {t} /\ where[u] = wait4child_list
    BY <1>1, <1>3
  <2>2. \A u \in Task \ {t} : pcb'[u].parent = pcb[u].parent
    BY DEF Torn
  <2>3. T \in SUBSET {q \in Task : where[q] = wait4child_list}
    BY <2>1
  <2>4. PICK q \in T : \A u \in T : pcb[u].parent # q
    BY <2>3 DEF KernelInv, NoRing
  <2> QED BY <2>1, <2>2, <2>4
<1>8. Foreground'
  <2>0. \A j \in Terminal : terminal_fg_task'[j] = IF j = i THEN p
                                                   ELSE terminal_fg_task[j]
    BY DEF Torn
  <2>1. \A j \in Terminal : j \notin Opened' => terminal_fg_task'[j] = NULL
    BY <2>0, <1>1 DEF KernelInv, Foreground
  <2>2. ASSUME NEW j \in Opened'
        PROVE  terminal_fg_task'[j] \in User' /\ pcb'[terminal_fg_task'[j]].terminal = j
    <3>1. CASE j = i
      <4>1. p # NULL /\ p \in User' /\ terminal_fg_task'[j] = p
        BY <3>1, <2>0, <2>2, <1>1
      <4> QED BY <3>1, <4>1, <1>1, <1>2
    <3>2. CASE j # i
      <4>1. j \in Opened /\ j \in Terminal /\ terminal_fg_task'[j] = terminal_fg_task[j]
        BY <3>2, <2>0, <2>2, <1>1, UserFacts
      <4>2. terminal_fg_task[j] \in User /\ pcb[terminal_fg_task[j]].terminal = j
        BY <4>1 DEF KernelInv, Foreground
      <4>3. terminal_fg_task[j] \in User'
        BY <4>2, <3>2, <1>1
      <4> QED BY <4>1, <4>2, <4>3, <1>2
    <3> QED BY <3>1, <3>2
  <2>3. ASSUME NEW u \in User'
        PROVE  where'[u] # wait4child_list <=> terminal_fg_task'[pcb'[u].terminal] = u
    <3>0. /\ u \in User /\ u \in Task /\ u # t /\ pcb'[u].terminal = pcb[u].terminal
          /\ pcb[u].terminal \in Terminal
          /\ where[u] # wait4child_list <=> terminal_fg_task[pcb[u].terminal] = u
      BY <2>3, <1>2, UserFacts DEF KernelInv, Foreground
    <3>1. CASE u = p
      <4>1. p # NULL
        BY <3>0, <3>1, Distinct
      <4> QED BY <4>1, <3>0, <3>1, <2>0, <1>1, <1>3
    <3>2. CASE u # p /\ pcb[u].terminal = i
      <4>1. where'[u] = wait4child_list
        BY <3>0, <3>2, <1>1, <1>3
      <4>2. terminal_fg_task'[pcb'[u].terminal] = p
        BY <3>0, <3>2, <2>0, <1>1
      <4> QED BY <4>1, <4>2, <3>2
    <3>3. CASE u # p /\ pcb[u].terminal # i
      BY <3>0, <3>3, <2>0, <1>3
    <3> QED BY <3>1, <3>2, <3>3
  <2>4. ASSUME NEW j \in Opened'
        PROVE  \E u \in User' : pcb'[u].terminal = j /\ pcb'[u].parent = NULL
    <3>1. j \in Opened /\ (p = NULL => j # i)
      BY <2>4, <1>1
    <3>2. PICK u \in User : pcb[u].terminal = j /\ pcb[u].parent = NULL
      BY <3>1 DEF KernelInv, Foreground
    <3>3. u # t
      BY <3>1, <3>2, <1>1
    <3> QED BY <3>2, <3>3, <1>1, <1>2
  <2>5. \A u, v \in User' :
          pcb'[u].parent = NULL /\ pcb'[v].parent = NULL
            /\ pcb'[u].terminal = pcb'[v].terminal => u = v
    BY <1>2 DEF KernelInv, Foreground
  <2> QED BY <2>1, <2>2, <2>3, <2>4, <2>5 DEF Foreground
<1>9. ParentStays
  <2> SUFFICES ASSUME NEW q \in Task, where[q] = wait4child_list,
                      where'[q] # wait4child_list
               PROVE  \E u \in Task : pcb[u].parent = q /\ pcb[u].valid /\ ~pcb'[u].valid
    BY DEF ParentStays
  <2>1. q = p
    BY <1>1, <1>3
  <2>2. pcb[t].valid /\ ~pcb'[t].valid
    BY <1>1, UserFacts, EmptyPcbs DEF Torn
  <2> QED BY <2>1, <2>2, <1>1
<1> QED BY <1>6, <1>7, <1>8, <1>9

\* The dead task's slot and page are free again.
LEMMA TornPages ==
  ASSUME KernelInv, NEW t, NEW i, NEW p, Torn(t, i, p),
         \/ page_id_running' = page_id_running
         \/ page_id_running' = page_id_running \ {pcb[t].page_id}
  PROVE  Pages'
<1>1. task_count' = Cardinality(Valid')
  <2>1. IsFiniteSet(Valid)
    <3>1. IsFiniteSet(Task)
      BY SlotsAssumption, FS_Interval DEF Task
    <3> QED BY <3>1, FS_Subset DEF Valid
  <2>2. t \in Valid
    BY DEF Torn, User
  <2>3. Cardinality(Valid \ {t}) = Cardinality(Valid) - 1
    BY <2>1, <2>2, FS_RemoveElement
  <2> QED BY <2>3 DEF Torn, KernelInv, Pages
<1>2. \A u \in User' : /\ u \in User /\ u # t /\ pcb'[u].page_id = pcb[u].page_id
  <2>1. \A u \in User' : u \in User /\ u \in Task \ {t}
    BY UserFacts DEF Torn
  <2> QED BY <2>1 DEF Torn
<1>3. t \in User
  BY DEF Torn
<1>4. \A u \in User' : pcb'[u].page_id \in page_id_running'
  <2>1. \A u \in User' : /\ pcb[u].page_id \in page_id_running
                         /\ pcb[u].page_id # pcb[t].page_id
    BY <1>2, <1>3 DEF KernelInv, Pages
  <2> QED BY <2>1, <1>2
<1>5. \A u, v \in User' : pcb'[u].page_id = pcb'[v].page_id => u = v
  BY <1>2 DEF KernelInv, Pages
<1> QED BY <1>1, <1>4, <1>5 DEF Pages

\* Readers sleep on other terminals.
LEMMA TornReaders ==
  ASSUME KernelInv, NEW t, NEW i, NEW p, Torn(t, i, p)
  PROVE  Readers' /\ WokenReaderSatisfied'
<1>1. /\ t \in User /\ pcb[running].pc = "user" /\ i \in Terminal
      /\ i = pcb[t].terminal /\ terminal_fg_task[i] = t
      /\ pcb'[t].pc = "user"
      /\ User' = User \ {t} /\ Opened \ {i} \subseteq Opened'
      /\ p # NULL => where[p] = wait4child_list
  BY EmptyPcbs DEF Torn
<1>2. \A u \in Task \ {t} :
         /\ pcb'[u].pc = pcb[u].pc /\ pcb'[u].nbytes = pcb[u].nbytes
         /\ pcb'[u].terminal = pcb[u].terminal
  BY DEF Torn
<1>3. \A u \in Task : where'[u] = IF u = t THEN temp_list
                                  ELSE IF u = p THEN run_queue ELSE where[u]
  BY DEF Torn
<1>4. \A u \in Task : u # t /\ pcb[u].pc = "read" =>
         /\ u \in User /\ where[u] = terminal_wait_list /\ where'[u] = where[u]
         /\ pcb[u].terminal \in Terminal /\ pcb[u].terminal # i
         /\ pcb[u].nbytes \in 1..KEYBOARD_BUF_SIZE
         /\ terminal_slot[pcb[u].terminal].user_ask_len = pcb[u].nbytes
  <2> SUFFICES ASSUME NEW u \in Task, u # t, pcb[u].pc = "read"
               PROVE  /\ u \in User /\ where[u] = terminal_wait_list
                      /\ where'[u] = where[u]
                      /\ pcb[u].terminal \in Terminal /\ pcb[u].terminal # i
                      /\ pcb[u].nbytes \in 1..KEYBOARD_BUF_SIZE
                      /\ terminal_slot[pcb[u].terminal].user_ask_len = pcb[u].nbytes
    OBVIOUS
  <2>1. where[u] = terminal_wait_list
    BY <1>1 DEF KernelInv, Readers
  <2>2. u # p
    BY <2>1, <1>1, Distinct
  <2> QED BY <2>1, <2>2, <1>1, <1>3, SleeperFacts
<1>5. \A j \in Terminal : j # i => /\ terminal_slot'[j] = terminal_slot[j]
                                   /\ terminal_fg_task'[j] = terminal_fg_task[j]
  BY DEF Torn
<1>6. Readers'
  <2>1. ASSUME NEW u \in Task, pcb'[u].pc = "read"
        PROVE  /\ u \in User'
               /\ where'[u] = terminal_wait_list
               /\ pcb'[u].nbytes \in 1..KEYBOARD_BUF_SIZE
               /\ terminal_slot'[pcb'[u].terminal].user_ask_len = pcb'[u].nbytes
    <3>1. u # t /\ pcb[u].pc = "read"
      BY <2>1, <1>1, <1>2
    <3> QED BY <3>1, <1>1, <1>2, <1>4, <1>5
  <2>2. ASSUME NEW u \in Task, where'[u] = terminal_wait_list
        PROVE  /\ pcb'[u].pc = "read"
               /\ ~Satisfied(terminal_slot'[pcb'[u].terminal], pcb'[u].nbytes)
    <3>1. u # t /\ where[u] = terminal_wait_list
      BY <2>2, <1>3, Distinct, Sentinels
    <3>2. pcb[u].pc = "read" /\ ~Satisfied(terminal_slot[pcb[u].terminal], pcb[u].nbytes)
      BY <3>1, SleeperFacts
    <3> QED BY <3>1, <3>2, <1>2, <1>4, <1>5
  <2> QED BY <2>1, <2>2 DEF Readers
<1>7. WokenReaderSatisfied'
  <2>1. \A u \in Task : pcb'[u].pc = "read" => where'[u] = terminal_wait_list
    <3> SUFFICES ASSUME NEW u \in Task, pcb'[u].pc = "read"
                 PROVE  where'[u] = terminal_wait_list
      OBVIOUS
    <3>1. u # t /\ pcb[u].pc = "read"
      BY <1>1, <1>2
    <3> QED BY <3>1, <1>4
  <2> QED BY <2>1, Distinct, Sentinels DEF WokenReaderSatisfied, Valid
<1> QED BY <1>6, <1>7

\* get_another_term_id finds an open terminal, if there is one besides i.
LEMMA AnotherTerm ==
  ASSUME NEW fg, NEW i \in Terminal, fg[i] = NULL
  PROVE  LET other == get_another_term_id(fg, i)
         IN  /\ other = NULL => \A j \in Terminal : fg[j] = NULL
             /\ other # NULL => other \in Terminal /\ fg[other] # NULL
<1> DEFINE N == TERMINAL_MAX_COUNT
           at(d) == (i - d + N) % N
           hits == {d \in 1..(N - 1) : fg[at(d)] # NULL}
           other == get_another_term_id(fg, i)
<1>1. N \in Nat /\ N > 0 /\ i \in 0..(N - 1) /\ Terminal = 0..(N - 1)
  BY TerminalAssumption DEF Terminal
<1>2. other = IF hits = {} THEN NULL ELSE at(Lowest(hits))
  BY DEF get_another_term_id
<1>3. \A d \in 1..(N - 1) : at(d) \in 0..(N - 1)
  BY <1>1
<1>4. ASSUME NEW j \in Terminal, j # i
      PROVE  \E d \in 1..(N - 1) : at(d) = j
  <2>1. CASE j < i
    <3>1. i - j \in 1..(N - 1) /\ i - (i - j) + N = j + N
      BY <2>1, <1>1
    <3>2. (j + N) % N = j
      BY <1>1
    <3>3. at(i - j) = j
      BY <3>1, <3>2
    <3> QED BY <3>1, <3>3
  <2>2. CASE j > i
    <3>1. i - j + N \in 1..(N - 1) /\ i - (i - j + N) + N = j
      BY <2>2, <1>1, <1>4
    <3>2. j % N = j
      BY <1>1
    <3>3. at(i - j + N) = j
      BY <3>1, <3>2
    <3> QED BY <3>1, <3>3
  <2> QED BY <2>1, <2>2, <1>1, <1>4
<1> HIDE DEF at
<1>5. CASE hits = {}
  <2>1. \A j \in Terminal : fg[j] = NULL
    BY <1>4, <1>5
  <2>2. other = NULL
    BY <1>2, <1>5
  <2> QED BY <2>1, <2>2
<1>6. CASE hits # {}
  <2>1. hits \in SUBSET Nat
    BY <1>1
  <2>2. Lowest(hits) \in hits
    BY <1>6, <2>1, LowestIs
  <2>3. other = at(Lowest(hits))
    BY <1>2, <1>6
  <2>4. other \in Terminal /\ fg[other] # NULL
    BY <2>2, <2>3, <1>1, <1>3
  <2>5. other # NULL
    BY <2>4, Distinct
  <2> QED BY <2>4, <2>5
<1> QED BY <1>5, <1>6

\* The focus goes to the parent, or to another terminal, or nowhere when none is left.
LEMMA TornFocus ==
  ASSUME KernelInv, NEW t, NEW i, NEW p, Torn(t, i, p),
         IF p = NULL THEN CloseTerminal(i) ELSE ReturnTerminal(p)
  PROVE  FocusIsForeground' /\ focus_task' \in Task \cup {NULL}
<1>1. /\ i \in Opened /\ i \in Terminal /\ terminal_fg_task[i] = t
      /\ p # NULL => pcb[p].terminal = i
      /\ Opened' = IF p = NULL THEN Opened \ {i} ELSE Opened
      /\ terminal_fg_task' \in [Terminal -> Task \cup {NULL}]
      /\ \A j \in Terminal : terminal_fg_task'[j] = IF j = i THEN p
                                                    ELSE terminal_fg_task[j]
      /\ Opened \subseteq Terminal
  BY UserFacts DEF Torn
<1>2. PICK j \in Opened : focus_task = terminal_fg_task[j]
  BY <1>1 DEF KernelInv, FocusIsForeground
<1>3. pcb[focus_task].terminal = j
  BY <1>2 DEF KernelInv, Foreground
<1>4. \A k \in Terminal : k \notin Opened => terminal_fg_task[k] = NULL
  BY DEF KernelInv, Foreground
<1>5. FocusIsForeground'
  <2>1. CASE p # NULL
    <3>1. focus_task' = IF pcb[focus_task].terminal = i THEN p ELSE focus_task
      BY <2>1, <1>1 DEF ReturnTerminal
    <3>2. focus_task' = terminal_fg_task'[j]
      BY <3>1, <1>1, <1>2, <1>3
    <3> QED BY <3>2, <2>1, <1>1, <1>2 DEF FocusIsForeground
  <2>2. CASE p = NULL /\ j # i
    <3>1. focus_task' = focus_task
      BY <2>2, <1>3 DEF CloseTerminal
    <3>2. j \in Opened' /\ terminal_fg_task'[j] = focus_task'
      BY <3>1, <2>2, <1>1, <1>2
    <3> QED BY <3>2 DEF FocusIsForeground
  <2>3. CASE p = NULL /\ j = i
    <3> DEFINE fg == [terminal_fg_task EXCEPT ![i] = NULL]
               other == get_another_term_id(fg, i)
    <3>1. /\ terminal_fg_task' = fg
          /\ focus_task' = IF other = NULL THEN NULL ELSE fg[other]
      BY <2>3, <1>3 DEF CloseTerminal
    <3>2. fg[i] = NULL
      BY <2>3, <3>1, <1>1
    <3> HIDE DEF fg
    <3>3. /\ other = NULL => \A k \in Terminal : fg[k] = NULL
          /\ other # NULL => other \in Terminal /\ fg[other] # NULL
      BY <3>2, <1>1, AnotherTerm
    <3> HIDE DEF other
    <3>4. CASE other = NULL
      <4>1. \A k \in Opened' : k \in Opened /\ k # i /\ k \in Terminal
        BY <2>3, <1>1
      <4>2. \A k \in Opened' : terminal_fg_task[k] = NULL
        BY <4>1, <3>1, <3>3, <3>4, <1>1
      <4>3. Opened' = {}
        BY <4>1, <4>2, UserFacts
      <4> QED BY <4>3, <3>1, <3>4 DEF FocusIsForeground
    <3>5. CASE other # NULL
      <4>1. /\ other \in Terminal
            /\ terminal_fg_task'[other] # NULL
            /\ focus_task' = terminal_fg_task'[other]
        BY <3>1, <3>3, <3>5
      <4>2. other # i /\ terminal_fg_task[other] # NULL
        BY <4>1, <2>3, <1>1
      <4>3. other \in Opened'
        BY <4>1, <4>2, <2>3, <1>1, <1>4
      <4> QED BY <4>1, <4>3 DEF FocusIsForeground
    <3> QED BY <3>4, <3>5
  <2> QED BY <2>1, <2>2, <2>3
<1>6. Opened' \subseteq Terminal
  BY <1>1
<1> QED BY <1>1, <1>5, <1>6 DEF FocusIsForeground

LEMMA TornRest ==
  ASSUME KernelInv, NEW t, NEW i, NEW p, Torn(t, i, p),
         IF p = NULL THEN CloseTerminal(i) ELSE ReturnTerminal(p),
         page_id_running' \subseteq Page
  PROVE  Records' /\ Slots' /\ HandlerInUser' /\ Stacked'
<1>1. Records'
  <2>1. focus_task' \in Task \cup {NULL}
    BY TornFocus
  <2> QED BY <2>1 DEF Torn, Records
<1>2. /\ t \in Task /\ t \notin {InitTask, IdleTask} /\ p \notin {InitTask, IdleTask}
      /\ p # t /\ p # NULL => where[p] = wait4child_list
      /\ pcb'[t] = FreePcb /\ i \in Opened /\ i \in Terminal
      /\ cursor' = NoNode /\ terminal_opened' = Opened'
      /\ Opened' = IF p = NULL THEN Opened \ {i} ELSE Opened
  BY Distinct, Sentinels DEF Torn, User
<1>3. \A u \in Task : where'[u] = IF u = t THEN temp_list
                                  ELSE IF u = p THEN run_queue ELSE where[u]
  BY DEF Torn
<1>4. \A u \in Task \ {t} :
         /\ pcb'[u].valid = pcb[u].valid
         /\ pcb'[u].flags = IF u = p THEN pcb[u].flags \ {"WAITING_CHILD"}
                                     ELSE pcb[u].flags
         /\ u # p => pcb'[u] = pcb[u]
  BY DEF Torn
<1>5. FlagsMatchLists'
  <2> SUFFICES ASSUME NEW u \in Task
               PROVE  /\ pcb'[u].valid <=> where'[u] # temp_list
                      /\ "WAITING_CHILD" \in pcb'[u].flags <=> where'[u] = wait4child_list
                      /\ "WAITING_TERMINAL" \in pcb'[u].flags
                           <=> where'[u] = terminal_wait_list
    BY DEF FlagsMatchLists
  <2>0. /\ pcb[u].valid <=> where[u] # temp_list
        /\ "WAITING_CHILD" \in pcb[u].flags <=> where[u] = wait4child_list
        /\ "WAITING_TERMINAL" \in pcb[u].flags <=> where[u] = terminal_wait_list
    BY DEF KernelInv, Slots, FlagsMatchLists
  <2>1. CASE u = t
    BY <2>1, <1>2, <1>3, EmptyPcbs, Distinct
  <2>2. CASE u # t /\ u = p
    <3>1. /\ pcb'[u].flags = pcb[u].flags \ {"WAITING_CHILD"}
          /\ pcb'[u].valid = pcb[u].valid
      BY <2>2, <1>4
    <3>2. where'[u] = run_queue /\ where[u] = wait4child_list
      <4>1. p # NULL
        BY <2>2, Distinct
      <4> QED BY <4>1, <2>2, <1>2, <1>3
    <3> QED BY <3>1, <3>2, <2>0, Distinct, Sentinels
  <2>3. CASE u # t /\ u # p
    <3>1. pcb'[u] = pcb[u] /\ where'[u] = where[u]
      BY <2>3, <1>3, <1>4
    <3> QED BY <3>1, <2>0
  <2> QED BY <2>1, <2>2, <2>3
<1>6. Slots'
  <2>1. \A u \in {InitTask, IdleTask} : /\ u \in Task /\ u # t /\ u # p
                                        /\ pcb'[u] = pcb[u] /\ where'[u] = where[u]
    BY <1>2, <1>3, <1>4, Sentinels
  <2>2. \A u \in Task : ~pcb'[u].valid => pcb'[u] = FreePcb
    <3> SUFFICES ASSUME NEW u \in Task, ~pcb'[u].valid, u # t PROVE pcb'[u] = FreePcb
      BY <1>2
    <3>1. ~pcb[u].valid
      BY <1>4
    <3>2. u # p
      <4>1. u = p => pcb[u].valid
        BY Distinct, UserFacts DEF Torn
      <4> QED BY <3>1, <4>1
    <3> QED BY <3>1, <3>2, <1>4 DEF KernelInv, Slots
  <2> QED BY <2>1, <2>2, <1>5 DEF KernelInv, Slots
<1>7. HandlerInUser'
  BY <1>2 DEF HandlerInUser
<1>8. Stacked'
  <2>1. /\ window_stack \in Seq(Terminal) /\ Injective(window_stack)
        /\ Windows(window_stack) = Opened
    BY StackFacts
  <2>2. CASE p = NULL
    <3>1. window_stack' = gui_destroy_window(window_stack, i)
      BY <2>2 DEF CloseTerminal
    <3>2. /\ window_stack' \in Seq(Terminal) /\ Injective(window_stack')
          /\ Windows(window_stack') = Opened \ {i}
      BY <2>1, <3>1, <1>2, DestroyFacts
    <3> QED BY <3>2, <2>2, <1>2 DEF Stacked, Injective, Windows
  <2>3. CASE p # NULL
    <3>1. window_stack' = window_stack
      BY <2>3 DEF ReturnTerminal, termVars
    <3> QED BY <3>1, <2>1, <2>3, <1>2 DEF Stacked, Injective, Windows
  <2> QED BY <2>2, <2>3
<1> QED BY <1>1, <1>6, <1>7, <1>8

\* The lists without the dead task; what runs next is up to the caller.
LEMMA TornLists ==
  ASSUME KernelInv, NEW t, NEW i, NEW p, Torn(t, i, p), tear_down_task(t)
  PROVE  /\ Sound(TornList(t), where')
         /\ where'[InitTask] = run_queue
         /\ where'[running] = IF t = running THEN temp_list ELSE run_queue
         /\ Sound(list', where') /\ running' \in Task /\ where'[running'] = run_queue
              => QueueInv'
<1>1. /\ t \in Task /\ t \notin {InitTask, IdleTask} /\ p \notin {InitTask, IdleTask}
      /\ where[t] \in Lists /\ p = pcb[t].parent /\ p # t
      /\ p # NULL => p \in Task /\ where[p] = wait4child_list
      /\ running \in Task /\ where[running] = run_queue
      /\ remain' \in [Task -> 0..SCHED_TASK_TICKS]
      /\ cursor = NoNode /\ cursor' = NoNode
      /\ \A u \in Task : where'[u] = IF u = t THEN temp_list
                                     ELSE IF u = p THEN run_queue ELSE where[u]
  BY Distinct, Sentinels DEF Torn, User
<1>2. Sound(TornList(t), where')
  BY <1>1, TornSound DEF tear_down_task, KernelInv, QueueInv
<1>3. where'[InitTask] = run_queue
  BY <1>1, Sentinels DEF KernelInv, Slots
<1>4. where'[running] = IF t = running THEN temp_list ELSE run_queue
  BY <1>1
<1>5. ASSUME Sound(list', where'), running' \in Task, where'[running'] = run_queue
      PROVE  QueueInv'
  <2>1. woken' = woken
    BY DEF tear_down_task, handlerVars
  <2> QED BY <2>1, <1>1, <1>3, <1>5 DEF QueueInv, HandlerStaysInList, KernelInv
<1> QED BY <1>2, <1>3, <1>4, <1>5

\* What a task that goes on has is what it had.
LEMMA SurvivorFacts ==
  ASSUME KernelInv, NEW t, NEW i, NEW p, Torn(t, i, p)
  PROVE  /\ User' \subseteq User /\ t \notin User'
         /\ \A u \in User' \cup (Task \ {t}) :
              /\ pcb'[u].terminal = pcb[u].terminal
              /\ pcb'[u].page_id = pcb[u].page_id
              /\ pcb'[u].vidmap_enabled = pcb[u].vidmap_enabled
<1>1. User' = User \ {t} /\ User \subseteq Task
  BY UserFacts DEF Torn
<1>2. \A u \in Task \ {t} : /\ pcb'[u].terminal = pcb[u].terminal
                            /\ pcb'[u].page_id = pcb[u].page_id
                            /\ pcb'[u].vidmap_enabled = pcb[u].vidmap_enabled
  BY DEF Torn
<1> QED BY <1>1, <1>2

\* Back to the parent: its image, on the terminal the dead program used.
LEMMA ParentMappings ==
  ASSUME KernelInv, NEW i, NEW p, Torn(running, i, p), p # NULL, HaltToParent(p)
  PROVE  Mappings'
<1> DEFINE used == page_id_running \ {pcb[running].page_id}
           pd1 == SetProgramPage(hw.pd, p, used)
           pd2 == terminal_set_running(pd1, i, terminal_opened')
<1>0. /\ 0 \in PdEntry /\ TASK_IMG_PAGE_ENTRY \in PdEntry /\ VIDMAP_PAGE_ENTRY \in PdEntry
      /\ TASK_IMG_PAGE_ENTRY # 0 /\ VIDMAP_PAGE_ENTRY # 0
      /\ VIDMAP_PAGE_ENTRY # TASK_IMG_PAGE_ENTRY
  BY DEF PdEntry, TASK_IMG_PAGE_ENTRY, VIDMAP_PAGE_ENTRY
<1>1. /\ DOMAIN hw.pd = PdEntry /\ running_term = pcb[running].terminal
      /\ IsTextEntry(hw.pd[0])
      /\ running_term # NULL
           => hw.pd[0] = TextEntry(kernel_video_memory_pt(running_term))
      /\ IsVidmapEntry(hw.pd[VIDMAP_PAGE_ENTRY])
      /\ \A u \in User : pcb[u].vidmap_enabled /\ pcb[u].terminal = running_term
           => hw.pd[VIDMAP_PAGE_ENTRY] \in {NoEntry, VidmapEntry(running_term)}
  BY DEF KernelInv, Mappings, IsTextEntry, IsVidmapEntry
<1>2. /\ running \in User /\ p \in User /\ p \in Task \ {running} /\ pcb[p].terminal = i
      /\ i \in Terminal /\ i # NULL /\ running_term = i
  BY <1>1, Distinct DEF Torn
<1>3. pcb[p].page_id # NULL /\ pcb[p].page_id \in used
  <2>1. pcb[p].page_id \in page_id_running /\ pcb[p].page_id # pcb[running].page_id
    BY <1>2 DEF KernelInv, Pages
  <2> QED BY <2>1, <1>2, UserFacts
<1>4. running' = p /\ running_term' = i /\ hw' = [tss |-> p, pd |-> pd2] /\ hw'.pd = pd2
  BY <1>2 DEF HaltToParent
<1> HIDE DEF used
<1>5. /\ DOMAIN pd1 = PdEntry /\ pd1[0] = hw.pd[0]
      /\ pd1[TASK_IMG_PAGE_ENTRY] = task_set_img_paging(pcb[p].page_id)
      /\ pd1[VIDMAP_PAGE_ENTRY] = hw.pd[VIDMAP_PAGE_ENTRY]
  BY <1>0, <1>1, <1>3 DEF SetProgramPage, task_paging_set
<1> HIDE DEF pd1
<1>6. /\ DOMAIN pd2 = PdEntry /\ IsTextEntry(pd2[0])
      /\ pd2[0] = TextEntry(kernel_video_memory_pt(i))
      /\ pd2[TASK_IMG_PAGE_ENTRY] = pd1[TASK_IMG_PAGE_ENTRY]
      /\ pd2[VIDMAP_PAGE_ENTRY] = pd1[VIDMAP_PAGE_ENTRY]
  BY <1>1, <1>2, <1>5, TextGood
<1> HIDE DEF pd2
<1>7. /\ pcb'[p].terminal = i /\ pcb'[p].page_id = pcb[p].page_id
      /\ \A u \in User' : /\ u \in User /\ pcb'[u].terminal = pcb[u].terminal
                          /\ pcb'[u].vidmap_enabled = pcb[u].vidmap_enabled
  BY <1>2, SurvivorFacts
<1> QED BY <1>1, <1>2, <1>4, <1>5, <1>6, <1>7 DEF Mappings, IsTextEntry, IsVidmapEntry

\* No parent: whatever the run queue offers, on another terminal or on none.
LEMMA QueueMappings ==
  ASSUME KernelInv, NEW i, NEW p, Torn(running, i, p), p = NULL,
         running' \in Task, where'[running'] = run_queue,
         SwitchMappings(running', terminal_opened')
  PROVE  Mappings'
<1>1. /\ \A u \in Task : where'[u] = IF u = running THEN temp_list
                                     ELSE IF u = p THEN run_queue ELSE where[u]
      /\ \A u \in User : pcb[u].terminal = i => u = running
      /\ terminal_opened' = Opened \ {i} /\ running \in User
  BY DEF Torn
<1>2. running' # running /\ where[running'] = run_queue
  BY <1>1, Distinct
<1>3. pcb[running'].valid
  BY <1>2, Distinct DEF KernelInv, Slots, FlagsMatchLists
<1>4. pcb[running'].terminal # NULL => pcb[running'].terminal \in terminal_opened'
  BY <1>1, <1>2, UserFacts
<1>5. /\ User' \subseteq User
      /\ \A u \in User' \cup {running'} :
           /\ pcb'[u].terminal = pcb[u].terminal
           /\ pcb'[u].page_id = pcb[u].page_id
           /\ pcb'[u].vidmap_enabled = pcb[u].vidmap_enabled
  BY <1>2, SurvivorFacts
<1> QED BY <1>3, <1>4, <1>5, SwitchGood

\* The running task goes on.
LEMMA SurvivorMappings ==
  ASSUME KernelInv, NEW t, NEW i, NEW p, Torn(t, i, p), t # running,
         UNCHANGED <<running, ctxVars>>
  PROVE  Mappings'
<1>1. UNCHANGED <<running, hw, running_term>>
  BY DEF ctxVars
<1>2. /\ pcb'[running].terminal = pcb[running].terminal
      /\ pcb'[running].page_id = pcb[running].page_id
      /\ \A u \in User' : /\ u \in User /\ pcb'[u].terminal = pcb[u].terminal
                          /\ pcb'[u].vidmap_enabled = pcb[u].vidmap_enabled
  BY UserFacts, SurvivorFacts
<1> QED BY <1>1, <1>2 DEF KernelInv, Mappings

-----------------------------------------------------------------------------
(***************************************************************************)
(* system_halt, and the close button.                                       *)
(***************************************************************************)
LEMMA HaltStep ==
  ASSUME KernelInv, InUser, running \in User, system_halt
  PROVE  KernelStep
<1> DEFINE i == pcb[running].terminal
           p == pcb[running].parent
<1>1. /\ where[running] # wait4child_list /\ pcb[running].pc = "user"
      /\ tear_down_task(running)
  BY Distinct DEF InUser, KernelInv, QueueInv, system_halt
<1>2. /\ Torn(running, i, p)
      /\ IF p = NULL THEN CloseTerminal(i) ELSE ReturnTerminal(p)
  BY <1>1, TearDownTears
<1>3. IF p # NULL THEN HaltToParent(p) ELSE HaltToQueue
  BY DEF system_halt
<1>4. p = pcb[running].parent
  OBVIOUS
<1> HIDE DEF i, p
<1>5. /\ \/ page_id_running' = page_id_running
         \/ page_id_running' = page_id_running \ {pcb[running].page_id}
      /\ page_id_running' \subseteq Page
  <2>1. page_id_running \subseteq Page
    BY DEF KernelInv, Records
  <2> QED BY <2>1, <1>3, <1>4 DEF HaltToParent, HaltToQueue
<1>6. Family' /\ NoRing' /\ Foreground' /\ ParentStays /\ Pages' /\ Readers'
      /\ WokenReaderSatisfied' /\ FocusIsForeground'
  BY <1>2, <1>5, TornTree, TornPages, TornReaders, TornFocus
<1>7. Records' /\ Slots' /\ HandlerInUser' /\ Stacked'
  BY <1>2, <1>5, TornRest
<1>8. /\ Sound(TornList(running), where') /\ where'[InitTask] = run_queue
      /\ Sound(list', where') /\ running' \in Task /\ where'[running'] = run_queue
           => QueueInv'
      /\ running \in Task
  BY <1>1, <1>2, TornLists, UserFacts
<1>9. QueueInv' /\ Mappings'
  <2>1. CASE p # NULL
    <3>1. HaltToParent(p) /\ list' = TornList(running) /\ running' = p
      BY <1>3, <2>1 DEF HaltToParent
    <3>2. p \in Task /\ where'[p] = run_queue
      BY <1>2, <2>1 DEF Torn
    <3> QED BY <3>1, <3>2, <2>1, <1>2, <1>8, ParentMappings
  <2>2. CASE p = NULL
    <3>1. /\ sched_launch_to_current_head(TornList(running))
          /\ SwitchMappings(LaunchTask(TornList(running), running), terminal_opened')
      BY <1>3, <2>2 DEF HaltToQueue
    <3>2. Sound(list', where') /\ running' \in Task /\ where'[running'] = run_queue
      BY <3>1, <1>8, LaunchStep
    <3>3. running' = LaunchTask(TornList(running), running)
      BY <3>1 DEF sched_launch_to_current_head
    <3> QED BY <3>1, <3>2, <3>3, <2>2, <1>2, <1>8, QueueMappings
  <2> QED BY <2>1, <2>2
<1> QED BY <1>6, <1>7, <1>9 DEF KernelStep, KernelInv

LEMMA SysHaltStep == KernelInv /\ SysHalt => KernelStep
<1> SUFFICES ASSUME KernelInv, SysHalt PROVE KernelStep
  OBVIOUS
<1>1. running \in User /\ InUser
  BY RunningUser DEF SysHalt, UserTaskRuns
<1> QED BY <1>1, HaltStep DEF SysHalt

\* The close button of the top window, whose task may be asleep in a read.
LEMMA CloseTopWindowStep ==
  ASSUME KernelInv, CloseTopWindow
  PROVE  KernelStep
<1> DEFINE w == Head(window_stack)
           t == terminal_fg_task[w]
           i == pcb[t].terminal
           p == pcb[t].parent
<1>1. InUser /\ window_stack # <<>> /\ task_halt_terminal(w)
  BY DEF CloseTopWindow
<1>2. w \in Opened
  <2>1. window_stack \in Seq(Terminal) /\ Windows(window_stack) = Opened
    BY StackFacts
  <2>2. 1 \in DOMAIN window_stack /\ w = window_stack[1]
    BY <2>1, <1>1
  <2> QED BY <2>1, <2>2 DEF Windows
<1>3. t \in User /\ where[t] # wait4child_list
  <2>1. t \in User /\ pcb[t].terminal = w
    BY <1>2 DEF KernelInv, Foreground
  <2> QED BY <2>1 DEF KernelInv, Foreground
<1>5. CASE t = running
  <2>1. system_halt
    BY <1>1, <1>5 DEF task_halt_terminal
  <2>2. running \in User
    BY <1>3, <1>5
  <2> QED BY <2>1, <2>2, <1>1, HaltStep
<1>6. CASE t # running
  <2>1. /\ tear_down_task(t) /\ list' = TornList(t)
        /\ UNCHANGED <<running, page_id_running, ctxVars>>
    BY <1>1, <1>6 DEF task_halt_terminal
  <2> HIDE DEF t
  <2>2. /\ Torn(t, i, p)
        /\ IF p = NULL THEN CloseTerminal(i) ELSE ReturnTerminal(p)
    BY <2>1, <1>1, <1>3, TearDownTears
  <2> HIDE DEF i, p
  <2>3. page_id_running' = page_id_running /\ page_id_running' \subseteq Page
    BY <2>1 DEF KernelInv, Records
  <2>4. Family' /\ NoRing' /\ Foreground' /\ ParentStays /\ Pages' /\ Readers'
        /\ WokenReaderSatisfied' /\ FocusIsForeground'
    BY <2>2, <2>3, TornTree, TornPages, TornReaders, TornFocus
  <2>5. Records' /\ Slots' /\ HandlerInUser' /\ Stacked'
    BY <2>2, <2>3, TornRest
  <2>6. Mappings'
    BY <2>1, <2>2, <1>6, SurvivorMappings
  <2>7. QueueInv'
    <3>1. /\ Sound(TornList(t), where')
          /\ where'[running] = IF t = running THEN temp_list ELSE run_queue
          /\ Sound(list', where') /\ running' \in Task /\ where'[running'] = run_queue
               => QueueInv'
      BY <2>1, <2>2, TornLists
    <3>2. running \in Task /\ running' = running
      BY <2>1, UserFacts
    <3> QED BY <3>1, <3>2, <2>1, <1>6
  <2> QED BY <2>4, <2>5, <2>6, <2>7 DEF KernelStep, KernelInv
<1> QED BY <1>5, <1>6

-----------------------------------------------------------------------------
(***************************************************************************)
(* All steps.                                                               *)
(***************************************************************************)
\* Nothing more happens in the model once a task has been misled.
LEMMA WorldKept ==
  ASSUME World, UNCHANGED vars
  PROVE  World'
<1>1. UNCHANGED <<list, running, remain, where, pcb, task_count, terminal_slot,
                  terminal_opened, window_stack, terminal_fg_task, focus_task,
                  page_id_running, running_term, hw>>
  BY DEF vars, schedVars, handlerVars, taskVars, termVars, focusVars, ctxVars
<1>2. Valid' = Valid /\ User' = User /\ Opened' = Opened
  BY <1>1 DEF Valid, User, Opened
<1>3. Family'
  BY <1>1, <1>2 DEF World, Family
<1>4. Foreground'
  BY <1>1, <1>2 DEF World, Foreground
<1>5. FocusIsForeground' /\ Pages' /\ Stacked' /\ Records'
  BY <1>1, <1>2 DEF World, FocusIsForeground, Pages, Stacked, Records
<1>6. Mappings'
  BY <1>1, <1>2 DEF World, Mappings
<1> QED BY <1>1, <1>3, <1>4, <1>5, <1>6 DEF World

LEMMA StutterStep ==
  ASSUME KernelInv, UNCHANGED vars
  PROVE  KernelStep
<1>1. /\ UNCHANGED <<list, running, remain, where, cursor, woken, pcb, task_count,
                     terminal_slot, terminal_opened, window_stack, terminal_fg_task,
                     focus_task, page_id_running, running_term, hw>>
      /\ UNCHANGED schedVars
  BY DEF vars, schedVars, handlerVars, taskVars, termVars, focusVars, ctxVars
<1>2. SameTree
  BY <1>1 DEF SameTree
<1>3. Valid' = Valid /\ User' = User /\ Opened' = Opened
  BY <1>2, SameTasks
<1>4. Family' /\ NoRing' /\ Foreground' /\ Pages' /\ Mappings' /\ FocusIsForeground'
  BY <1>1, <1>2, TreeKept, MappingsKept, FocusKept
<1>5. QueueInv'
  BY <1>1, QueueUnchanged DEF KernelInv
<1>6. Readers' /\ WokenReaderSatisfied'
  BY ZenonT(60), <1>1, <1>3 DEF KernelInv, Readers, WokenReaderSatisfied, Satisfied
<1>7. Records' /\ Stacked'
  BY <1>1, <1>3 DEF KernelInv, Records, Stacked
<1>8. Slots' /\ HandlerInUser'
  BY <1>1 DEF KernelInv, Slots, FlagsMatchLists, HandlerInUser
<1> QED BY <1>8, <1>1, <1>4, <1>5, <1>6, <1>7 DEF KernelStep, ParentStays, KernelInv

LEMMA EveryStep ==
  ASSUME KernelInv, [Next]_vars
  PROVE  KeyOutcome
<1> USE DEF KeyOutcome
<1>1. CASE PitInterrupt
  BY <1>1, PitInterruptStep
<1>2. CASE InitYields
  BY <1>2, InitYieldsStep
<1>3. CASE \E file \in File : SysExecute(file)
  BY <1>3, SysExecuteStep
<1>4. CASE SysHalt
  BY <1>4, SysHaltStep
<1>5. CASE SpawnShell
  BY <1>5, SpawnShellStep
<1>6. CASE CloseTopWindow
  BY <1>6, CloseTopWindowStep
<1>7. CASE \E k \in 2..TERMINAL_MAX_COUNT : PressOnWindow(k)
  BY <1>7, PressOnWindowStep
<1>8. CASE KeyEnter
  BY <1>8, KeyEnterStep
<1>9. CASE \E key \in {"char", "back", "none"}, fn \in {NULL, 0, 1, 2} :
             /\ fn \in Terminal \cup {NULL} /\ KeyOther(key, fn)
             /\ key # "none" => pcb[focus_task].terminal \in TypedInto
  BY <1>9, KeyOtherStep
<1>10. CASE \E nbytes \in ReadSizes : TerminalRead(nbytes)
  BY <1>10, ReadAtOnceStep, ReadSleepsStep
<1>11. CASE TerminalReadReturns
  BY <1>11, TerminalReadReturnsStep
<1>12. CASE \E count \in RtcCounts : RtcRead(count)
  BY <1>12, RtcReadStep
<1>13. CASE RtcInterruptBegins
  BY <1>13, RtcInterruptBeginsStep
<1>14. CASE RtcInterruptVisits
  BY <1>14, RtcInterruptVisitsStep
<1>15. CASE RtcInterruptEnds
  BY <1>15, RtcInterruptEndsStep
<1>16. CASE SysVidmap
  BY <1>16, SysVidmapStep
<1>17. CASE UNCHANGED vars
  BY <1>17, StutterStep
<1> QED BY <1>1, <1>2, <1>3, <1>4, <1>5, <1>6, <1>7, <1>8, <1>9, <1>10, <1>11, <1>12,
           <1>13, <1>14, <1>15, <1>16, <1>17 DEF Next, KeyStep, OtherStep

-----------------------------------------------------------------------------
(***************************************************************************)
(* What the invariant means, in the words of Kernel.tla.                    *)
(***************************************************************************)
LEMMA TypesCorrect == World => TypeOK
<1> SUFFICES ASSUME World PROVE TypeOK
  OBVIOUS
<1>1. /\ list \in [next : [Node -> Node], prev : [Node -> Node]]
      /\ running \in Task /\ remain \in [Task -> 0..SCHED_TASK_TICKS]
      /\ where \in [Task -> Lists \cup {temp_list}]
  BY DEF World, Heap
<1>2. /\ terminal_fg_task \in [Terminal -> Task \cup {NULL}]
      /\ focus_task \in Task \cup {NULL} /\ page_id_running \subseteq Page
      /\ pcb \in [Task -> Pcb] /\ terminal_slot \in [Terminal -> Slot]
  BY DEF World, Records
<1>3. \A t \in Task : /\ pcb[t].valid \in BOOLEAN /\ pcb[t].flags \subseteq Flag
                      /\ pcb[t].parent \in Task \cup {NULL}
                      /\ pcb[t].terminal \in Terminal \cup {NULL}
                      /\ pcb[t].page_id \in Page \cup {NULL}
                      /\ pcb[t].pc \in {"user", "read"}
  BY <1>2 DEF Pcb
<1>4. \A i \in Terminal : /\ terminal_slot[i].key_buf \in [Cell -> {"c", "n"}]
                           /\ terminal_slot[i].key_buf_cnt \in 0..255
                           /\ terminal_slot[i].user_ask_len \in 0..KEYBOARD_BUF_SIZE
  BY <1>2 DEF Slot
<1>5. task_count \in 0..TASK_MAX_COUNT
  <2>1. IsFiniteSet(Task) /\ Cardinality(Task) = TASK_MAX_COUNT
    BY SlotsAssumption, FS_Interval DEF Task
  <2>2. IsFiniteSet(Valid) /\ Cardinality(Valid) <= TASK_MAX_COUNT
    BY <2>1, FS_Subset DEF Valid
  <2>3. Cardinality(Valid) \in Nat
    BY <2>2, FS_CardinalityType
  <2> QED BY <2>2, <2>3, SlotsAssumption DEF World, Pages
<1>6. running_term \in Terminal \cup {NULL}
  BY <1>1, <1>3 DEF World, Mappings
<1> QED BY <1>1, <1>2, <1>3, <1>4, <1>5, <1>6 DEF TypeOK

LEMMA ListsMatch == KernelInv => ListsLinked /\ ListsComplete /\ FlagsMatchLists
<1> SUFFICES ASSUME KernelInv PROVE ListsLinked /\ ListsComplete /\ FlagsMatchLists
  OBVIOUS
<1>1. Sound(list, where)
  BY DEF KernelInv, QueueInv
<1>2. ListsLinked
  BY <1>1, SoundIsLinked DEF Sound
<1>3. ListsComplete
  BY <1>1, SoundComplete DEF ListsComplete
<1> QED BY <1>2, <1>3 DEF KernelInv, Slots

LEMMA ResourcesMatch == World => ResourcesAccounted
<1> SUFFICES ASSUME World PROVE ResourcesAccounted
  OBVIOUS
<1>1. \A t \in Valid : pcb[t].page_id # NULL => t \in User
  BY WorldFacts DEF Valid
<1>2. ASSUME NEW t \in Valid, pcb[t].page_id # NULL
      PROVE  /\ pcb[t].page_id \in page_id_running
             /\ \A u \in Valid \ {t} : pcb[u].page_id # pcb[t].page_id
  BY <1>1, <1>2 DEF World, Pages
<1> QED BY <1>2 DEF ResourcesAccounted, World, Pages

LEMMA ReadersApart == KernelInv => ReadersKeptApart
<1> SUFFICES ASSUME KernelInv, NEW t \in Valid, pcb[t].pc = "read"
             PROVE  /\ terminal_fg_task[pcb[t].terminal] = t
                    /\ terminal_slot[pcb[t].terminal].user_ask_len = pcb[t].nbytes
                    /\ where[t] = run_queue
                         <=> Satisfied(terminal_slot[pcb[t].terminal], pcb[t].nbytes)
  BY DEF ReadersKeptApart
<1>1. /\ t \in User /\ t \in Task /\ (where[t] = terminal_wait_list \/ t = running)
      /\ terminal_slot[pcb[t].terminal].user_ask_len = pcb[t].nbytes
  BY DEF KernelInv, Readers, Valid
<1>2. where[t] = terminal_wait_list \/ where[t] = run_queue
  BY <1>1 DEF KernelInv, QueueInv
<1>3. terminal_fg_task[pcb[t].terminal] = t
  <2>1. where[t] # wait4child_list
    BY <1>2, Distinct
  <2> QED BY <1>1, <2>1 DEF KernelInv, Foreground
<1>4. where[t] = terminal_wait_list
        => /\ where[t] # run_queue
           /\ ~Satisfied(terminal_slot[pcb[t].terminal], pcb[t].nbytes)
  BY <1>1, SleeperFacts, Sentinels
<1>5. where[t] = run_queue
        => Satisfied(terminal_slot[pcb[t].terminal], pcb[t].nbytes)
  BY DEF KernelInv, WokenReaderSatisfied
<1> QED BY <1>1, <1>2, <1>3, <1>4, <1>5

LEMMA TreeStands == World => TaskTree
<1> SUFFICES ASSUME World PROVE TaskTree
  OBVIOUS
<1>1. \A t \in Valid : pcb[t].parent # NULL => t \in User
  BY WorldFacts DEF Valid
<1>2. \A t \in Task : "WAITING_CHILD" \in pcb[t].flags <=> where[t] = wait4child_list
  BY DEF World
<1>3. \A t \in Valid : pcb[t].parent # NULL =>
        LET p == pcb[t].parent
        IN  /\ pcb[p].valid
            /\ "WAITING_CHILD" \in pcb[p].flags
            /\ pcb[p].terminal = pcb[t].terminal
  BY <1>1, <1>2, WorldFacts DEF World, Family
<1>4. ASSUME NEW p \in Valid, "WAITING_CHILD" \in pcb[p].flags
      PROVE  Cardinality({t \in Valid : pcb[t].parent = p}) = 1
  <2>1. p \in Task /\ where[p] = wait4child_list /\ p # NULL
    BY <1>2, <1>4, Distinct DEF Valid
  <2>2. PICK t \in User : pcb[t].parent = p
    BY <2>1 DEF World, Family
  <2>3. \A u \in Valid : pcb[u].parent = p => u = t
    BY <1>1, <2>1, <2>2 DEF World, Family
  <2>4. {u \in Valid : pcb[u].parent = p} = {t}
    BY <2>2, <2>3 DEF User
  <2> QED BY <2>4, FS_Singleton
<1>5. ASSUME NEW i \in Terminal
      PROVE  LET t == terminal_fg_task[i]
             IN  IF i \in Opened
                 THEN /\ t # NULL
                      /\ pcb[t].valid
                      /\ pcb[t].terminal = i
                      /\ "WAITING_CHILD" \notin pcb[t].flags
                 ELSE t = NULL
  <2>1. CASE i \in Opened
    <3>1. terminal_fg_task[i] \in User /\ pcb[terminal_fg_task[i]].terminal = i
      BY <2>1 DEF World, Foreground
    <3>2. where[terminal_fg_task[i]] # wait4child_list
      BY <3>1 DEF World, Foreground
    <3> QED BY <2>1, <3>1, <3>2, <1>2, WorldFacts
  <2>2. CASE i \notin Opened
    BY <2>2 DEF World, Foreground
  <2> QED BY <2>1, <2>2
<1> QED BY <1>3, <1>4, <1>5
        DEF TaskTree, ParentsWait, ForegroundIsInnermost, World

LEMMA WindowsMatch == World => WindowsMatchTerminals
<1> SUFFICES ASSUME World PROVE WindowsMatchTerminals
  OBVIOUS
<1>1. Len(window_stack) = Cardinality(Opened)
  <2> DEFINE n == Len(window_stack)
  <2>1. /\ window_stack \in Seq(Terminal) /\ Injective(window_stack)
        /\ Windows(window_stack) = Opened
    BY DEF World, Stacked, Injective, Windows
  <2>2. n \in Nat /\ DOMAIN window_stack = 1..n
    BY <2>1
  <2> HIDE DEF n
  <2>3. window_stack \in Bijection(1..n, Opened)
    <3>1. window_stack \in [1..n -> Opened]
      BY <2>1, <2>2 DEF Windows
    <3>2. \A s \in Opened : \E k \in 1..n : window_stack[k] = s
      BY <2>1, <2>2 DEF Windows
    <3> QED BY <2>1, <2>2, <3>1, <3>2 DEF Bijection, Injection, Surjection, IsInjective, Injective
  <2>4. ExistsBijection(1..n, Opened)
    BY <2>3 DEF ExistsBijection
  <2>5. Cardinality(Opened) = n
    BY <2>2, <2>4, FS_CountingElements
  <2> QED BY <2>5 DEF n
<1>2. ASSUME NEW i \in Opened
      PROVE  Cardinality({t \in Valid : /\ "TERMINAL_OWNER" \in pcb[t].flags
                                        /\ pcb[t].terminal = i}) = 1
  <2>1. PICK o \in User : pcb[o].terminal = i /\ pcb[o].parent = NULL
    BY DEF World, Foreground
  <2>2. \A t \in User : "TERMINAL_OWNER" \in pcb[t].flags <=> pcb[t].parent = NULL
    BY DEF World, Family
  <2>3. \A t \in Valid : pcb[t].terminal = i => t \in User
    BY WorldFacts, Distinct DEF Valid
  <2>4. \A t \in User : pcb[t].parent = NULL /\ pcb[t].terminal = i => t = o
    BY <2>1 DEF World, Foreground
  <2>5. {t \in Valid : /\ "TERMINAL_OWNER" \in pcb[t].flags
                       /\ pcb[t].terminal = i} = {o}
    BY <2>1, <2>2, <2>3, <2>4 DEF User
  <2> QED BY <2>5, FS_Singleton
<1> QED BY <1>1, <1>2 DEF WindowsMatchTerminals, World, Stacked

\* What a program can reach, entry by entry.
LEMMA EntryFrames ==
  /\ FramesBehind(NoEntry, Terminal) = {}
  /\ \A i : FramesBehind(VidmapEntry(i), Terminal) = {Buffer(i)}
  /\ \A table : FramesBehind(TextEntry(table), Terminal) = {}
  /\ \A page : FramesBehind(task_set_img_paging(page), Terminal) = {ImagePage(page) * SIZE_K}
  /\ \A e \in DOMAIN BootDirectory : FramesBehind(BootDirectory[e], Terminal) = {}
<1>1. FramesBehind(NoEntry, Terminal) = {}
  BY DEF FramesBehind, NoEntry, Entry
<1>2. ASSUME NEW i PROVE FramesBehind(VidmapEntry(i), Terminal) = {Buffer(i)}
  <2> DEFINE pde == VidmapEntry(i)
             table == PageTable(user_video_memory_pt(i), Terminal)
  <2>1. pde.present /\ pde.user /\ ~pde.page_size /\ pde.to = user_video_memory_pt(i)
    BY DEF VidmapEntry, set_PDE_4kB, NoEntry, Entry
  <2>2. table = [e \in {VIDMEM_PAGE_ENTRY} |-> set_PTE(Buffer(i), TRUE)]
    BY DEF PageTable, user_video_memory_pt
  <2>3. set_PTE(Buffer(i), TRUE).user /\ set_PTE(Buffer(i), TRUE).to[2] = Buffer(i)
    BY DEF set_PTE, Entry
  <2> HIDE DEF table
  <2>4. {table[e].to[2] : e \in {x \in DOMAIN table : table[x].user}} = {Buffer(i)}
    BY <2>2, <2>3
  <2> HIDE DEF pde
  <2>5. FramesBehind(pde, Terminal) = {Buffer(i)}
    BY <2>1, <2>4 DEF FramesBehind, table
  <2> QED BY <2>5 DEF pde
<1>3. ASSUME NEW table PROVE FramesBehind(TextEntry(table), Terminal) = {}
  BY DEF FramesBehind, TextEntry, set_PDE_4kB, NoEntry, Entry
<1>4. ASSUME NEW page
      PROVE  FramesBehind(task_set_img_paging(page), Terminal) = {ImagePage(page) * SIZE_K}
  BY DEF FramesBehind, task_set_img_paging, Entry
<1>5. ASSUME NEW e \in DOMAIN BootDirectory
      PROVE  FramesBehind(BootDirectory[e], Terminal) = {}
  <2>1. ~BootDirectory[e].user
    BY DEF BootDirectory, set_PDE_4kB, NoEntry, Entry
  <2> QED BY <2>1 DEF FramesBehind
<1> QED BY <1>1, <1>2, <1>3, <1>4, <1>5

LEMMA OwnWorld == World => OwnAddressSpace
<1> SUFFICES ASSUME World PROVE OwnAddressSpace
  OBVIOUS
<1> DEFINE me == pcb[running]
           image == ImagePage(me.page_id) * SIZE_K
           reach == UserFrames(Directory, Terminal)
           vid == FramesBehind(hw.pd[VIDMAP_PAGE_ENTRY], Terminal)
           shared == IF me.vidmap_enabled THEN {Buffer(me.terminal)}
                                          ELSE {Buffer(i) : i \in Terminal}
<1>1. /\ hw.tss = running /\ DOMAIN hw.pd = PdEntry /\ running_term = me.terminal
      /\ IsTextEntry(hw.pd[0])
      /\ running_term # NULL
           => hw.pd[0] = TextEntry(kernel_video_memory_pt(running_term))
      /\ me.page_id # NULL =>
           hw.pd[TASK_IMG_PAGE_ENTRY] = task_set_img_paging(me.page_id)
      /\ IsVidmapEntry(hw.pd[VIDMAP_PAGE_ENTRY])
      /\ \A t \in User : pcb[t].vidmap_enabled /\ pcb[t].terminal = running_term
           => hw.pd[VIDMAP_PAGE_ENTRY] \in {NoEntry, VidmapEntry(running_term)}
  <2>1. hw = [tss |-> running, pd |-> hw.pd]
    BY DEF World, Mappings
  <2>2. hw.tss = running
    BY <2>1
  <2> QED BY <2>2 DEF World, Mappings, IsTextEntry, IsVidmapEntry
<1>2. /\ DOMAIN Directory = DOMAIN BootDirectory
      /\ DOMAIN BootDirectory = 0..33
      /\ PdEntry = {0, 32, 33} /\ VIDMAP_PAGE_ENTRY = 33 /\ TASK_IMG_PAGE_ENTRY = 32
      /\ \A e \in 0..33 : Directory[e] = IF e \in PdEntry THEN hw.pd[e] ELSE BootDirectory[e]
  BY <1>1 DEF Directory, BootDirectory, PdEntry, VIDMAP_PAGE_ENTRY, TASK_IMG_PAGE_ENTRY
<1>3. me.terminal # NULL => TextFrame(Directory, Terminal) = Buffer(me.terminal)
  <2> SUFFICES ASSUME me.terminal # NULL
               PROVE  TextFrame(Directory, Terminal) = Buffer(me.terminal)
    OBVIOUS
  <2> DEFINE i == me.terminal
  <2>1. Directory[0].to = kernel_video_memory_pt(i)
    <3>1. Directory[0] = TextEntry(kernel_video_memory_pt(i))
      BY <1>1, <1>2
    <3>2. TextEntry(kernel_video_memory_pt(i)).to = kernel_video_memory_pt(i)
      BY DEF TextEntry, set_PDE_4kB, NoEntry, Entry
    <3> QED BY <3>1, <3>2
  <2> HIDE DEF i
  <2>2. PageTable(kernel_video_memory_pt(i), Terminal)
          = [e \in {VIDMEM_PAGE_ENTRY} |-> set_PTE(Buffer(i), FALSE)]
    BY DEF PageTable, kernel_video_memory_pt
  <2>3. set_PTE(Buffer(i), FALSE).to[2] = Buffer(i)
    BY DEF set_PTE, Entry
  <2>4. TextFrame(Directory, Terminal) = Buffer(i)
    BY <2>1, <2>2, <2>3 DEF TextFrame
  <2> QED BY <2>4 DEF i
<1>4. ASSUME me.page_id # NULL
      PROVE  image \in reach /\ reach \ {image} \subseteq shared
  <2>1. \A e \in 0..33 : FramesBehind(Directory[e], Terminal)
          = IF e = 32 THEN {image} ELSE IF e = 33 THEN vid ELSE {}
    <3> SUFFICES ASSUME NEW e \in 0..33
                 PROVE  FramesBehind(Directory[e], Terminal)
                          = IF e = 32 THEN {image} ELSE IF e = 33 THEN vid ELSE {}
      OBVIOUS
    <3>1. CASE e = 32
      <4>1. Directory[e] = task_set_img_paging(me.page_id)
        BY <3>1, <1>1, <1>2, <1>4
      <4> QED BY <4>1, <3>1, EntryFrames
    <3>2. CASE e = 33
      BY <3>2, <1>2
    <3>3. CASE e = 0
      <4>1. PICK table : hw.pd[0] = TextEntry(table)
        BY <1>1 DEF IsTextEntry
      <4> QED BY <4>1, <3>3, <1>2, EntryFrames
    <3>4. CASE e \notin {0, 32, 33}
      <4>1. Directory[e] = BootDirectory[e] /\ e \in DOMAIN BootDirectory
        BY <3>4, <1>2
      <4> QED BY <4>1, <3>4, EntryFrames
    <3> QED BY <3>1, <3>2, <3>3, <3>4
  <2>2. reach = UNION {FramesBehind(Directory[e], Terminal) : e \in 0..33}
    BY <1>2 DEF UserFrames
  <2>3. vid \subseteq shared
    <3>1. CASE hw.pd[VIDMAP_PAGE_ENTRY] = NoEntry
      BY <3>1, EntryFrames
    <3>2. CASE hw.pd[VIDMAP_PAGE_ENTRY] # NoEntry
      <4>1. PICK i \in Terminal : hw.pd[VIDMAP_PAGE_ENTRY] = VidmapEntry(i)
        BY <3>2, <1>1 DEF IsVidmapEntry
      <4>2. vid = {Buffer(i)}
        BY <4>1, EntryFrames
      <4>3. CASE ~me.vidmap_enabled
        BY <4>2, <4>3
      <4>4. CASE me.vidmap_enabled
        <5>1. running \in User
          BY <4>4, WorldFacts
        <5>2. hw.pd[VIDMAP_PAGE_ENTRY] = VidmapEntry(running_term)
          BY <5>1, <4>4, <3>2, <1>1
        <5>3. vid = {Buffer(running_term)}
          BY <5>2, EntryFrames
        <5> QED BY <5>3, <4>4, <1>1
      <4> QED BY <4>3, <4>4
    <3> QED BY <3>1, <3>2
  <2> HIDE DEF image, reach, vid, shared
  <2>4. reach = {image} \cup vid
    <3>1. \A x : x \in reach <=> \E e \in 0..33 : x \in FramesBehind(Directory[e], Terminal)
      BY <2>2
    <3>2. 32 \in 0..33 /\ 33 \in 0..33
      OBVIOUS
    <3> QED BY <2>1, <3>1, <3>2
  <2> QED BY <2>3, <2>4
<1> QED BY <1>1, <1>3, <1>4 DEF OwnAddressSpace

-----------------------------------------------------------------------------
(***************************************************************************)
(* Theorems, for every value of the constants and every input: also of a    *)
(* user who closes the window of a sleeping reader, types while Alt+Fn is   *)
(* held down, and reads lines in pieces of several sizes.                   *)
(***************************************************************************)

\* Up to the first misled wake-up everything holds, in that state still the world
\* that each task sees.
KernelInvariant == World /\ (misled \/ KernelInv)

LEMMA Always ==
  /\ Init => KernelInvariant
  /\ KernelInvariant /\ [Next]_vars => KernelInvariant'
  /\ KernelInvariant /\ [Next]_vars => ParentStays \/ UNCHANGED vars
<1>1. KernelInv' => World'
  BY InvWorld, PTL
<1>2. Init => KernelInvariant
  BY Boot, InvWorld DEF KernelInvariant
<1>3. ASSUME KernelInvariant, [Next]_vars
      PROVE  KernelInvariant' /\ (ParentStays \/ UNCHANGED vars)
  <2>1. CASE UNCHANGED vars /\ misled
    <3>1. misled' = misled
      BY <2>1 DEF vars
    <3> QED BY <3>1, <2>1, <1>3, WorldKept DEF KernelInvariant
  <2>2. CASE KernelInv
    <3>1. KeyOutcome
      BY <1>3, <2>2, EveryStep
    <3> QED BY <3>1, <1>1 DEF KernelInvariant, KeyOutcome, KernelStep
  <2>3. misled => UNCHANGED vars
    BY <1>3 DEF Next
  <2> QED BY <2>1, <2>2, <2>3, <1>3 DEF KernelInvariant
<1> QED BY <1>2, <1>3

\* The invariant holds after boot and after every system call and interrupt.
THEOREM KernelInvariantHolds == Spec => []KernelInvariant
BY Always, PTL DEF Spec

\* Every variable keeps its type: execute, halt, keys and the RTC handler leave no
\* dangling task, terminal or page number in a PCB.
THEOREM KernelTypesHold == Spec => []TypeOK
<1>1. KernelInvariant => TypeOK
  BY TypesCorrect DEF KernelInvariant
<1> QED BY KernelInvariantHolds, <1>1, PTL

\* The pointers of the task lists agree in both directions, whatever tasks are
\* created, torn down, put to sleep and woken, until handle_scan_code inserts a
\* task that is not asleep.
THEOREM KernelListsStayLinked == Spec => []KernelListsLinked
<1>1. KernelInvariant => KernelListsLinked
  BY ListsMatch DEF KernelInvariant, KernelListsLinked
<1> QED BY KernelInvariantHolds, <1>1, PTL

\* Until then every live task is in the one list that its flags name, and dead ones
\* in none: system_execute, tear_down_task, sleepers and wake-ups move and mark
\* together.
THEOREM KernelListsAgree == Spec => []ListsAgree
<1>1. KernelInvariant => ListsAgree
  BY ListsMatch DEF KernelInvariant, ListsAgree
<1> QED BY KernelInvariantHolds, <1>1, PTL

\* task_count counts the slots in use, so task_allocate_new_slot finds one when it
\* looks for one, and no page is given to two tasks.
THEOREM KernelResourcesAccounted == Spec => []ResourcesAccounted
<1>1. KernelInvariant => ResourcesAccounted
  BY ResourcesMatch DEF KernelInvariant
<1> QED BY KernelInvariantHolds, <1>1, PTL

\* Whoever switched to it, the running task has its own kernel stack, image and
\* screen, and reaches no other task's.
THEOREM KernelAddressSpaces == Spec => []OwnAddressSpace
<1>1. KernelInvariant => OwnAddressSpace
  BY OwnWorld DEF KernelInvariant
<1> QED BY KernelInvariantHolds, <1>1, PTL

\* Until handle_scan_code is misled, it wakes the reader of the terminal that the key
\* went to, in the moment when there is what it asked for.
THEOREM KernelReadersApart == Spec => []ReadersKeptApart
<1>1. KernelInvariant => ReadersKeptApart
  BY ReadersApart DEF KernelInvariant, ReadersKeptApart
<1> QED BY KernelInvariantHolds, <1>1, PTL

\* A waiting parent has one live child, on its own terminal; the foreground task is
\* the innermost program of the terminal and the focus is one of those.
THEOREM KernelTaskTree == Spec => []TaskTree
<1>1. KernelInvariant => TaskTree
  BY TreeStands DEF KernelInvariant
<1> QED BY KernelInvariantHolds, <1>1, PTL

\* Terminals, windows and video buffers are opened and closed together, and each
\* open terminal has one owner: gui_new_window never runs out of places.
THEOREM KernelWindows == Spec => []WindowsMatchTerminals
<1>1. KernelInvariant => WindowsMatchTerminals
  BY WindowsMatch DEF KernelInvariant
<1> QED BY KernelInvariantHolds, <1>1, PTL

\* Nothing but the death of its child takes a parent out of wait4child_list.
THEOREM KernelParentsWait == Spec => ParentReturnsOnlyAfterChild
<1>1. KernelInvariant /\ [Next]_vars =>
        [\A p \in Task :
           where[p] = wait4child_list /\ where'[p] # wait4child_list
             => \E t \in Task : pcb[t].parent = p /\ pcb[t].valid /\ ~pcb'[t].valid
          ]_vars
  BY Always DEF ParentStays
<1> QED BY KernelInvariantHolds, <1>1, PTL DEF Spec, ParentReturnsOnlyAfterChild

=============================================================================
