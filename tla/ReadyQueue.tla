----------------------------- MODULE ReadyQueue -----------------------------
(***************************************************************************)
(* What the scheduler promises, without pointers: the runnable tasks stand  *)
(* in a sequence, the CPU belongs to one of them, the others sleep.  A task *)
(* that used its slice goes to the end, a task that is woken goes to the    *)
(* front, and the idle task never stays in front of somebody else.          *)
(***************************************************************************)
EXTENDS Naturals, Sequences, SequencesExt

CONSTANTS AllTasks, Init0, Idle

VARIABLES
  queue,   \* the runnable tasks
  cpu,     \* the task that has the processor
  asleep,  \* the others
  late     \* tasks were woken, and the processor has not been given away yet

vars == <<queue, cpu, asleep, late>>

\* The idle rule: at the front only when it is alone.
Settle(q) == IF Len(q) > 1 /\ Head(q) = Idle THEN Append(Tail(q), Idle) ELSE q

Dispatch(q) == /\ queue' = Settle(q)
               /\ cpu' = Head(Settle(q))

\* Time is up, or the task gives the rest of its slice away.  The task that has
\* the processor stands at the front, until others are woken.
Rotate == /\ ~late
          /\ Dispatch(Append(Tail(queue), cpu))
          /\ UNCHANGED <<asleep, late>>

Block == /\ ~late
         /\ cpu \notin {Init0, Idle}
         /\ asleep' = asleep \cup {cpu}
         /\ Dispatch(Tail(queue))
         /\ UNCHANGED late

\* A sleeper jumps the queue, and gets the processor at once ...
Unblock(t) == /\ ~late
              /\ asleep' = asleep \ {t}
              /\ Dispatch(<<t>> \o queue)
              /\ UNCHANGED late

\* ... or others do so too before the processor is given to the last of them.
UnblockOneOfSome(t) == /\ asleep' = asleep \ {t}
                       /\ queue' = <<t>> \o queue
                       /\ late' = TRUE
                       /\ UNCHANGED cpu

Catch == /\ late
         /\ Dispatch(queue)
         /\ late' = FALSE
         /\ UNCHANGED asleep

Init == /\ asleep = {}
        /\ queue \in Seq(AllTasks)
        /\ IsInjective(queue) /\ ToSet(queue) = AllTasks
        /\ cpu = Head(queue)
        /\ late = FALSE

Next == \/ Rotate \/ Block \/ Catch
        \/ \E t \in asleep : Unblock(t) \/ UnblockOneOfSome(t)

Spec == Init /\ [][Next]_vars
=============================================================================
