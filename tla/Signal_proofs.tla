--------------------------- MODULE Signal_proofs ----------------------------
(***************************************************************************)
(* Proofs about Signal.tla, for any number of tasks, any values in EAX, any *)
(* handlers and any alarm interval: handlers do not nest, the interrupted   *)
(* program is intact, and no program runs with a signal to be delivered.    *)
(***************************************************************************)
EXTENDS Signal, TLAPS

Context == [code : {"main", "handler"}, eax : Value]

SignalStruct ==
  [pending_signal : SUBSET Sig, masked_signal : SUBSET Sig,
   available : SUBSET Sig, alarm_time : 0..ALARM_TICKS,
   current_handlers : [Sig -> {"default", "user"}]]

Types ==
  /\ signals \in [Task -> SignalStruct]
  /\ context \in [Task -> Context]
  /\ stack \in [Task -> Seq(Context)]
  /\ main \in [Task -> Value]
  /\ valid \subseteq Task /\ asleep \subseteq valid
  /\ focus \in valid \cup {None}
  /\ running \in Ready \cup {KernelTask}
  /\ mode \in {"user", "kernel"}

(***************************************************************************)
(* The strengthening: a handler runs over exactly one saved context, that   *)
(* of the main program, and what sigreturn will restore as the mask is      *)
(* empty.  sg, c, st, v are signals, context, stack and main of one task.   *)
(***************************************************************************)
Consistent(sg, c, st, v) ==
  \/ /\ c = At("main", v)
     /\ st = <<>>
     /\ sg.masked_signal = {}
  \/ /\ c.code = "handler"
     /\ st = <<At("main", v)>>
     /\ sg.masked_signal = Sig
     /\ sg.available = {}

AllConsistent ==
  \A t \in Task : Consistent(signals[t], context[t], stack[t], main[t])

Inv == Types /\ AllConsistent /\ PromptDelivery

-----------------------------------------------------------------------------
LEMMA FreshTask ==
  /\ task_signal_init \in SignalStruct
  /\ task_signal_init.pending_signal = {}
  /\ At("main", 0) \in Context
  /\ Consistent(task_signal_init, At("main", 0), <<>>, 0)
BY SignalAssumption
DEF task_signal_init, SignalStruct, Context, At, Consistent

\* A change of one task's struct that leaves its masks alone
MasksKept(new, old) ==
  /\ new \in [Task -> SignalStruct]
  /\ \A t \in Task : /\ new[t].masked_signal = old[t].masked_signal
                     /\ new[t].available = old[t].available

LEMMA StructUpdate ==
  ASSUME NEW sg \in [Task -> SignalStruct], NEW u \in Task,
         NEW x \in SignalStruct,
         x.masked_signal = sg[u].masked_signal, x.available = sg[u].available
  PROVE  MasksKept([sg EXCEPT ![u] = x], sg)
BY DEF MasksKept

LEMMA SendKeeps ==
  ASSUME NEW sg \in [Task -> SignalStruct], NEW s \in Sig,
         Addressee(s) \in Task \cup {None}
  PROVE  MasksKept(signal_send(sg, s), sg)
<1>1. CASE Addressee(s) = None
  BY <1>1 DEF signal_send, MasksKept
<1>2. CASE Addressee(s) # None
  <2> DEFINE u == Addressee(s)
             x == [sg[u] EXCEPT !.pending_signal = @ \cup {s}]
  <2>1. u \in Task /\ sg[u] \in SignalStruct
        /\ sg[u].pending_signal \cup {s} \in SUBSET Sig
    BY <1>2 DEF SignalStruct
  <2>2. /\ x \in SignalStruct
        /\ x.masked_signal = sg[u].masked_signal /\ x.available = sg[u].available
    BY <2>1 DEF SignalStruct
  <2>3. signal_send(sg, s) = [sg EXCEPT ![u] = x]
    BY <1>2 DEF signal_send
  <2> HIDE DEF u, x
  <2> QED BY <2>1, <2>2, <2>3, StructUpdate
<1> QED BY <1>1, <1>2

LEMMA AlarmKeeps ==
  ASSUME Types
  PROVE  MasksKept(AlarmTick(signals), signals)
<1>1. CASE focus = None
  BY <1>1 DEF AlarmTick, Types, MasksKept
<1>2. CASE focus # None
  <2> DEFINE sent == signal_send(signals, SIGNAL_ALARM)
             x == [sent[focus] EXCEPT !.alarm_time = 0]
             y == [signals[focus] EXCEPT !.alarm_time = @ + 1]
  <2>1. focus \in Task /\ signals[focus] \in SignalStruct
    BY <1>2 DEF Types
  <2>2. MasksKept(sent, signals)
    <3>1. Addressee(SIGNAL_ALARM) = focus /\ SIGNAL_ALARM \in Sig
      BY DEF Addressee, SIGNAL_ALARM, Sig
    <3> QED BY <2>1, <3>1, SendKeeps DEF Types
  <2>3. CASE signals[focus].alarm_time + 1 > ALARM_TICKS
    <3>1. AlarmTick(signals) = [sent EXCEPT ![focus] = x]
      BY <1>2, <2>3 DEF AlarmTick
    <3>2. /\ x \in SignalStruct
          /\ x.masked_signal = sent[focus].masked_signal
          /\ x.available = sent[focus].available
      <4>1. sent[focus] \in SignalStruct /\ 0 \in 0..ALARM_TICKS
        BY <2>1, <2>2, SignalAssumption DEF MasksKept
      <4> HIDE DEF sent
      <4> QED BY <4>1 DEF SignalStruct
    <3> HIDE DEF sent, x
    <3>3. MasksKept([sent EXCEPT ![focus] = x], sent)
      BY <2>1, <2>2, <3>2, StructUpdate DEF MasksKept
    <3> QED BY <2>2, <3>1, <3>3 DEF MasksKept
  <2>4. CASE ~(signals[focus].alarm_time + 1 > ALARM_TICKS)
    <3>1. AlarmTick(signals) = [signals EXCEPT ![focus] = y]
      BY <1>2, <2>4 DEF AlarmTick
    <3>2. /\ y \in SignalStruct
          /\ y.masked_signal = signals[focus].masked_signal
          /\ y.available = signals[focus].available
      BY <2>1, <2>4, SignalAssumption DEF SignalStruct
    <3> HIDE DEF y
    <3>3. MasksKept([signals EXCEPT ![focus] = y], signals)
      BY <2>1, <3>2, StructUpdate DEF Types
    <3> QED BY <3>1, <3>3
  <2> QED BY <2>3, <2>4
<1> QED BY <1>1, <1>2

\* Only the masks of a task matter to Consistent.
LEMMA ConsistentMasks ==
  ASSUME NEW sg, NEW sg2, NEW c, NEW st, NEW v, Consistent(sg, c, st, v),
         sg2.masked_signal = sg.masked_signal, sg2.available = sg.available
  PROVE  Consistent(sg2, c, st, v)
BY DEF Consistent

LEMMA MasksKeptConsistent ==
  ASSUME AllConsistent, MasksKept(signals', signals),
         UNCHANGED <<context, stack, main>>
  PROVE  AllConsistent'
BY ConsistentMasks DEF AllConsistent, MasksKept

\* A value for EAX goes to the program that is in user mode, or to its handler.
LEMMA EaxConsistent ==
  ASSUME Types, AllConsistent, MasksKept(signals', signals),
         NEW t \in Task, NEW v \in Value, UNCHANGED stack,
         context' = [context EXCEPT ![t].eax = v],
         main' = IF InMain(t) THEN [main EXCEPT ![t] = v] ELSE main
  PROVE  /\ AllConsistent'
         /\ context' \in [Task -> Context] /\ main' \in [Task -> Value]
<1>1. context' \in [Task -> Context] /\ main' \in [Task -> Value]
  BY DEF Types, Context
<1>2. ASSUME NEW u \in Task
      PROVE  Consistent(signals'[u], context'[u], stack'[u], main'[u])
  <2>0. Consistent(signals'[u], context[u], stack[u], main[u])
    BY ConsistentMasks DEF AllConsistent, MasksKept
  <2>1. CASE u # t
    <3>1. context'[u] = context[u] /\ main'[u] = main[u]
      BY <2>1 DEF Types
    <3> QED BY <2>0, <3>1
  <2>2. CASE u = t
    <3>1. context'[t] = [context[t] EXCEPT !.eax = v]
      BY DEF Types
    <3>2. CASE InMain(t)
      <4>1. main'[t] = v
        BY <3>2 DEF Types
      <4>2. context[t] \in Context
        BY DEF Types
      <4>3. context'[t] = At("main", v)
        BY <3>1, <3>2, <4>2 DEF Context, At, InMain
      <4> QED BY <2>0, <2>2, <3>2, <4>1, <4>3 DEF Consistent, InMain
    <3>3. CASE ~InMain(t)
      <4>1. main'[t] = main[t]
        BY <3>3
      <4>2. context[t] \in Context
        BY DEF Types
      <4>3. context'[t].code = context[t].code
        BY <3>1, <4>2 DEF Context
      <4> QED BY <2>0, <2>2, <3>3, <4>1, <4>3 DEF Consistent, InMain, At
    <3> QED BY <3>2, <3>3
  <2> QED BY <2>1, <2>2
<1> QED BY <1>1, <1>2 DEF AllConsistent

\* A task that starts, or a slot that is vacated
LEMMA StartConsistent ==
  ASSUME Types, AllConsistent, NEW t \in Task,
         signals' = [signals EXCEPT ![t] = task_signal_init], UserStarts(t, 0)
  PROVE  /\ AllConsistent'
         /\ signals' \in [Task -> SignalStruct] /\ context' \in [Task -> Context]
         /\ stack' \in [Task -> Seq(Context)] /\ main' \in [Task -> Value]
<1>1. /\ context' = [context EXCEPT ![t] = At("main", 0)]
      /\ main' = [main EXCEPT ![t] = 0]
      /\ stack' = [stack EXCEPT ![t] = <<>>]
  BY DEF UserStarts
<1>2. /\ signals' \in [Task -> SignalStruct] /\ context' \in [Task -> Context]
      /\ stack' \in [Task -> Seq(Context)] /\ main' \in [Task -> Value]
  BY <1>1, FreshTask, SignalAssumption DEF Types
<1>3. ASSUME NEW u \in Task
      PROVE  Consistent(signals'[u], context'[u], stack'[u], main'[u])
  <2>1. CASE u = t
    BY <1>1, <2>1, FreshTask DEF Types
  <2>2. CASE u # t
    <3>1. /\ signals'[u] = signals[u] /\ context'[u] = context[u]
          /\ stack'[u] = stack[u] /\ main'[u] = main[u]
      BY <1>1, <2>2 DEF Types
    <3> QED BY <3>1 DEF AllConsistent
  <2> QED BY <2>1, <2>2
<1> QED BY <1>2, <1>3 DEF AllConsistent

LEMMA InitInv == Init => Inv
<1> SUFFICES ASSUME Init PROVE Inv
  OBVIOUS
<1>1. Types
  BY FreshTask, SignalAssumption DEF Init, Types, Ready
<1>2. AllConsistent
  BY FreshTask DEF Init, AllConsistent
<1>3. PromptDelivery
  BY SignalAssumption DEF Init, PromptDelivery
<1> QED BY <1>1, <1>2, <1>3 DEF Inv

LEMMA HaltInv ==
  ASSUME Inv, NEW t \in Task, system_halt(t)
  PROVE  Inv'
<1>1. /\ AllConsistent'
      /\ signals' \in [Task -> SignalStruct] /\ context' \in [Task -> Context]
      /\ stack' \in [Task -> Seq(Context)] /\ main' \in [Task -> Value]
  BY StartConsistent DEF Inv, system_halt
<1>2. /\ valid' \subseteq Task /\ asleep' \subseteq valid'
      /\ focus' \in valid' \cup {None}
      /\ running' \in (valid' \ asleep') \cup {KernelTask}
      /\ mode' = "kernel"
  BY DEF Inv, Types, system_halt
<1> QED BY <1>1, <1>2 DEF Inv, Types, Ready, PromptDelivery

\* What is delivered interrupts the main program: in a handler all is masked.
LEMMA DeliverableInMain ==
  ASSUME Types, AllConsistent, NEW r \in Task, Deliverable(r) # {}
  PROVE  /\ context[r] = At("main", main[r]) /\ stack[r] = <<>>
         /\ signals[r].masked_signal = {} /\ signals[r] \in SignalStruct
<1>1. signals[r] \in SignalStruct /\ signals[r].pending_signal \subseteq Sig
  BY DEF Types, SignalStruct
<1>2. signals[r].masked_signal # Sig
  BY <1>1 DEF Deliverable
<1> QED BY <1>1, <1>2 DEF AllConsistent, Consistent

LEMMA RunHandlerInv ==
  ASSUME Inv, running \in Task, Deliverable(running) # {}, RunHandler(running)
  PROVE  Inv'
<1> DEFINE r == running
           x == [signals[r] EXCEPT !.available = signals[r].masked_signal,
                                   !.masked_signal = Sig,
                                   !.pending_signal = {}]
<1>1. /\ r \in Task
      /\ context[r] = At("main", main[r]) /\ stack[r] = <<>>
      /\ signals[r].masked_signal = {} /\ signals[r] \in SignalStruct
      /\ main[r] \in Value
  BY DeliverableInMain DEF Inv, Types
<1>2. /\ x \in SignalStruct /\ x.masked_signal = Sig
      /\ x.available = {} /\ x.pending_signal = {}
  BY <1>1 DEF SignalStruct
<1>3. /\ signals' = [signals EXCEPT ![r] = x]
      /\ stack' = [stack EXCEPT ![r] = <<context[r]>> \o @]
      /\ context' = [context EXCEPT ![r].code = "handler"]
      /\ UNCHANGED <<main, stuck, taskVars, running>> /\ mode' = "user"
  BY DEF RunHandler, SetUpHandler
<1>4. /\ signals'[r] = x /\ context'[r].code = "handler"
      /\ context'[r] \in Context /\ main'[r] = main[r]
      /\ stack'[r] = <<At("main", main[r])>> /\ stack'[r] \in Seq(Context)
  <2>1. stack'[r] = <<context[r]>> \o <<>>
    BY <1>1, <1>3 DEF Inv, Types
  <2>2. <<context[r]>> \o <<>> = <<context[r]>> /\ context[r] \in Context
    BY <1>1 DEF Inv, Types
  <2>3. signals'[r] = x /\ main'[r] = main[r]
    BY <1>1, <1>3 DEF Inv, Types
  <2>4. context'[r] = [context[r] EXCEPT !.code = "handler"]
    BY <1>1, <1>3 DEF Inv, Types
  <2>5. context'[r].code = "handler" /\ context'[r] \in Context
    BY <2>2, <2>4 DEF Context
  <2>6. /\ stack'[r] = <<context[r]>>
        /\ <<context[r]>> \in Seq(Context)
    BY <2>1, <2>2
  <2> QED BY <1>1, <2>3, <2>5, <2>6
<1>5. ASSUME NEW t \in Task, t # r
      PROVE  /\ signals'[t] = signals[t] /\ context'[t] = context[t]
             /\ stack'[t] = stack[t] /\ main'[t] = main[t]
  BY <1>1, <1>3, <1>5 DEF Inv, Types
<1> HIDE DEF r, x
<1>6. Types'
  <2>1. /\ signals' \in [Task -> SignalStruct] /\ context' \in [Task -> Context]
        /\ stack' \in [Task -> Seq(Context)]
    BY <1>1, <1>2, <1>3, <1>4, <1>5 DEF Inv, Types
  <2> QED BY <1>3, <2>1 DEF Inv, Types, taskVars, Ready
<1>7. AllConsistent'
  <2>1. Consistent(signals'[r], context'[r], stack'[r], main'[r])
    BY <1>2, <1>4 DEF Consistent
  <2> QED BY <1>5, <2>1 DEF Inv, AllConsistent
<1>8. PromptDelivery'
  BY <1>2, <1>3, <1>4 DEF PromptDelivery, Deliverable, r
<1> QED BY <1>6, <1>7, <1>8 DEF Inv

LEMMA IgnoreInv ==
  ASSUME Inv, running \in Task, Deliverable(running) # {}, Ignore(running)
  PROVE  Inv'
<1> DEFINE r == running
           x == [signals[r] EXCEPT !.available = signals[r].masked_signal,
                                   !.pending_signal = {}]
<1>1. /\ r \in Task
      /\ context[r] = At("main", main[r]) /\ stack[r] = <<>>
      /\ signals[r].masked_signal = {} /\ signals[r] \in SignalStruct
  BY DeliverableInMain DEF Inv
<1>2. /\ x \in SignalStruct /\ x.masked_signal = {} /\ x.pending_signal = {}
  BY <1>1 DEF SignalStruct
<1>3. /\ signals' = [signals EXCEPT ![r] = x]
      /\ UNCHANGED <<context, stack, main, stuck, taskVars, running>>
      /\ mode' = "user"
  BY DEF Ignore, userVars
<1> HIDE DEF r, x
<1>4. signals'[r] = x /\ signals' \in [Task -> SignalStruct]
  BY <1>1, <1>2, <1>3 DEF Inv, Types
<1>5. Types'
  BY <1>3, <1>4 DEF Inv, Types, taskVars, Ready
<1>6. AllConsistent'
  <2>1. Consistent(signals'[r], context'[r], stack'[r], main'[r])
    BY <1>1, <1>2, <1>3, <1>4 DEF Consistent
  <2>2. ASSUME NEW t \in Task, t # r  PROVE signals'[t] = signals[t]
    BY <1>1, <1>3, <2>2 DEF Inv, Types
  <2> QED BY <1>3, <2>1, <2>2 DEF Inv, AllConsistent
<1>7. PromptDelivery'
  BY <1>2, <1>3, <1>4 DEF PromptDelivery, Deliverable, r
<1> QED BY <1>5, <1>6, <1>7 DEF Inv

LEMMA CheckInv ==
  ASSUME Inv, signal_check
  PROVE  Inv'
<1>1. CASE running = KernelTask \/ Deliverable(running) = {}
  <2>1. /\ UNCHANGED <<signals, userVars, taskVars, running>> /\ mode' = "user"
    BY <1>1 DEF signal_check
  <2> QED
    BY <1>1, <2>1, SignalAssumption
    DEF Inv, Types, AllConsistent, PromptDelivery, Deliverable, Ready,
        userVars, taskVars
<1>2. CASE ~(running = KernelTask \/ Deliverable(running) = {})
  <2>1. running \in Task
    BY <1>2 DEF Inv, Types, Ready
  <2>2. RunHandler(running) \/ system_halt(running) \/ Ignore(running)
    BY <1>2 DEF signal_check
  <2> QED BY <1>2, <2>1, <2>2, RunHandlerInv, HaltInv, IgnoreInv
<1> QED BY <1>1, <1>2

(***************************************************************************)
(* The other steps end in kernel mode, except that of a program that        *)
(* computes and the start of one.                                           *)
(***************************************************************************)
LEMMA SigreturnInv ==
  ASSUME Inv, sigreturn
  PROVE  Inv'
<1> DEFINE r == running
           x == [signals[r] EXCEPT !.masked_signal = signals[r].available]
<1>1. /\ r \in Task /\ ~InMain(r) /\ signals[r] \in SignalStruct
      /\ main[r] \in Value
  BY DEF sigreturn, Program, Inv, Types
<1>2. stack[r] = <<At("main", main[r])>> /\ signals[r].available = {}
  BY <1>1 DEF Inv, AllConsistent, Consistent, InMain, At
<1>3. /\ Head(stack[r]) = At("main", main[r]) /\ Tail(stack[r]) = <<>>
      /\ Head(stack[r]) \in Context /\ <<>> \in Seq(Context)
  BY <1>1, <1>2 DEF Context, At
<1>4. x \in SignalStruct /\ x.masked_signal = {}
  BY <1>1, <1>2 DEF SignalStruct
<1>5. /\ context' = [context EXCEPT ![r] = Head(stack[r])]
      /\ stack' = [stack EXCEPT ![r] = Tail(@)]
      /\ signals' = [signals EXCEPT ![r] = x]
      /\ UNCHANGED <<main, stuck, taskVars, running>> /\ mode' = "kernel"
  BY DEF sigreturn, Enters
<1> HIDE DEF r, x
<1>6. /\ context'[r] = At("main", main[r]) /\ stack'[r] = <<>>
      /\ signals'[r] = x /\ main'[r] = main[r]
  BY <1>1, <1>3, <1>5 DEF Inv, Types
<1>7. Types'
  <2>1. /\ signals' \in [Task -> SignalStruct] /\ context' \in [Task -> Context]
        /\ stack' \in [Task -> Seq(Context)]
    BY <1>1, <1>3, <1>4, <1>5 DEF Inv, Types
  <2> QED BY <1>5, <2>1 DEF Inv, Types, taskVars, Ready
<1>8. AllConsistent'
  <2>1. Consistent(signals'[r], context'[r], stack'[r], main'[r])
    BY <1>4, <1>6 DEF Consistent
  <2>2. ASSUME NEW t \in Task, t # r
        PROVE  /\ signals'[t] = signals[t] /\ context'[t] = context[t]
               /\ stack'[t] = stack[t] /\ main'[t] = main[t]
    BY <1>1, <1>5, <2>2 DEF Inv, Types
  <2> QED BY <2>1, <2>2 DEF Inv, AllConsistent
<1> QED BY <1>5, <1>7, <1>8 DEF Inv, PromptDelivery

LEMMA UserCodeInv ==
  ASSUME Inv, NEW v \in Value, UserCode(v)
  PROVE  Inv'
<1>1. /\ running \in Task /\ UNCHANGED <<signals, stack, stuck, taskVars, running, mode>>
      /\ context' = [context EXCEPT ![running].eax = v]
      /\ main' = IF InMain(running) THEN [main EXCEPT ![running] = v] ELSE main
  BY DEF UserCode, Program, Yields
<1>2. MasksKept(signals', signals)
  BY <1>1 DEF MasksKept, Inv, Types
<1>3. /\ AllConsistent'
      /\ context' \in [Task -> Context] /\ main' \in [Task -> Value]
  BY <1>1, <1>2, EaxConsistent DEF Inv
<1> QED
  BY <1>1, <1>3 DEF Inv, Types, PromptDelivery, Deliverable, Ready, taskVars

\* A system call that returns v in EAX, set_handler among them
LEMMA ReturnInv ==
  ASSUME Inv, NEW t \in Task, NEW v \in Value,
         MasksKept(signals', signals), UNCHANGED stack,
         context' = [context EXCEPT ![t].eax = v],
         main' = IF InMain(t) THEN [main EXCEPT ![t] = v] ELSE main,
         valid' = valid, asleep' \subseteq asleep, focus' = focus,
         running' \in Ready' \cup {KernelTask}, mode' = "kernel"
  PROVE  Inv'
<1>1. /\ AllConsistent'
      /\ context' \in [Task -> Context] /\ main' \in [Task -> Value]
  BY EaxConsistent DEF Inv
<1> QED BY <1>1 DEF Inv, Types, PromptDelivery, MasksKept

\* A step into the kernel that leaves the registers alone
LEMMA EnterInv ==
  ASSUME Inv, MasksKept(signals', signals), UNCHANGED <<context, stack, main>>,
         valid' \subseteq Task, asleep' \subseteq valid',
         focus' \in valid' \cup {None}, running' \in Ready' \cup {KernelTask},
         mode' = "kernel"
  PROVE  Inv'
<1>1. AllConsistent'
  BY MasksKeptConsistent DEF Inv
<1> QED BY <1>1 DEF Inv, Types, PromptDelivery, MasksKept

LEMMA SameSignals ==
  ASSUME Types, UNCHANGED signals
  PROVE  MasksKept(signals', signals)
BY DEF Types, MasksKept

LEMMA ProgramStepInv ==
  ASSUME Inv, ProgramStep
  PROVE  Inv'
<1>1. ASSUME NEW v \in Value, SystemCall(v)  PROVE Inv'
  <2>1. MasksKept(signals', signals)
    BY <1>1, SameSignals DEF SystemCall, Inv
  <2> QED
    BY <1>1, <2>1, ReturnInv
    DEF SystemCall, Program, Enters, Yields, taskVars, Ready, Inv, Types
<1>2. ASSUME NEW s \in HandledByUser, NEW h \in {"default", "user"},
             NEW v \in Value, SetHandler(s, h, v)
      PROVE  Inv'
  <2> DEFINE r == running
             x == [signals[r] EXCEPT !.current_handlers[s] = h]
  <2>1. r \in Task /\ signals[r] \in SignalStruct /\ s \in Sig
    BY <1>2, SignalAssumption DEF SetHandler, Program, Inv, Types
  <2>2. /\ x \in SignalStruct
        /\ x.masked_signal = signals[r].masked_signal
        /\ x.available = signals[r].available
    <3>1. [signals[r].current_handlers EXCEPT ![s] = h] \in [Sig -> {"default", "user"}]
      BY <2>1 DEF SignalStruct
    <3>2. x = [signals[r] EXCEPT !.current_handlers =
                 [signals[r].current_handlers EXCEPT ![s] = h]]
      BY <2>1 DEF SignalStruct
    <3> QED BY <2>1, <3>1, <3>2 DEF SignalStruct
  <2>3. signals' = [signals EXCEPT ![r] = x]
    BY <1>2 DEF SetHandler
  <2>4. MasksKept(signals', signals)
    <3> HIDE DEF r, x
    <3> QED BY <2>1, <2>2, <2>3, StructUpdate DEF Inv, Types
  <2> QED
    BY <1>2, <2>1, <2>4, ReturnInv
    DEF SetHandler, Program, Enters, Yields, taskVars, Ready, Inv, Types
<1>3. ASSUME NEW s \in RaisedByProgram, Fault(s)  PROVE Inv'
  <2>1. /\ s \in Sig /\ Addressee(s) = running /\ running \in Task
    BY <1>3, SignalAssumption
    DEF Fault, Addressee, SIGNAL_DIV_ZERO, SIGNAL_SEGFAULT, SIGNAL_INTERRUPT,
        SIGNAL_ALARM, Sig
  <2>2. MasksKept(signals', signals)
    BY <1>3, <2>1, SendKeeps DEF Fault, Inv, Types
  <2> QED
    BY <1>3, <2>2, EnterInv DEF Fault, Enters, taskVars, Inv, Types, Ready
<1>4. CASE Sleep
  <2>1. MasksKept(signals', signals) /\ UNCHANGED <<context, stack, main>>
    BY <1>4, SameSignals DEF Sleep, Inv, userVars
  <2>2. running \in valid
    BY <1>4, SignalAssumption DEF Sleep, Program, Inv, Types, Ready
  <2> QED
    BY <1>4, <2>1, <2>2, EnterInv DEF Sleep, Enters, Inv, Types, Ready
<1>5. CASE Halt
  BY <1>5, HaltInv DEF Halt, Program
<1> QED
  BY <1>1, <1>2, <1>3, <1>4, <1>5, UserCodeInv, SigreturnInv DEF ProgramStep

LEMMA InterruptInv ==
  ASSUME Inv, Interrupt
  PROVE  Inv'
<1>1. ASSUME NEW t \in Task, NEW v \in Value, Wake(t, v)  PROVE Inv'
  <2>1. MasksKept(signals', signals)
    BY <1>1, SameSignals DEF Wake, Inv
  <2>2. running' \in Ready' \cup {KernelTask} /\ asleep' \subseteq asleep
    BY <1>1 DEF Wake, Ready, Inv, Types
  <2> QED BY <1>1, <2>1, <2>2, ReturnInv DEF Wake, Enters
<1>2. CASE CtrlC
  <2>1. /\ SIGNAL_INTERRUPT \in Sig /\ Addressee(SIGNAL_INTERRUPT) = focus
        /\ focus \in Task \cup {None}
    BY DEF Addressee, SIGNAL_INTERRUPT, Sig, Inv, Types
  <2>2. MasksKept(signals', signals)
    BY <1>2, <2>1, SendKeeps DEF CtrlC, Inv, Types
  <2> QED
    BY <1>2, <2>2, EnterInv
    DEF CtrlC, Enters, userVars, taskVars, Inv, Types, Ready
<1>3. ASSUME NEW t \in Task \cup {KernelTask}, Pit(t)  PROVE Inv'
  <2>1. MasksKept(signals', signals)
    BY <1>3, AlarmKeeps DEF Pit, Inv
  <2> QED
    BY <1>3, <2>1, EnterInv
    DEF Pit, Enters, userVars, taskVars, Inv, Types, Ready
<1>4. ASSUME NEW t \in Task, ChangeFocus(t)  PROVE Inv'
  <2>1. MasksKept(signals', signals)
    BY <1>4, SameSignals DEF ChangeFocus, Inv
  <2> QED
    BY <1>4, <2>1, EnterInv
    DEF ChangeFocus, Enters, userVars, Inv, Types, Ready
<1>5. ASSUME NEW t \in Task, Execute(t)  PROVE Inv'
  <2>1. /\ AllConsistent'
        /\ signals' \in [Task -> SignalStruct] /\ context' \in [Task -> Context]
        /\ stack' \in [Task -> Seq(Context)] /\ main' \in [Task -> Value]
    BY <1>5, StartConsistent DEF Execute, Inv
  <2>2. signals'[t].pending_signal = {}
    BY <1>5, FreshTask DEF Execute, Inv, Types
  <2>3. /\ valid' = valid \cup {t} /\ t \notin asleep' /\ asleep' \subseteq valid'
        /\ focus' = t /\ running' = t /\ mode' = "user"
    BY <1>5 DEF Execute, Inv, Types, Ready
  <2>4. Types'
    BY <2>1, <2>3 DEF Inv, Types, Ready
  <2>5. PromptDelivery'
    BY <2>2, <2>3 DEF PromptDelivery, Deliverable
  <2> QED BY <2>1, <2>4, <2>5 DEF Inv
<1> QED BY <1>1, <1>2, <1>3, <1>4, <1>5 DEF Interrupt

LEMMA StepInv == Inv /\ [Next]_vars => Inv'
<1> SUFFICES ASSUME Inv, [Next]_vars  PROVE Inv'
  OBVIOUS
<1>1. CASE UNCHANGED vars
  BY <1>1
  DEF vars, userVars, taskVars, Inv, Types, AllConsistent, PromptDelivery,
      Deliverable, Ready
<1> QED BY <1>1, CheckInv, ProgramStepInv, InterruptInv DEF Next

-----------------------------------------------------------------------------
\* The inductive invariant holds in every reachable state.
THEOREM InvHolds == Spec => []Inv
BY InitInv, StepInv, PTL DEF Spec

\* The type invariant that TLC checks (signal.h:44-50, signal.c:77-94): sets
\* of signals stay sets of signals, and no alarm time passes the interval.
THEOREM SignalTypes == Spec => []SigTypeOK
<1>1. Inv => SigTypeOK
  BY DEF Inv, Types, SigTypeOK, SignalStruct, Context
<1> QED BY <1>1, InvHolds, PTL

(***************************************************************************)
(* Handlers do not nest, and what signal_check masks sigreturn unmasks      *)
(* (signal.c:172-213, signal_asm.S:102-152).                                *)
(***************************************************************************)
THEOREM HandlersDoNotNest == Spec => []OneHandlerAtATime
<1>1. Inv => OneHandlerAtATime
  <2> SUFFICES ASSUME Inv, NEW t \in valid
               PROVE  IF InMain(t)
                      THEN stack[t] = <<>> /\ signals[t].masked_signal = {}
                      ELSE Len(stack[t]) = 1 /\ signals[t].masked_signal = Sig
    BY DEF OneHandlerAtATime
  <2>1. Consistent(signals[t], context[t], stack[t], main[t])
    BY DEF Inv, Types, AllConsistent
  <2>2. CASE InMain(t)
    BY <2>1, <2>2 DEF Consistent, InMain
  <2>3. CASE ~InMain(t)
    <3>1. stack[t] = <<At("main", main[t])>> /\ signals[t].masked_signal = Sig
      BY <2>1, <2>3 DEF Consistent, InMain, At
    <3> QED BY <2>3, <3>1
  <2> QED BY <2>2, <2>3
<1> QED BY <1>1, InvHolds, PTL

(***************************************************************************)
(* The interrupted program goes on with its registers, however its calls,   *)
(* its handlers and the switches interleave (signal_asm.S:19-152).          *)
(***************************************************************************)
THEOREM ProgramIntact == Spec => []InterruptedProgramIntact
<1>1. Inv => InterruptedProgramIntact
  <2> SUFFICES ASSUME Inv, NEW t \in valid
               PROVE  (IF InMain(t) THEN context[t] ELSE stack[t][Len(stack[t])])
                        = At("main", main[t])
    BY DEF InterruptedProgramIntact
  <2>1. Consistent(signals[t], context[t], stack[t], main[t])
    BY DEF Inv, Types, AllConsistent
  <2> QED BY <2>1 DEF Consistent, InMain, At
<1> QED BY <1>1, InvHolds, PTL

(***************************************************************************)
(* No program runs in user mode with a signal that could be delivered,      *)
(* whoever sent it and by whichever way it got the CPU (signal.c:166-213).  *)
(***************************************************************************)
THEOREM DeliveryIsPrompt == Spec => []PromptDelivery
BY InvHolds, PTL DEF Inv
=============================================================================
