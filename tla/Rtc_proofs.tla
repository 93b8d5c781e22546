----------------------------- MODULE Rtc_proofs -----------------------------
(***************************************************************************)
(* Theorems about Rtc.tla, for any number of tasks, any frequency of the    *)
(* hardware and any rates that programs ask for.                            *)
(***************************************************************************)
EXTENDS Rtc, TLAPS, FiniteSetTheorems, FunctionTheorems, SequenceTheorems

\* No rate above a quarter of the hardware's: the others lose their reader.
SlowRates == \A f \in Frequency \cup {2} : Period(f) > 0

Tables ==
  /\ rtc_fds \in [Task -> 0..MAX_RTC_FD]
  /\ target_freq \in [Task -> Frequency \cup {2, NotOpened}]
  /\ counter \in [Task -> Nat \cup {LOST}]
  /\ slept \in [Task -> Nat]
  /\ live \subseteq Task

Listed ==
  /\ rtc_wait_list \in Seq(Task) /\ IsInjective(rtc_wait_list)
  /\ Waiting \subseteq live

\* A slot that is taken finds no descriptor open, and a descriptor has a rate.
Opened ==
  \A t \in Task : rtc_fds[t] > 0 => t \in live /\ target_freq[t] # NotOpened

\* Whoever sleeps has a rate, so that its period is one.
SleepersOpened == \A t \in Waiting : target_freq[t] # NotOpened

RtcInv ==
  /\ Tables /\ Listed /\ Opened /\ SleepersOpened
  /\ running \in Ready \cup {KernelTask}

-----------------------------------------------------------------------------
(***************************************************************************)
(* Some of a list.                                                          *)
(***************************************************************************)
LEMMA AmongFacts ==
  ASSUME NEW list \in Seq(Task), IsInjective(list), NEW S
  PROVE  LET some == Among(list, S)
         IN  /\ some \in Seq(Task) /\ IsInjective(some)
             /\ ToSet(some) = ToSet(list) \cap S
<1> DEFINE kept == {i \in DOMAIN list : list[i] \in S}
           below(i) == {j \in kept : j <= i}
           m == Cardinality(kept)
           Rank == [i \in kept |-> Cardinality(below(i))]
           Pick(k) == CHOOSE i \in kept : Cardinality(below(i)) = k
           some == [k \in 1..m |-> list[Pick(k)]]
<1>1. Len(list) \in Nat /\ DOMAIN list = 1..Len(list)
  BY LenProperties
<1>2. kept \subseteq 1..Len(list) /\ IsFiniteSet(kept) /\ m \in Nat
  <2>1. kept \subseteq 1..Len(list) /\ IsFiniteSet(1..Len(list))
    BY <1>1, FS_Interval
  <2>2. IsFiniteSet(kept)
    BY <2>1, FS_Subset
  <2> QED BY <2>1, <2>2, FS_CardinalityType
<1>3. \A i \in kept : i \in Nat /\ list[i] \in Task /\ i \in DOMAIN list
  BY <1>1, <1>2, ElementOfSeq
<1>4. \A i \in kept : /\ IsFiniteSet(below(i)) /\ i \in below(i)
                      /\ Cardinality(below(i)) \in 1..m
  <2> TAKE i \in kept
  <2>1. below(i) \in SUBSET kept /\ i \in below(i)
    BY <1>3
  <2> HIDE DEF below, kept
  <2>2. IsFiniteSet(below(i)) /\ Cardinality(below(i)) <= m
    BY <1>2, <2>1, FS_Subset
  <2>3. Cardinality(below(i)) \in Nat /\ Cardinality(below(i)) # 0
    BY <2>1, <2>2, FS_CardinalityType, FS_EmptySet
  <2> QED BY <1>2, <2>1, <2>2, <2>3
<1>5. \A i, j \in kept : Cardinality(below(i)) = Cardinality(below(j)) => i = j
  <2>1. ASSUME NEW i \in kept, NEW j \in kept, i < j
        PROVE  Cardinality(below(i)) # Cardinality(below(j))
    <3>1. below(i) \in SUBSET below(j) /\ j \in below(j) /\ j \notin below(i)
      BY <1>3, <2>1
    <3>2. IsFiniteSet(below(j))
      BY <1>4
    <3> HIDE DEF below
    <3> QED BY <3>1, <3>2, FS_Subset
  <2> SUFFICES ASSUME NEW i \in kept, NEW j \in kept,
                      Cardinality(below(i)) = Cardinality(below(j)), i # j
               PROVE  FALSE
    OBVIOUS
  <2>2. i < j \/ j < i
    BY <1>3
  <2> HIDE DEF kept, below
  <2> QED BY <2>1, <2>2
<1>6. Rank \in Injection(kept, 1..m)
  <2>1. Rank \in [kept -> 1..m]
    BY <1>4
  <2>2. \A i, j \in kept : Rank[i] = Rank[j] => i = j
    BY <1>5
  <2> QED BY <2>1, <2>2 DEF Injection, IsInjective
<1>7. Rank \in Surjection(kept, 1..m)
  <2>1. IsFiniteSet(1..m) /\ Cardinality(1..m) = m
    BY <1>2, FS_Interval
  <2> HIDE DEF Rank, kept
  <2> QED BY <1>6, <2>1, FS_Injection
<1>8. \A k \in 1..m : Pick(k) \in kept /\ Cardinality(below(Pick(k))) = k
  <2> TAKE k \in 1..m
  <2>1. \E i \in kept : Rank[i] = k
    BY <1>7 DEF Surjection
  <2>2. \E i \in kept : Cardinality(below(i)) = k
    BY <2>1
  <2> HIDE DEF kept, below
  <2> QED BY <2>2
<1>9. Among(list, S) = some
  BY DEF Among
<1>10. some \in [1..m -> Task] /\ some \in Seq(Task)
  <2> HIDE DEF Pick, kept, m
  <2>1. some \in [1..m -> Task]
    BY <1>3, <1>8
  <2> HIDE DEF some
  <2> QED BY <1>2, <2>1, SeqDef
<1>11. IsInjective(some)
  <2> SUFFICES ASSUME NEW k \in 1..m, NEW l \in 1..m, some[k] = some[l]
               PROVE  k = l
    BY <1>10 DEF IsInjective
  <2>1. list[Pick(k)] = list[Pick(l)]
    OBVIOUS
  <2> HIDE DEF Pick, some, m
  <2>2. Pick(k) = Pick(l)
    <3>1. Pick(k) \in DOMAIN list /\ Pick(l) \in DOMAIN list
      BY <1>3, <1>8
    <3> QED BY <2>1, <3>1 DEF IsInjective
  <2> HIDE DEF below
  <2> QED BY <1>8, <2>2
<1>12. ToSet(some) = ToSet(list) \cap S
  <2>1. ASSUME NEW k \in 1..m PROVE some[k] \in ToSet(list) \cap S
    <3>1. Pick(k) \in kept /\ some[k] = list[Pick(k)]
      BY <1>8
    <3> HIDE DEF some, Pick, m
    <3> QED BY <3>1 DEF ToSet
  <2>2. ASSUME NEW x \in ToSet(list) \cap S PROVE \E k \in 1..m : some[k] = x
    <3>1. PICK i \in kept : list[i] = x
      BY <2>2 DEF ToSet
    <3> DEFINE k == Cardinality(below(i))
    <3>2. k \in 1..m
      BY <1>4
    <3>3. Pick(k) = i
      <4> HIDE DEF Pick, below, kept, m
      <4> QED BY <1>5, <1>8, <3>2
    <3>4. some[k] = x
      <4> HIDE DEF Pick, k
      <4> QED BY <3>1, <3>2, <3>3
    <3> QED BY <3>2, <3>4
  <2>3. DOMAIN some = 1..m
    OBVIOUS
  <2> HIDE DEF some, kept, m
  <2> QED BY <2>1, <2>2, <2>3 DEF ToSet
<1> QED BY <1>9, <1>10, <1>11, <1>12

-----------------------------------------------------------------------------
(***************************************************************************)
(* The actions.                                                             *)
(***************************************************************************)
Kept == RtcInv' /\ (SlowRates /\ WakesOnTime => WakesOnTime')

\* A program that makes a call is alive and not asleep.
LEMMA CallerIsReady ==
  ASSUME RtcInv, InProgram
  PROVE  running \in Task /\ running \in live /\ running \notin Waiting
BY RtcAssumption DEF RtcInv, InProgram, Ready

LEMMA PeriodIsNat == \A f \in Frequency \cup {2} : Period(f) \in Nat
<1> TAKE f \in Frequency \cup {2}
<1>1. f \in Nat /\ f > 0 /\ RTC_HARDWARE_FREQUENCY \in Nat
  BY RtcAssumption
<1>2. RTC_HARDWARE_FREQUENCY \div f \in Nat
  BY <1>1
<1> QED BY <1>2 DEF Period

\* Nothing that a sleeper waits for is changed by a step that leaves the list, the
\* live tasks and the sleepers' rates and counters alone.
LEMMA SleepersAlone ==
  ASSUME rtc_wait_list' = rtc_wait_list,
         \A t \in Waiting : /\ counter'[t] = counter[t] /\ slept'[t] = slept[t]
                            /\ target_freq'[t] = target_freq[t]
  PROVE  /\ Waiting' = Waiting /\ (WakesOnTime => WakesOnTime')
         /\ SleepersOpened => SleepersOpened'
<1>1. Waiting' = Waiting
  BY DEF Waiting
<1> QED BY <1>1 DEF WakesOnTime, SleepersOpened

LEMMA OpenCloseWrite ==
  ASSUME RtcInv,
         system_rtc_open \/ system_rtc_close \/ \E f \in Frequency : system_rtc_write(f)
  PROVE  Kept
<1>1. InProgram
  BY DEF system_rtc_open, system_rtc_close, system_rtc_write
<1>2. running \in Task /\ running \in live /\ running \notin Waiting
  BY <1>1, CallerIsReady
<1>3. /\ UNCHANGED <<rtc_wait_list, live, running, slept>>
      /\ rtc_wait_list' = rtc_wait_list
  BY DEF system_rtc_open, system_rtc_close, system_rtc_write, taskVars
<1>4. /\ rtc_fds' \in [Task -> 0..MAX_RTC_FD]
      /\ target_freq' \in [Task -> Frequency \cup {2, NotOpened}]
      /\ counter' \in [Task -> Nat \cup {LOST}]
      /\ \A t \in Task \ {running} :
           /\ rtc_fds'[t] = rtc_fds[t] /\ target_freq'[t] = target_freq[t]
           /\ counter'[t] = counter[t]
      /\ rtc_fds'[running] > 0 => target_freq'[running] # NotOpened
  <2>0. /\ rtc_fds \in [Task -> 0..MAX_RTC_FD] /\ MAX_RTC_FD \in Nat
        /\ target_freq \in [Task -> Frequency \cup {2, NotOpened}]
        /\ counter \in [Task -> Nat \cup {LOST}] /\ running \in Task
        /\ rtc_fds[running] > 0 => target_freq[running] # NotOpened
        /\ 2 # NotOpened /\ \A f \in Frequency : f # NotOpened
    BY <1>2, RtcAssumption DEF RtcInv, Tables, Opened, NotOpened
  <2>1. CASE system_rtc_open
    BY <2>0, <2>1 DEF system_rtc_open
  <2>2. CASE system_rtc_close
    BY <2>0, <2>2 DEF system_rtc_close
  <2>3. CASE \E f \in Frequency : system_rtc_write(f)
    <3>1. PICK f \in Frequency : system_rtc_write(f)
      BY <2>3
    <3>2. Period(f) \in Nat
      BY PeriodIsNat
    <3> QED BY <2>0, <3>1, <3>2 DEF system_rtc_write
  <2> QED BY <2>1, <2>2, <2>3
<1>5. \A t \in Waiting : t \in Task \ {running}
  BY <1>2 DEF RtcInv, Listed, Tables
<1>6. /\ Waiting' = Waiting /\ (WakesOnTime => WakesOnTime') /\ SleepersOpened'
  <2>1. \A t \in Waiting : /\ counter'[t] = counter[t] /\ slept'[t] = slept[t]
                           /\ target_freq'[t] = target_freq[t]
    BY <1>3, <1>4, <1>5
  <2> QED BY <1>3, <2>1, SleepersAlone DEF RtcInv
<1>7. Tables' /\ Listed'
  BY <1>3, <1>4, <1>6 DEF RtcInv, Tables, Listed
<1>8. Opened'
  BY <1>2, <1>3, <1>4 DEF RtcInv, Opened
<1>9. running' \in Ready' \cup {KernelTask}
  BY <1>3, <1>6 DEF RtcInv, Ready
<1> QED BY <1>6, <1>7, <1>8, <1>9 DEF Kept, RtcInv

LEMMA ReadKeeps ==
  ASSUME RtcInv, system_rtc_read
  PROVE  Kept
<1>1. running \in Task /\ running \in live /\ running \notin Waiting
  BY CallerIsReady DEF system_rtc_read
<1>2. /\ rtc_wait_list \in Seq(Task) /\ IsInjective(rtc_wait_list)
      /\ <<running>> \in Seq(Task) /\ Len(<<running>>) = 1 /\ <<running>>[1] = running
      /\ Len(rtc_wait_list) \in Nat
  BY <1>1 DEF RtcInv, Listed
<1> DEFINE list == <<running>> \o rtc_wait_list
<1>3. /\ list \in Seq(Task) /\ Len(list) = 1 + Len(rtc_wait_list) /\ list[1] = running
      /\ \A i \in 1..Len(rtc_wait_list) : list[i + 1] = rtc_wait_list[i]
  <2>1. /\ list \in Seq(Task) /\ Len(list) = Len(<<running>>) + Len(rtc_wait_list)
        /\ \A i \in 1..(Len(<<running>>) + Len(rtc_wait_list)) :
             list[i] = IF i <= Len(<<running>>) THEN <<running>>[i]
                       ELSE rtc_wait_list[i - Len(<<running>>)]
    BY <1>2, ConcatProperties
  <2> HIDE DEF list
  <2>2. list[1] = running
    BY <1>2, <2>1
  <2>3. ASSUME NEW i \in 1..Len(rtc_wait_list)
        PROVE  list[i + 1] = rtc_wait_list[i]
    <3>1. i + 1 \in 1..(1 + Len(rtc_wait_list)) /\ ~(i + 1 <= 1) /\ (i + 1) - 1 = i
      BY <1>2
    <3> QED BY <1>2, <2>1, <3>1
  <2> QED BY <1>2, <2>1, <2>2, <2>3
<1> HIDE DEF list
<1>4. DOMAIN list = 1..Len(list) /\ DOMAIN rtc_wait_list = 1..Len(rtc_wait_list)
  BY <1>2, <1>3
<1>5. ToSet(list) = Waiting \cup {running} /\ IsInjective(list)
  <2>1. \A i \in 2..Len(list) : /\ i - 1 \in 1..Len(rtc_wait_list)
                                /\ list[i] = rtc_wait_list[i - 1]
    <3> TAKE i \in 2..Len(list)
    <3>1. i - 1 \in 1..Len(rtc_wait_list) /\ (i - 1) + 1 = i
      BY <1>2, <1>3
    <3> QED BY <1>3, <3>1
  <2>2. \A i \in 1..Len(list) : i = 1 \/ i \in 2..Len(list)
    BY <1>2, <1>3
  <2>3. \A i \in 2..Len(list) : list[i] \in Waiting /\ list[i] # running
    BY <1>1, <1>4, <2>1 DEF Waiting, ToSet
  <2>4. IsInjective(list)
    <3> SUFFICES ASSUME NEW i \in 1..Len(list), NEW j \in 1..Len(list),
                        list[i] = list[j]
                 PROVE  i = j
      BY <1>4 DEF IsInjective
    <3>1. CASE i = 1 \/ j = 1
      BY <1>3, <2>2, <2>3, <3>1
    <3>2. CASE i \in 2..Len(list) /\ j \in 2..Len(list)
      <4>1. i - 1 = j - 1
        BY <1>2, <1>4, <2>1, <3>2 DEF IsInjective
      <4> QED BY <3>2, <4>1
    <3> QED BY <2>2, <3>1, <3>2
  <2>5. ASSUME NEW x \in Waiting PROVE \E k \in 1..Len(list) : list[k] = x
    <3>1. PICK i \in 1..Len(rtc_wait_list) : rtc_wait_list[i] = x
      BY <1>4, <2>5 DEF Waiting, ToSet
    <3>2. i + 1 \in 1..Len(list)
      BY <1>2, <1>3
    <3> QED BY <1>3, <3>1, <3>2
  <2>6. 1 \in 1..Len(list)
    BY <1>2, <1>3
  <2> QED BY <1>3, <1>4, <2>2, <2>3, <2>4, <2>5, <2>6 DEF ToSet
<1>6. /\ rtc_wait_list' = list /\ Yield /\ UNCHANGED <<rtc_fds, target_freq, live>>
      /\ counter' = [counter EXCEPT ![running] = Period(target_freq[running])]
      /\ slept' = [slept EXCEPT ![running] = 0]
      /\ target_freq[running] # NotOpened
  BY DEF system_rtc_read, rateVars, list
<1>7. Waiting' = Waiting \cup {running}
  BY <1>5, <1>6 DEF Waiting
<1>8. target_freq[running] \in Frequency \cup {2} /\ Period(target_freq[running]) \in Nat
  <2>1. target_freq[running] \in Frequency \cup {2}
    BY <1>1, <1>6 DEF RtcInv, Tables
  <2> QED BY <2>1, PeriodIsNat
<1>9. /\ counter' \in [Task -> Nat \cup {LOST}] /\ slept' \in [Task -> Nat]
      /\ counter'[running] = Period(target_freq[running]) /\ slept'[running] = 0
      /\ \A t \in Task \ {running} : counter'[t] = counter[t] /\ slept'[t] = slept[t]
  BY <1>1, <1>6, <1>8 DEF RtcInv, Tables
<1>10. Tables' /\ Listed' /\ Opened' /\ SleepersOpened'
  BY <1>1, <1>3, <1>5, <1>6, <1>7, <1>9
     DEF RtcInv, Tables, Listed, Opened, SleepersOpened
<1>11. running' \in Ready' \cup {KernelTask}
  BY <1>6, <1>7 DEF Yield, Ready
<1>12. SlowRates /\ WakesOnTime => WakesOnTime'
  <2> SUFFICES ASSUME SlowRates, WakesOnTime, NEW t \in Waiting \cup {running}
               PROVE  counter'[t] > 0 /\ slept'[t] + counter'[t] = Period(target_freq'[t])
    BY <1>7 DEF WakesOnTime
  <2>1. CASE t = running
    BY <1>6, <1>8, <1>9, <2>1 DEF SlowRates
  <2>2. CASE t # running
    <3>1. t \in Waiting /\ t \in Task \ {running}
      BY <2>2 DEF RtcInv, Listed, Tables
    <3> QED BY <1>6, <1>9, <3>1 DEF WakesOnTime
  <2> QED BY <2>1, <2>2
<1> QED BY <1>10, <1>11, <1>12 DEF Kept, RtcInv

LEMMA InterruptKeeps ==
  ASSUME RtcInv, rtc_interrupt_handler
  PROVE  Kept
<1> DEFINE woken == Among(rtc_wait_list, Woken)
           rest  == Among(rtc_wait_list, Waiting \ Woken)
<1>1. /\ rtc_wait_list \in Seq(Task) /\ IsInjective(rtc_wait_list)
      /\ Waiting \subseteq live /\ live \subseteq Task /\ Woken \subseteq Waiting
  BY DEF RtcInv, Listed, Tables, Woken
<1>2. /\ woken \in Seq(Task) /\ ToSet(woken) = Woken
      /\ rest \in Seq(Task) /\ IsInjective(rest) /\ ToSet(rest) = Waiting \ Woken
  <2>1. /\ woken \in Seq(Task) /\ ToSet(woken) = ToSet(rtc_wait_list) \cap Woken
        /\ rest \in Seq(Task) /\ IsInjective(rest)
        /\ ToSet(rest) = ToSet(rtc_wait_list) \cap (Waiting \ Woken)
    BY <1>1, AmongFacts
  <2> HIDE DEF woken, rest
  <2> QED BY <1>1, <2>1 DEF Waiting
<1>3. /\ counter' = [t \in Task |->
                       IF t \in Waiting THEN Decremented(t) ELSE counter[t]]
      /\ slept' = [t \in Task |->
                     IF t \in Waiting /\ counter[t] > 1 THEN slept[t] + 1 ELSE 0]
      /\ rtc_wait_list' = rest
      /\ running' = IF woken = <<>> THEN running ELSE Last(woken)
      /\ UNCHANGED <<rtc_fds, target_freq, live>>
  BY DEF rtc_interrupt_handler, rateVars
<1> HIDE DEF woken, rest
<1>4. Waiting' = Waiting \ Woken
  BY <1>2, <1>3 DEF Waiting
<1>5. \A t \in Task : Decremented(t) \in Nat \cup {LOST}
  <2> TAKE t \in Task
  <2>1. counter[t] \in Nat \cup {LOST}
    BY DEF RtcInv, Tables
  <2> QED BY <2>1 DEF Decremented, LOST
<1>6. counter' \in [Task -> Nat \cup {LOST}] /\ slept' \in [Task -> Nat]
  BY <1>3, <1>5 DEF RtcInv, Tables
<1>7. Tables' /\ Listed' /\ Opened' /\ SleepersOpened'
  BY <1>1, <1>2, <1>3, <1>4, <1>6
     DEF RtcInv, Tables, Listed, Opened, SleepersOpened
<1>8. running' \in Ready' \cup {KernelTask}
  <2>1. CASE woken = <<>>
    BY <1>3, <1>4, <2>1 DEF RtcInv, Ready
  <2>2. CASE woken # <<>>
    <3>1. Len(woken) \in DOMAIN woken
      BY <1>2, <2>2, EmptySeq, LenProperties
    <3>2. Last(woken) \in Woken
      BY <1>2, <3>1 DEF Last, ToSet
    <3> QED BY <1>1, <1>3, <1>4, <2>2, <3>2 DEF Ready
  <2> QED BY <2>1, <2>2
<1>9. WakesOnTime => WakesOnTime'
  <2> SUFFICES ASSUME WakesOnTime, NEW t \in Waiting \ Woken
               PROVE  counter'[t] > 0 /\ slept'[t] + counter'[t] = Period(target_freq'[t])
    BY <1>4 DEF WakesOnTime
  <2>1. /\ t \in Task /\ t \in Waiting /\ counter[t] # 1 /\ counter[t] > 0
        /\ slept[t] + counter[t] = Period(target_freq[t])
        /\ slept[t] \in Nat /\ counter[t] \in Nat
    <3>1. t \in Task /\ counter[t] > 0 /\ counter[t] \in Nat \cup {LOST}
      BY <1>1 DEF RtcInv, Tables, WakesOnTime
    <3> QED BY <3>1 DEF RtcInv, Tables, WakesOnTime, Woken, LOST
  <2>2. counter'[t] = counter[t] - 1 /\ slept'[t] = slept[t] + 1
    <3>1. counter[t] # LOST /\ counter[t] > 1
      BY <2>1 DEF LOST
    <3> QED BY <1>3, <2>1, <3>1 DEF Decremented
  <2>3. target_freq'[t] = target_freq[t]
    BY <1>3
  <2> QED BY <2>1, <2>2, <2>3
<1> QED BY <1>7, <1>8, <1>9 DEF Kept, RtcInv

\* A slot that is given up is in no list, and what is in a list keeps its rate.
LEMMA VacatesFacts ==
  ASSUME RtcInv, NEW t \in Task, Vacates(t)
  PROVE  /\ Tables' /\ live' = live \ {t} /\ rtc_fds'[t] = 0
         /\ \A u \in Task \ {t} : /\ rtc_fds'[u] = rtc_fds[u]
                                  /\ target_freq'[u] = target_freq[u]
                                  /\ counter'[u] = counter[u] /\ slept'[u] = slept[u]
<1>1. 0 \in 0..MAX_RTC_FD /\ NotOpened \in Frequency \cup {2, NotOpened}
  BY RtcAssumption
<1> QED BY <1>1 DEF RtcInv, Tables, Vacates

LEMMA TasksComeAndGo ==
  ASSUME RtcInv,
         \/ \E t \in Task : Execute(t) \/ task_halt_terminal(t)
         \/ system_halt
  PROVE  Kept
<1>1. CASE \E t \in Task : Execute(t)
  <2>1. PICK t \in Task : Execute(t)
    BY <1>1
  <2>2. /\ t \notin live /\ t \notin Waiting /\ live' = live \cup {t} /\ running' = t
        /\ target_freq' = [target_freq EXCEPT ![t] = NotOpened]
        /\ UNCHANGED <<rtc_fds, counter, rtc_wait_list, slept>>
    BY <2>1 DEF Execute, RtcInv, Listed
  <2>3. \A u \in Task \ {t} : target_freq'[u] = target_freq[u]
    BY <2>2 DEF RtcInv, Tables
  <2>4. Waiting \subseteq Task \ {t} /\ rtc_wait_list' = rtc_wait_list
    BY <2>2 DEF RtcInv, Listed, Tables
  <2>5. Waiting' = Waiting /\ (WakesOnTime => WakesOnTime') /\ SleepersOpened'
    BY <2>2, <2>3, <2>4, SleepersAlone DEF RtcInv
  <2>6. Tables' /\ Listed'
    BY <2>2, <2>5 DEF RtcInv, Tables, Listed
  <2>7. Opened'
    <3>1. ~(rtc_fds[t] > 0)
      BY <2>2 DEF RtcInv, Opened
    <3> QED BY <2>2, <2>3, <3>1 DEF RtcInv, Opened
  <2>8. running' \in Ready' \cup {KernelTask}
    BY <2>2, <2>5 DEF Ready
  <2> QED BY <2>5, <2>6, <2>7, <2>8 DEF Kept, RtcInv
<1>2. CASE \E t \in Task : task_halt_terminal(t)
  <2>1. PICK t \in Task : task_halt_terminal(t)
    BY <1>2
  <2> DEFINE list == Among(rtc_wait_list, Waiting \ {t})
  <2>2. /\ t \in live \ {running} /\ Vacates(t) /\ running' = running
        /\ rtc_wait_list' = list
    BY <2>1 DEF task_halt_terminal
  <2>3. /\ list \in Seq(Task) /\ IsInjective(list)
        /\ ToSet(list) = ToSet(rtc_wait_list) \cap (Waiting \ {t})
    BY AmongFacts DEF RtcInv, Listed
  <2> HIDE DEF list
  <2>4. Waiting' = Waiting \ {t} /\ Waiting \subseteq Task
    BY <2>2, <2>3 DEF Waiting, RtcInv, Listed, Tables
  <2>5. /\ Tables' /\ live' = live \ {t} /\ rtc_fds'[t] = 0
        /\ \A u \in Task \ {t} : /\ rtc_fds'[u] = rtc_fds[u]
                                 /\ target_freq'[u] = target_freq[u]
                                 /\ counter'[u] = counter[u] /\ slept'[u] = slept[u]
    BY <2>2, VacatesFacts
  <2>6. Listed' /\ Opened' /\ SleepersOpened'
    BY <2>2, <2>3, <2>4, <2>5 DEF RtcInv, Listed, Opened, SleepersOpened
  <2>7. running' \in Ready' \cup {KernelTask}
    BY <2>2, <2>4, <2>5 DEF RtcInv, Ready
  <2>8. WakesOnTime => WakesOnTime'
    BY <2>4, <2>5 DEF WakesOnTime
  <2> QED BY <2>5, <2>6, <2>7, <2>8 DEF Kept, RtcInv
<1>3. CASE system_halt
  <2>1. running \in Task /\ running \in live /\ running \notin Waiting
    BY <1>3, CallerIsReady DEF system_halt
  <2>2. Vacates(running) /\ Yield /\ rtc_wait_list' = rtc_wait_list
    BY <1>3 DEF system_halt
  <2>3. /\ Tables' /\ live' = live \ {running} /\ rtc_fds'[running] = 0
        /\ \A u \in Task \ {running} :
             /\ rtc_fds'[u] = rtc_fds[u] /\ target_freq'[u] = target_freq[u]
             /\ counter'[u] = counter[u] /\ slept'[u] = slept[u]
    BY <2>1, <2>2, VacatesFacts
  <2>4. Waiting \subseteq Task \ {running}
    BY <2>1 DEF RtcInv, Listed, Tables
  <2>5. Waiting' = Waiting /\ (WakesOnTime => WakesOnTime') /\ SleepersOpened'
    BY <2>2, <2>3, <2>4, SleepersAlone DEF RtcInv
  <2>6. Listed' /\ Opened'
    BY <2>1, <2>2, <2>3, <2>4, <2>5 DEF RtcInv, Listed, Opened
  <2>7. running' \in Ready' \cup {KernelTask}
    BY <2>2, <2>3, <2>5 DEF Yield, Ready
  <2> QED BY <2>3, <2>5, <2>6, <2>7 DEF Kept, RtcInv
<1> QED BY <1>1, <1>2, <1>3

LEMMA SwitchKeeps ==
  ASSUME RtcInv, (\E t \in Task \cup {KernelTask} : Switch(t)) \/ UNCHANGED vars
  PROVE  Kept
<1>1. /\ UNCHANGED <<rtc_fds, target_freq, counter, rtc_wait_list, live, slept>>
      /\ running' \in Ready \cup {KernelTask}
  BY DEF RtcInv, Switch, vars, rateVars, taskVars
<1>2. Waiting' = Waiting
  BY <1>1 DEF Waiting
<1> QED BY <1>1, <1>2 DEF Kept, RtcInv, Tables, Listed, Opened, SleepersOpened,
                          Ready, WakesOnTime

-----------------------------------------------------------------------------
(***************************************************************************)
(* Theorems.                                                                *)
(***************************************************************************)
LEMMA Start == ASSUME Init PROVE RtcInv /\ WakesOnTime
<1>1. <<>> \in Seq(Task) /\ DOMAIN <<>> = {}
  BY EmptySeq, LenProperties
<1>2. Waiting = {} /\ IsInjective(rtc_wait_list)
  BY <1>1 DEF Init, Waiting, ToSet, IsInjective
<1>3. Tables
  BY RtcAssumption DEF Init, Tables
<1> QED BY <1>1, <1>2, <1>3
        DEF Init, RtcInv, Listed, Opened, SleepersOpened, WakesOnTime

LEMMA EveryStep == ASSUME RtcInv, [Next]_vars PROVE Kept
BY OpenCloseWrite, ReadKeeps, InterruptKeeps, TasksComeAndGo, SwitchKeeps DEF Next

\* The inductive invariant: the wait list has each task once and only live ones,
\* the running task is not among them, and whoever sleeps or has a descriptor open
\* has a rate.
THEOREM RtcInvHolds == Spec => []RtcInv
<1>1. RtcInv /\ [Next]_vars => RtcInv'
  BY EveryStep DEF Kept
<1>2. Init => RtcInv
  BY Start
<1> QED BY <1>1, <1>2, PTL DEF Spec

\* system_rtc_read never puts a task into the list twice, and tear_down_task leaves
\* no dead one in it.
THEOREM RtcTypes == Spec => []RtcTypeOK
<1>1. RtcInv => RtcTypeOK
  BY DEF RtcInv, Tables, Listed, Opened, RtcTypeOK
<1> QED BY <1>1, RtcInvHolds, PTL

\* rtc_interrupt_handler wakes every reader with the interrupt that its rate asks
\* for, whatever is read, woken, halted or torn out of the list meanwhile.
THEOREM ReadersWakeOnTime ==
  ASSUME SlowRates
  PROVE  Spec => []WakesOnTime
<1>1. RtcInv /\ WakesOnTime /\ [Next]_vars => WakesOnTime'
  BY EveryStep DEF Kept
<1>2. Init => WakesOnTime
  BY Start
<1> QED BY <1>1, <1>2, RtcInvHolds, PTL DEF Spec
=============================================================================
