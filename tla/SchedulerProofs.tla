-------------------------- MODULE SchedulerProofs --------------------------
(***************************************************************************)
(* Proofs about Scheduler, for every table size, every set of tasks and    *)
(* every set of inputs the assumptions of that module allow.               *)
(***************************************************************************)
EXTENDS Scheduler, FiniteSetTheorems, TLAPS

(* The cursor arithmetic of the loops stays in the table. *)
LEMMA ModInSlot == \A x \in Nat : x % N \in Slot
  BY NAssumption DEF Slot

LEMMA SlotFacts ==
    /\ 0 \in Slot
    /\ Slot \subseteq 0 .. N
    /\ Slot \subseteq Nat
    /\ \A s \in Slot : s < N /\ (s + 1) % N \in Slot
    /\ \A s, i \in Slot : (s + i) % N \in Slot
  <1>1. 0 \in Slot /\ Slot \subseteq 0 .. N /\ Slot \subseteq Nat /\ \A s \in Slot : s < N
    BY NAssumption DEF Slot
  <1>2. \A s \in Slot : s + 1 \in Nat
    BY <1>1
  <1>3. \A s, i \in Slot : s + i \in Nat
    BY <1>1
  <1> QED
    BY <1>1, <1>2, <1>3, ModInSlot

LEMMA SlotFinite == IsFiniteSet(Slot) /\ \A S \in SUBSET Slot : IsFiniteSet(S)
  <1>1. IsFiniteSet(Slot)
    BY NAssumption, FS_Interval DEF Slot
  <1>2. QED
    BY <1>1, FS_Subset

(* TypeOK is inductive once it is known that run_all is inside its inner    *)
(* loop while a callback runs: the loop variable is about to be incremented. *)
InsideLoop == pc = "callback" /\ kind = "all" => pos < N

TypeInv == TypeOK /\ InsideLoop

LEMMA SlotAtType == g_next_index \in Slot => \A i \in Slot : SlotAt(i) \in Slot
  BY SlotFacts DEF SlotAt

LEMMA TypeInvInit == Init => TypeInv
  <1> SUFFICES ASSUME Init PROVE TypeInv
    OBVIOUS
  <1>1. 0 \in Slot /\ 0 \in 0 .. N
    BY SlotFacts
  <1>2. ran \in [Slot -> BOOLEAN] /\ moved \in BOOLEAN
    BY Zenon DEF Init
  <1> QED
    BY <1>1, <1>2 DEF Init, TypeInv, TypeOK, InsideLoop, States, PRIO_LOW, PRIO_NORMAL, PRIO_CRITICAL

LEMMA TypeInvApi == TypeInv /\ Api => TypeInv'
  <1> SUFFICES ASSUME TypeInv, Api PROVE TypeInv'
    OBVIOUS
  <1> USE DEF TypeInv, TypeOK, InsideLoop, ApiCall, Touch, loop, InFrame
  <1>1. ASSUME NEW f \in Fns, NEW a \in Args, scheduler_add_task(f, a)
        PROVE  TypeInv'
    <2>1. PICK i \in Slot :
            LET idx == SlotAt(i) IN
            /\ fn'    = [fn EXCEPT ![idx] = f]
            /\ arg'   = [arg EXCEPT ![idx] = a]
            /\ state' = [state EXCEPT ![idx] = "READY"]
            /\ prio'  = [prio EXCEPT ![idx] = PRIO_NORMAL]
            /\ sleep' = [sleep EXCEPT ![idx] = 0]
            /\ ran'   = [ran EXCEPT ![idx] = FALSE]
            /\ g_task_count' = g_task_count + 1
            /\ g_next_index' = (idx + 1) % N
            /\ Touch({idx})
      BY <1>1 DEF scheduler_add_task
    <2>2. SlotAt(i) \in Slot
      BY SlotAtType
    <2>3. (SlotAt(i) + 1) % N \in Slot
      BY <2>2, SlotFacts
    <2>4. ran' \in [Slot -> BOOLEAN]
      BY <2>1, <2>2, Zenon
    <2>5. moved' \in BOOLEAN
      BY <1>1, Zenon DEF scheduler_add_task
    <2> QED
      BY <1>1, <2>1, <2>2, <2>3, <2>4, <2>5 DEF scheduler_add_task, States, PRIO_NORMAL, PRIO_LOW, PRIO_CRITICAL
  <1>2. ASSUME NEW S \in SUBSET Slot, Clear(S)
        PROVE  TypeInv'
    <2>1. Cardinality(S) \in Nat
      BY SlotFinite, FS_CardinalityType
    <2> QED
      BY <1>2, <2>1 DEF Clear, States, PRIO_NORMAL, PRIO_LOW, PRIO_CRITICAL
  <1>3. ASSUME NEW id \in Slot, scheduler_remove_task(id)
        PROVE  TypeInv'
    BY <1>2, <1>3 DEF scheduler_remove_task
  <1>4. ASSUME NEW f \in Fns, scheduler_remove_by_fn(f)
        PROVE  TypeInv'
    BY <1>2, <1>4 DEF scheduler_remove_by_fn
  <1>5. ASSUME NEW id \in Slot, NEW p \in PrioInputs, scheduler_set_priority(id, p)
        PROVE  TypeInv'
    BY <1>5, InputAssumption DEF scheduler_set_priority
  <1>6. ASSUME NEW id \in Slot, scheduler_suspend(id)
        PROVE  TypeInv'
    BY <1>6 DEF scheduler_suspend, States
  <1>7. ASSUME NEW id \in Slot, scheduler_resume(id)
        PROVE  TypeInv'
    BY <1>7 DEF scheduler_resume, States
  <1>8. ASSUME NEW id \in Slot, NEW t \in SleepInputs, scheduler_sleep(id, t)
        PROVE  TypeInv'
    BY <1>8, InputAssumption DEF scheduler_sleep, States
  <1> QED
    BY <1>1, <1>3, <1>4, <1>5, <1>6, <1>7, <1>8 DEF Api

LEMMA TickType ==
    ASSUME TypeOK, NEW dt \in Nat, tick_sleep_timers(dt)
    PROVE  state' \in [Slot -> States] /\ sleep' \in [Slot -> Nat]
  <1>1. state' \in [Slot -> States]
    BY DEF TypeOK, tick_sleep_timers, States
  <1>2. \A s \in Slot : state[s] = "SLEEPING" /\ s \notin Expired(dt) => sleep[s] - dt \in Nat
    BY DEF TypeOK, Expired
  <1>3. sleep' \in [Slot -> Nat]
    BY <1>2 DEF TypeOK, tick_sleep_timers
  <1> QED
    BY <1>1, <1>3

LEMMA TypeInvStep == TypeInv /\ [Next]_vars => TypeInv'
  <1> SUFFICES ASSUME TypeInv, [Next]_vars PROVE TypeInv'
    OBVIOUS
  <1> USE DEF TypeInv, TypeOK, InsideLoop, observed
  <1>1. CASE Api
    BY <1>1, TypeInvApi
  <1>2. ASSUME NEW dt \in DtInputs, RunAllStart(dt) PROVE TypeInv'
    BY <1>2, TickType, InputAssumption, NAssumption DEF RunAllStart, PRIO_LOW, PRIO_CRITICAL
  <1>3. ASSUME NEW dt \in DtInputs, RunOnceStart(dt) PROVE TypeInv'
    BY <1>3, TickType, InputAssumption DEF RunOnceStart
  <1>4. CASE RunLoopStart
    BY <1>4 DEF RunLoopStart, table
  <1>5. CASE RunAllCall
    <2>1. PICK t \in Pending :
            /\ band' = t[1]
            /\ pos' = t[2]
            /\ Enter(SlotAt(t[2]))
            /\ calls' = [calls EXCEPT ![SlotAt(t[2])] = IF SlotAt(t[2]) \in touched THEN 0
                                                        ELSE IF @ < 2 THEN @ + 1 ELSE 2]
      BY <1>5 DEF RunAllCall
    <2>2. t[1] \in PRIO_LOW .. PRIO_CRITICAL /\ t[2] \in Slot
      BY DEF Pending, Turns
    <2>3. SlotAt(t[2]) \in Slot
      BY <2>2, SlotAtType
    <2>4. pos' \in 0 .. N /\ pos' < N
      BY <2>1, <2>2, NAssumption DEF Slot
    <2>5. calls' \in [Slot -> 0 .. 2]
      BY <2>1, <2>3
    <2> QED
      BY <1>5, <2>1, <2>2, <2>3, <2>4, <2>5 DEF RunAllCall, Enter, table
  <1>6. CASE RunAllFinish
    <2>1. (g_next_index + 1) % N \in Slot
      BY SlotFacts
    <2>2. moved' \in BOOLEAN
      BY <1>6, Zenon DEF RunAllFinish
    <2> QED
      BY <1>6, <2>1, <2>2, SlotFacts DEF RunAllFinish, table, PRIO_LOW, PRIO_CRITICAL
  <1>7. CASE RunOnceCall
    <2>1. PICK i \in Slot : Enter(SlotAt(i))
      BY <1>7 DEF RunOnceCall
    <2>2. SlotAt(i) \in Slot
      BY SlotAtType
    <2> QED
      BY <1>7, <2>1, <2>2 DEF RunOnceCall, RunOnceScanning, Enter, table
  <1>8. CASE RunOnceNothing
    BY <1>8, SlotFacts DEF RunOnceNothing, RunOnceReturn, table
  <1>9. CASE RunLoopTurn
    BY <1>9, TickType DEF RunLoopTurn
  <1>10. CASE CallbackReturn
    <2>1. (cur + 1) % N \in Slot
      BY SlotFacts
    <2>2. ran' \in [Slot -> BOOLEAN]
      BY <1>10, Zenon DEF CallbackReturn, Returns
    <2>3. CASE kind = "all"
      <3>1. pos + 1 \in 0 .. N
        BY <1>10, <2>3, NAssumption DEF CallbackReturn, Returns
      <3> QED
        BY <1>10, <2>2, <2>3, <3>1, SlotFacts DEF CallbackReturn, Returns, table
    <2>4. CASE kind # "all"
      BY <1>10, <2>1, <2>2, <2>4, SlotFacts DEF CallbackReturn, Returns, RunOnceReturn, table
    <2> QED
      BY <2>3, <2>4
  <1>11. CASE UNCHANGED vars
    BY <1>11 DEF vars, table, loop
  <1> QED
    BY <1>1, <1>2, <1>3, <1>4, <1>5, <1>6, <1>7, <1>8, <1>9, <1>10, <1>11 DEF Next, Scan

LEMMA TypeInvariant == Spec => []TypeInv
  BY TypeInvInit, TypeInvStep, PTL DEF Spec

(* Every variable keeps its type; in particular the cursor, every slot the  *)
(* loops compute from it and the slot credited on return are in the table.  *)
THEOREM TypeCorrect == Spec => []TypeOK
  <1>1. TypeInv => TypeOK
    BY DEF TypeInv
  <1> QED
    BY <1>1, TypeInvariant, PTL

-----------------------------------------------------------------------------
(* The table.                                                               *)

LiveSlots == {s \in Slot : Live(s)}

TableInv == TypeInv /\ TableConsistent

(* Steps that keep every slot's function and argument, and the set of slots *)
(* in use, keep the table consistent as long as they keep the timers so.    *)
LEMMA TableKept ==
    ASSUME TableInv, TypeInv',
           UNCHANGED <<fn, arg, g_task_count>>,
           \A s \in Slot : Live(s) <=> Live(s)',
           \A s \in Slot : (state[s] = "SLEEPING" <=> sleep[s] > 0)'
    PROVE  TableConsistent'
  <1>1. LiveSlots' = LiveSlots
    BY DEF LiveSlots
  <1>2. CountExact'
    BY <1>1 DEF TableInv, TableConsistent, CountExact, LiveSlots
  <1>3. NoDuplicate'
    BY DEF TableInv, TableConsistent, NoDuplicate
  <1>4. SlotConsistent'
    BY DEF TableInv, TableConsistent, SlotConsistent
  <1> QED
    BY <1>2, <1>3, <1>4 DEF TableConsistent

(* Registering a task: the slot was not in use and the pair not registered. *)
LEMMA TableAdd ==
    ASSUME TableInv, NEW f \in Fns, NEW a \in Args, scheduler_add_task(f, a)
    PROVE  TableConsistent'
  <1>1. PICK i \in Slot :
          LET idx == SlotAt(i) IN
          /\ state[idx] = "EMPTY"
          /\ fn'    = [fn EXCEPT ![idx] = f]
          /\ arg'   = [arg EXCEPT ![idx] = a]
          /\ state' = [state EXCEPT ![idx] = "READY"]
          /\ sleep' = [sleep EXCEPT ![idx] = 0]
          /\ g_task_count' = g_task_count + 1
    BY DEF scheduler_add_task
  <1> DEFINE idx == SlotAt(i)
  <1>2. idx \in Slot
    BY SlotAtType DEF TableInv, TypeInv, TypeOK
  <1> HIDE DEF idx
  <1>3. CountExact'
    <2>1. IsFiniteSet(LiveSlots) /\ idx \notin LiveSlots
      BY <1>1, SlotFinite DEF LiveSlots, Live, idx
    <2>2. LiveSlots' = LiveSlots \union {idx}
      BY <1>1, <1>2 DEF LiveSlots, Live, TableInv, TypeInv, TypeOK, idx
    <2>3. Cardinality(LiveSlots') = Cardinality(LiveSlots) + 1
      BY <2>1, <2>2, FS_AddElement
    <2> QED
      BY <1>1, <2>3 DEF TableInv, TableConsistent, CountExact, LiveSlots
  <1>4. NoDuplicate'
    <2>1. \A s \in Slot : Live(s) => ~(fn[s] = f /\ arg[s] = a)
      BY DEF scheduler_add_task, Registered
    <2>2. /\ \A s \in Slot \ {idx} : fn'[s] = fn[s] /\ arg'[s] = arg[s] /\ state'[s] = state[s]
          /\ fn'[idx] = f /\ arg'[idx] = a
      BY <1>1, <1>2 DEF TableInv, TypeInv, TypeOK, idx
    <2> QED
      BY <2>1, <2>2 DEF TableInv, TableConsistent, NoDuplicate, Live
  <1>5. SlotConsistent'
    BY <1>1, <1>2, TaskAssumption DEF TableInv, TypeInv, TypeOK, TableConsistent, SlotConsistent, Live, idx
  <1> QED
    BY <1>3, <1>4, <1>5 DEF TableConsistent

(* Removing the tasks of some slots in use. *)
LEMMA TableClear ==
    ASSUME TableInv, NEW S \in SUBSET LiveSlots, Clear(S)
    PROVE  TableConsistent'
  <1>1. S \subseteq Slot
    BY DEF LiveSlots
  <1>2. CountExact'
    <2>1. IsFiniteSet(LiveSlots)
      BY SlotFinite DEF LiveSlots
    <2>2. LiveSlots' = LiveSlots \ S
      BY DEF LiveSlots, Live, Clear
    <2>3. /\ Cardinality(LiveSlots') = Cardinality(LiveSlots) - Cardinality(S)
          /\ Cardinality(S) <= Cardinality(LiveSlots)
      <3>1. LiveSlots \cap S = S
        OBVIOUS
      <3>2. Cardinality(LiveSlots \ S) = Cardinality(LiveSlots) - Cardinality(LiveSlots \cap S)
        BY <2>1, FS_Difference
      <3>3. Cardinality(S) <= Cardinality(LiveSlots)
        BY <2>1, FS_Subset
      <3> QED
        BY <2>2, <3>1, <3>2, <3>3
    <2>4. Cardinality(LiveSlots) \in Nat /\ Cardinality(S) \in Nat
      BY <2>1, FS_CardinalityType, FS_Subset
    <2>5. g_task_count = Cardinality(LiveSlots)
      BY DEF TableInv, TableConsistent, CountExact, LiveSlots
    <2>6. g_task_count' = Cardinality(LiveSlots')
      BY <2>3, <2>4, <2>5 DEF Clear
    <2> QED
      BY <2>6 DEF CountExact, LiveSlots
  <1>3. NoDuplicate'
    BY DEF TableInv, TableConsistent, NoDuplicate, Live, Clear
  <1>4. SlotConsistent'
    BY <1>1 DEF TableInv, TypeInv, TypeOK, TableConsistent, SlotConsistent, Live, Clear
  <1> QED
    BY <1>2, <1>3, <1>4 DEF TableConsistent

LEMMA TableTick ==
    ASSUME TableInv, TypeInv', NEW dt \in Nat, tick_sleep_timers(dt),
           UNCHANGED <<fn, arg, g_task_count>>
    PROVE  TableConsistent'
  <1>1. \A s \in Slot : Live(s) <=> Live(s)'
    BY DEF tick_sleep_timers, Expired, Live
  <1>2. \A s \in Slot : (state[s] = "SLEEPING" <=> sleep[s] > 0)'
    <2> SUFFICES ASSUME NEW s \in Slot
                 PROVE  state'[s] = "SLEEPING" <=> sleep'[s] > 0
      OBVIOUS
    <2>1. sleep[s] \in Nat /\ (state[s] = "SLEEPING" <=> sleep[s] > 0)
      BY DEF TableInv, TypeInv, TypeOK, TableConsistent, SlotConsistent
    <2>2. /\ s \in Expired(dt) <=> state[s] = "SLEEPING" /\ sleep[s] <= dt
          /\ state'[s] = IF s \in Expired(dt) THEN "READY" ELSE state[s]
          /\ sleep'[s] = IF state[s] # "SLEEPING" THEN sleep[s]
                         ELSE IF s \in Expired(dt) THEN 0 ELSE sleep[s] - dt
      BY DEF tick_sleep_timers, Expired
    <2> QED
      BY <2>1, <2>2
  <1> QED
    BY <1>1, <1>2, TableKept

LEMMA TableInvStep == TableInv /\ [Next]_vars => TableInv'
  <1> SUFFICES ASSUME TableInv, [Next]_vars PROVE TableInv'
    OBVIOUS
  <1>0. TypeInv'
    BY TypeInvStep DEF TableInv
  <1> SUFFICES TableConsistent'
    BY <1>0 DEF TableInv
  <1>u. ASSUME UNCHANGED <<fn, arg, state, sleep, g_task_count>> PROVE TableConsistent'
    BY <1>u, <1>0, TableKept DEF Live, TableInv, TableConsistent, SlotConsistent
  <1>1. ASSUME NEW f \in Fns, NEW a \in Args, scheduler_add_task(f, a) PROVE TableConsistent'
    BY <1>1, TableAdd
  <1>2. ASSUME NEW id \in Slot, scheduler_remove_task(id) PROVE TableConsistent'
    BY <1>2, TableClear DEF scheduler_remove_task, LiveSlots
  <1>3. ASSUME NEW f \in Fns, scheduler_remove_by_fn(f) PROVE TableConsistent'
    BY <1>3, TableClear DEF scheduler_remove_by_fn, LiveSlots
  <1>4. ASSUME NEW id \in Slot, NEW p \in PrioInputs, scheduler_set_priority(id, p)
        PROVE  TableConsistent'
    BY <1>4, <1>u DEF scheduler_set_priority
  <1>5. ASSUME NEW id \in Slot, scheduler_suspend(id) PROVE TableConsistent'
    BY <1>0, <1>5, TableKept
       DEF scheduler_suspend, Live, TableInv, TypeInv, TypeOK, TableConsistent, SlotConsistent
  <1>6. ASSUME NEW id \in Slot, scheduler_resume(id) PROVE TableConsistent'
    BY <1>0, <1>6, TableKept
       DEF scheduler_resume, Live, TableInv, TypeInv, TypeOK, TableConsistent, SlotConsistent
  <1>7. ASSUME NEW id \in Slot, NEW t \in SleepInputs, scheduler_sleep(id, t)
        PROVE  TableConsistent'
    BY <1>0, <1>7, TableKept, InputAssumption
       DEF scheduler_sleep, Live, TableInv, TypeInv, TypeOK, TableConsistent, SlotConsistent
  <1>8. ASSUME NEW dt \in DtInputs, RunAllStart(dt) PROVE TableConsistent'
    BY <1>0, <1>8, TableTick, InputAssumption DEF RunAllStart
  <1>9. ASSUME NEW dt \in DtInputs, RunOnceStart(dt) PROVE TableConsistent'
    BY <1>0, <1>9, TableTick, InputAssumption DEF RunOnceStart
  <1>10. CASE RunLoopTurn
    BY <1>0, <1>10, TableTick DEF RunLoopTurn
  <1>11. CASE RunLoopStart \/ RunAllCall \/ RunAllFinish \/ RunOnceCall
              \/ RunOnceNothing \/ CallbackReturn \/ UNCHANGED vars
    BY <1>u, <1>11 DEF RunLoopStart, RunAllCall, RunAllFinish, RunOnceCall, RunOnceNothing,
       CallbackReturn, Returns, Enter, table, vars
  <1> QED
    BY <1>1, <1>2, <1>3, <1>4, <1>5, <1>6, <1>7, <1>8, <1>9, <1>10, <1>11 DEF Next, Api, Scan

LEMMA TableInit == Init => TableInv
  <1> SUFFICES ASSUME Init PROVE TableConsistent
    BY TypeInvInit DEF TableInv
  <1>1. LiveSlots = {}
    BY DEF Init, LiveSlots, Live
  <1>2. CountExact
    BY <1>1, FS_EmptySet DEF Init, CountExact, LiveSlots
  <1> QED
    BY <1>2 DEF Init, TableConsistent, NoDuplicate, SlotConsistent, Live

LEMMA TableInvariant == Spec => []TableInv
  BY TableInit, TableInvStep, PTL DEF Spec

(* Whatever sequence of operations is called, between frames or from inside *)
(* the callbacks of a frame: the count is the number of slots in use, no    *)
(* function and argument is registered twice, a slot in use has a function, *)
(* and exactly the sleeping tasks have a running timer.                     *)
THEOREM TableCorrect == Spec => []TableConsistent
  <1>1. TableInv => TableConsistent
    BY DEF TableInv
  <1> QED
    BY <1>1, TableInvariant, PTL

-----------------------------------------------------------------------------
(* Frames.  The slots as the loops of run_all see them: the j-th turn of    *)
(* the inner loop looks at slot SlotAt(j), and as long as the cursor stays  *)
(* put every slot is looked at in exactly one turn.                         *)

LEMMA TurnOfSlot ==
    ASSUME g_next_index \in Slot
    PROVE  /\ \A s \in Slot : \E j \in Slot : SlotAt(j) = s
           /\ \A j, k \in Slot : SlotAt(j) = SlotAt(k) => j = k
  <1> USE NAssumption DEF Slot, SlotAt
  <1>0. \A x \in 0 .. 2 * N - 1 : x % N = IF x < N THEN x ELSE x - N
    OBVIOUS
  <1>1. ASSUME NEW s \in Slot PROVE \E j \in Slot : SlotAt(j) = s
    <2> DEFINE j == IF s >= g_next_index THEN s - g_next_index ELSE s - g_next_index + N
    <2>1. j \in Slot /\ g_next_index + j \in 0 .. 2 * N - 1
      BY <1>1
    <2>2. SlotAt(j) = s
      BY <1>0, <1>1, <2>1
    <2> QED
      BY <2>1, <2>2
  <1>2. ASSUME NEW j \in Slot, NEW k \in Slot, SlotAt(j) = SlotAt(k) PROVE j = k
    <2>1. g_next_index + j \in 0 .. 2 * N - 1 /\ g_next_index + k \in 0 .. 2 * N - 1
      BY <1>2
    <2> QED
      BY <1>0, <1>2, <2>1
  <1> QED
    BY <1>1, <1>2

FullInv == TableInv /\ ControlInv /\ FrameInv

LEMMA ControlStep == TypeInv /\ ControlInv /\ [Next]_vars => ControlInv'
  <1> SUFFICES ASSUME TypeInv, ControlInv, [Next]_vars PROVE ControlInv'
    OBVIOUS
  <1> USE DEF ControlInv
  <1>a. CASE Api
    <2>1. UNCHANGED <<pc, kind>>
      BY <1>a DEF Api, loop, scheduler_add_task, scheduler_remove_task, scheduler_remove_by_fn, Clear,
         scheduler_set_priority, scheduler_suspend, scheduler_resume, scheduler_sleep
    <2>2. \E S \in SUBSET Slot : Touch(S)
      <3>1. ASSUME NEW f \in Fns, NEW a \in Args, scheduler_add_task(f, a)
            PROVE  \E S \in SUBSET Slot : Touch(S)
        BY <3>1, SlotAtType DEF scheduler_add_task, TypeInv, TypeOK
      <3> QED
        BY <1>a, <3>1 DEF Api, scheduler_remove_task, scheduler_remove_by_fn, Clear,
           scheduler_set_priority, scheduler_suspend, scheduler_resume, scheduler_sleep
    <2>3. kind # "all" /\ ~moved => ~moved'
      BY <1>a DEF Api, InFrame, scheduler_add_task, scheduler_remove_task, scheduler_remove_by_fn, Clear,
         scheduler_set_priority, scheduler_suspend, scheduler_resume, scheduler_sleep
    <2>4. PICK S \in SUBSET Slot : Touch(S)
      BY <2>2
    <2>5. kind # "all" => touched' = {} /\ owed' = {} /\ calls' = [s \in Slot |-> 0]
      BY <2>4 DEF Touch, InFrame
    <2> QED
      BY <2>1, <2>3, <2>5
  <1>1. ASSUME NEW dt \in DtInputs, RunAllStart(dt) PROVE ControlInv'
    BY <1>1 DEF RunAllStart
  <1>2. ASSUME NEW dt \in DtInputs, RunOnceStart(dt) PROVE ControlInv'
    BY <1>2 DEF RunOnceStart, observed
  <1>3. CASE RunLoopStart \/ RunLoopTurn
    BY <1>3 DEF RunLoopStart, RunLoopTurn, observed
  <1>4. CASE RunAllCall
    BY <1>4 DEF RunAllCall, RunAllScanning, Enter
  <1>5. CASE RunAllFinish
    BY <1>5 DEF RunAllFinish
  <1>6. CASE RunOnceCall \/ RunOnceNothing
    BY <1>6 DEF RunOnceCall, RunOnceNothing, RunOnceScanning, RunOnceReturn, Enter, observed
  <1>7. CASE CallbackReturn
    BY <1>7 DEF CallbackReturn, Returns, RunOnceReturn, observed
  <1>8. CASE UNCHANGED vars
    BY <1>8 DEF vars, loop, observed
  <1> QED
    BY <1>a, <1>1, <1>2, <1>3, <1>4, <1>5, <1>6, <1>7, <1>8 DEF Next, Scan

(* An operation leaves the slots it does not touch, and the loop variables, *)
(* alone; and it leaves the cursor alone unless it registers a task.        *)
LEMMA ApiFrame ==
    ASSUME TypeInv, Api, kind = "all", ~moved'
    PROVE  /\ ~moved
           /\ UNCHANGED <<pc, kind, band, pos, cur, g_next_index, ran>>
           /\ \E S \in SUBSET Slot :
                /\ touched' = touched \union S
                /\ \A s \in Slot \ S : /\ state'[s] = state[s]
                                       /\ prio'[s] = prio[s]
                                       /\ calls'[s] = calls[s]
                                       /\ s \in owed' <=> s \in owed
  <1> DEFINE Kept(S) == /\ touched' = touched \union S
                        /\ \A s \in Slot \ S : /\ state'[s] = state[s]
                                               /\ prio'[s] = prio[s]
                                               /\ calls'[s] = calls[s]
                                               /\ s \in owed' <=> s \in owed
             Goal == /\ ~moved
                     /\ UNCHANGED <<pc, kind, band, pos, cur, g_next_index, ran>>
                     /\ \E S \in SUBSET Slot : Kept(S)
  <1> USE DEF Touch, InFrame, TypeInv, TypeOK, loop
  <1>1. ASSUME NEW f \in Fns, NEW a \in Args PROVE ~scheduler_add_task(f, a)
    BY <1>1 DEF scheduler_add_task
  <1>2. ASSUME NEW S \in SUBSET Slot, Clear(S) PROVE Goal
    <2>1. Kept(S)
      BY <1>2 DEF Clear
    <2> QED
      BY <1>2, <2>1 DEF Clear
  <1>3. ASSUME NEW id \in Slot, scheduler_remove_task(id) PROVE Goal
    BY <1>2, <1>3 DEF scheduler_remove_task
  <1>4. ASSUME NEW f \in Fns, scheduler_remove_by_fn(f) PROVE Goal
    BY <1>2, <1>4 DEF scheduler_remove_by_fn
  <1>5. ASSUME NEW id \in Slot, NEW p \in PrioInputs, scheduler_set_priority(id, p) PROVE Goal
    <2>1. Kept({id})
      BY <1>5 DEF scheduler_set_priority
    <2> QED
      BY <1>5, <2>1 DEF scheduler_set_priority
  <1>6. ASSUME NEW id \in Slot, scheduler_suspend(id) PROVE Goal
    <2>1. Kept({id})
      BY <1>6 DEF scheduler_suspend
    <2> QED
      BY <1>6, <2>1 DEF scheduler_suspend
  <1>7. ASSUME NEW id \in Slot, scheduler_resume(id) PROVE Goal
    <2>1. Kept({id})
      BY <1>7 DEF scheduler_resume
    <2> QED
      BY <1>7, <2>1 DEF scheduler_resume
  <1>8. ASSUME NEW id \in Slot, NEW t \in SleepInputs, scheduler_sleep(id, t) PROVE Goal
    <2>1. Kept({id})
      BY <1>8 DEF scheduler_sleep
    <2> QED
      BY <1>8, <2>1 DEF scheduler_sleep
  <1>9. Goal
    BY <1>1, <1>3, <1>4, <1>5, <1>6, <1>7, <1>8 DEF Api
  <1> QED
    BY <1>9

(* Entering the next task function: its turn becomes the last one passed,   *)
(* and no turn with a task to call lies between.                            *)
LEMMA FrameCall ==
    ASSUME FullInv, RunAllCall
    PROVE  FrameInv'
  <1> SUFFICES ASSUME ~moved,
                      NEW j \in Slot, SlotAt(j) \notin touched
               PROVE  /\ cur' = SlotAt(pos')
                      /\ SlotServed(SlotAt(j), j)'
    BY DEF FrameInv, RunAllCall, Enter, SlotAt
  <1>1. PICK t \in Pending :
          /\ \A u \in Pending : NotBefore(u, t[1], t[2])
          /\ band' = t[1]
          /\ pos' = t[2]
          /\ Enter(SlotAt(t[2]))
          /\ calls' = [calls EXCEPT ![SlotAt(t[2])] = IF SlotAt(t[2]) \in touched THEN 0
                                                      ELSE IF @ < 2 THEN @ + 1 ELSE 2]
    BY DEF RunAllCall
  <1>2. /\ t \in Turns /\ NotBefore(t, band, pos) /\ RunAllMatch(t)
        /\ t[1] \in 0 .. 3 /\ t[2] \in Slot
        /\ t = <<t[1], t[2]>>
    BY DEF Pending, Turns, PRIO_LOW, PRIO_CRITICAL
  <1>3. TypeInv /\ TableConsistent /\ g_next_index \in Slot /\ pos \in 0 .. N /\ band \in 0 .. 3
    BY DEF FullInv, TableInv, TypeInv, TypeOK, PRIO_LOW, PRIO_CRITICAL
  <1>4. pc = "scan" /\ kind = "all"
    BY DEF RunAllCall, RunAllScanning
  <1>5. /\ UNCHANGED <<state, prio, fn, ran, g_next_index, owed, touched>>
        /\ pc' = "callback" /\ cur' = SlotAt(t[2])
    BY <1>1 DEF RunAllCall, Enter, table
  <1> DEFINE s == SlotAt(j)
             u == <<prio[s], j>>
  <1>6. s \in Slot /\ SlotAt(t[2]) \in Slot
    BY <1>2, <1>3, SlotAtType
  <1>7. SlotServed(s, j)
    BY <1>4 DEF FullInv, FrameInv
  <1>8. prio[s] \in 0 .. 3 /\ j \in Nat /\ t[2] \in Nat
    BY <1>2, <1>3, <1>6, SlotFacts DEF TypeInv, TypeOK, PRIO_LOW, PRIO_CRITICAL
  <1>9. state[s] = "READY" => RunAllMatch(u)
    BY <1>3, <1>6 DEF RunAllMatch, Runnable, TableConsistent, SlotConsistent, Live
  <1>A. s' = s /\ SlotAt(pos') = SlotAt(t[2]) /\ u' = u
    BY <1>1, <1>5 DEF SlotAt
  <1>10. (Passed(u) <=> ~NotBefore(u, band, pos)) /\ (Passed(u)' <=> ~NotBefore(u, t[1], t[2] + 1))
    <2>1. Passed(u)' <=> ~NotBefore(u, band', pos' + 1)
      BY <1>5, <1>A DEF Passed, NotBefore
    <2> QED
      BY <1>1, <1>4, <2>1 DEF Passed
  <1>12. cur' = SlotAt(pos')
    BY <1>5, <1>A
  <1>13. CASE j = t[2]
    <2>1. prio[s] = t[1] /\ state[s] = "READY"
      BY <1>2, <1>13 DEF RunAllMatch, Runnable
    <2>2. ~Passed(u)
      BY <1>2, <1>10, <1>13, <2>1
    <2>3. calls[s] = 0
      BY <1>7, <2>1, <2>2 DEF SlotServed
    <2>4. calls'[s] = 1
      BY <1>1, <1>3, <1>6, <1>13, <2>3 DEF TypeInv, TypeOK
    <2>5. Passed(u)'
      BY <1>8, <1>10, <1>13, <2>1 DEF NotBefore
    <2> QED
      BY <1>5, <1>7, <1>A, <1>12, <1>13, <2>1, <2>4, <2>5 DEF SlotServed
  <1>14. CASE j # t[2]
    <2>1. s # SlotAt(t[2])
      BY <1>2, <1>3, <1>14, TurnOfSlot
    <2>2. calls'[s] = calls[s]
      BY <1>1, <1>3, <1>6, <2>1 DEF TypeInv, TypeOK
    <2>3. state[s] = "READY" => (Passed(u)' <=> Passed(u))
      <3> HAVE state[s] = "READY"
      <3>1. Passed(u) => Passed(u)'
        BY <1>2, <1>3, <1>8, <1>10 DEF NotBefore
      <3>2. ASSUME ~Passed(u) PROVE ~Passed(u)'
        <4>1. u \in Pending
          BY <1>6, <1>8, <1>9, <1>10, <3>2 DEF Pending, Turns, PRIO_LOW, PRIO_CRITICAL
        <4>2. NotBefore(u, t[1], t[2])
          BY <1>1, <4>1
        <4> QED
          BY <1>2, <1>8, <1>10, <1>14, <4>2 DEF NotBefore
      <3> QED
        BY <3>1, <3>2
    <2> QED
      BY <1>4, <1>5, <1>7, <1>A, <1>12, <2>2, <2>3 DEF SlotServed
  <1> QED
    BY <1>13, <1>14

LEMMA FrameStep == FullInv /\ [Next]_vars => FrameInv'
  <1> SUFFICES ASSUME FullInv, [Next]_vars, kind' = "all", ~moved' PROVE FrameInv'
    BY DEF FrameInv
  <1>0. TypeInv /\ ControlInv /\ FrameInv /\ TypeOK
    BY DEF FullInv, TableInv, TypeInv
  <1>a. CASE Api
    <2>1. kind = "all"
      BY <1>a DEF Api, loop, scheduler_add_task, scheduler_remove_task, scheduler_remove_by_fn, Clear,
         scheduler_set_priority, scheduler_suspend, scheduler_resume, scheduler_sleep
    <2>2. /\ ~moved
          /\ UNCHANGED <<pc, kind, band, pos, cur, g_next_index, ran>>
      BY <1>0, <1>a, <2>1, ApiFrame
    <2>3. PICK S \in SUBSET Slot :
            /\ touched' = touched \union S
            /\ \A s \in Slot \ S : /\ state'[s] = state[s]
                                   /\ prio'[s] = prio[s]
                                   /\ calls'[s] = calls[s]
                                   /\ s \in owed' <=> s \in owed
      BY <1>0, <1>a, <2>1, ApiFrame
    <2>4. ASSUME NEW j \in Slot, SlotAt(j)' \notin touched'
          PROVE  SlotServed(SlotAt(j), j)'
      <3>1. SlotAt(j)' = SlotAt(j) /\ SlotAt(j) \in Slot \ S /\ SlotAt(j) \notin touched
        BY <1>0, <2>2, <2>3, <2>4, SlotAtType DEF SlotAt, TypeOK
      <3>2. SlotServed(SlotAt(j), j)
        BY <1>0, <2>1, <2>2, <3>1 DEF FrameInv
      <3>3. Passed(<<prio[SlotAt(j)], j>>)' <=> Passed(<<prio[SlotAt(j)], j>>)
        BY <2>2, <2>3, <3>1 DEF Passed, NotBefore
      <3> QED
        BY <2>2, <2>3, <3>1, <3>2, <3>3 DEF SlotServed
    <2>5. (pc = "callback" => cur = SlotAt(pos))'
      BY <1>0, <2>1, <2>2 DEF FrameInv, SlotAt
    <2> QED
      BY <2>4, <2>5 DEF FrameInv
  <1>1. ASSUME NEW dt \in DtInputs, RunAllStart(dt) PROVE FrameInv'
    <2>1. /\ pc' = "scan" /\ band' = 3 /\ pos' = 0
          /\ calls' = [s \in Slot |-> 0]
          /\ owed' = {s \in Slot : state'[s] = "READY"}
          /\ UNCHANGED <<prio, g_next_index>>
      BY <1>0, <1>1 DEF RunAllStart, ControlInv, PRIO_CRITICAL
    <2>2. ASSUME NEW j \in Slot PROVE SlotServed(SlotAt(j), j)'
      <3>1. SlotAt(j)' \in Slot /\ SlotAt(j)' = SlotAt(j)
        BY <1>0, <2>1, SlotAtType DEF SlotAt, TypeOK
      <3>2. prio[SlotAt(j)] \in 0 .. 3 /\ j \in Nat
        BY <1>0, <3>1, SlotFacts DEF TypeOK, PRIO_LOW, PRIO_CRITICAL
      <3>3. ~Passed(<<prio[SlotAt(j)], j>>)'
        BY <2>1, <3>1, <3>2 DEF Passed, NotBefore
      <3> QED
        BY <2>1, <3>1, <3>3 DEF SlotServed
    <2> QED
      BY <2>1, <2>2 DEF FrameInv
  <1>2. CASE RunAllCall
    BY <1>2, FrameCall
  <1>3. CASE CallbackReturn
    <2>1. /\ pc = "callback" /\ kind = "all"
          /\ pc' = "scan" /\ pos' = pos + 1
          /\ ran' = [ran EXCEPT ![cur] = TRUE]
          /\ UNCHANGED <<state, prio, g_next_index, band, touched, owed, calls>>
      BY <1>0, <1>3 DEF CallbackReturn, Returns, RunOnceReturn, table, observed
    <2>2. ~moved
      BY <1>3 DEF CallbackReturn, Returns, observed
    <2>3. ASSUME NEW j \in Slot, SlotAt(j)' \notin touched'
          PROVE  SlotServed(SlotAt(j), j)'
      <3>1. SlotAt(j)' = SlotAt(j) /\ SlotAt(j) \in Slot
        BY <1>0, <2>1, SlotAtType DEF SlotAt, TypeOK
      <3>2. SlotServed(SlotAt(j), j)
        BY <1>0, <2>1, <2>2, <2>3, <3>1 DEF FrameInv
      <3>3. Passed(<<prio[SlotAt(j)], j>>)' <=> Passed(<<prio[SlotAt(j)], j>>)
        BY <2>1, <3>1 DEF Passed, NotBefore
      <3>4. calls[SlotAt(j)] = 1 => ran'[SlotAt(j)]
        <4>1. CASE cur = SlotAt(j)
          BY <1>0, <2>1, <3>1, <4>1, Zenon DEF TypeOK
        <4>2. CASE cur # SlotAt(j)
          <5>1. calls[SlotAt(j)] = 1 => ran[SlotAt(j)]
            BY <3>2, <4>2 DEF SlotServed
          <5>2. ran'[SlotAt(j)] = ran[SlotAt(j)]
            BY <1>0, <2>1, <3>1, <4>2, Zenon DEF TypeOK
          <5> QED
            BY <5>1, <5>2, Zenon
        <4> QED
          BY <4>1, <4>2
      <3> QED
        BY <2>1, <3>1, <3>2, <3>3, <3>4 DEF SlotServed
    <2> QED
      BY <2>1, <2>3 DEF FrameInv
  <1>4. CASE RunAllFinish \/ RunLoopStart \/ RunLoopTurn \/ RunOnceCall \/ RunOnceNothing
    BY <1>0, <1>4 DEF RunAllFinish, RunLoopStart, RunLoopTurn, RunOnceCall, RunOnceNothing,
       RunOnceScanning, RunOnceReturn, Enter, ControlInv
  <1>5. ASSUME NEW dt \in DtInputs, RunOnceStart(dt) PROVE FrameInv'
    BY <1>5 DEF RunOnceStart
  <1>6. CASE UNCHANGED vars
    BY <1>0, <1>6 DEF vars, table, loop, observed, FrameInv, SlotAt, SlotServed, Passed, NotBefore
  <1> QED
    BY <1>a, <1>1, <1>2, <1>3, <1>4, <1>5, <1>6 DEF Next, Scan

LEMMA FullInvariant == Spec => []FullInv
  <1>1. Init => FullInv
    <2>1. Init => ControlInv /\ FrameInv
      BY DEF Init, ControlInv, FrameInv
    <2> QED
      BY <2>1, TableInit DEF FullInv
  <1>2. FullInv /\ [Next]_vars => FullInv'
    BY TableInvStep, ControlStep, FrameStep DEF FullInv, TableInv
  <1> QED
    BY <1>1, <1>2, PTL DEF Spec

(* A frame in which no callback registers a task calls every task that was  *)
(* READY when its timers had been ticked, and that no callback changed,     *)
(* exactly once, and calls no other untouched task: for tables of every     *)
(* size, every assignment of priorities and every mix of operations.        *)
THEOREM FrameCorrect == Spec => []RunsAllReadyUnlessMoved
  <1>1. FullInv => RunsAllReadyUnlessMoved
    <2> SUFFICES ASSUME FullInv, AtFrameEnd, ~moved, NEW s \in Slot \ touched
                 PROVE  /\ calls[s] = IF s \in owed THEN 1 ELSE 0
                        /\ s \in owed => ran[s]
      BY DEF RunsAllReadyUnlessMoved, FrameComplete
    <2>1. TypeOK /\ TableConsistent /\ kind = "all" /\ pc = "scan" /\ Pending = {}
      BY DEF FullInv, TableInv, TypeInv, AtFrameEnd, RunAllScanning
    <2>2. PICK j \in Slot : SlotAt(j) = s
      BY <2>1, TurnOfSlot DEF TypeOK
    <2>3. SlotServed(s, j)
      BY <2>1, <2>2 DEF FullInv, FrameInv
    <2>4. state[s] = "READY" => Passed(<<prio[s], j>>)
      <3> HAVE state[s] = "READY"
      <3>1. RunAllMatch(<<prio[s], j>>)
        BY <2>1, <2>2 DEF RunAllMatch, Runnable, TableConsistent, SlotConsistent, Live
      <3>2. <<prio[s], j>> \in Turns
        BY <2>1 DEF Turns, TypeOK
      <3> QED
        BY <2>1, <3>1, <3>2 DEF Pending, Passed
    <2> QED
      BY <2>1, <2>3, <2>4 DEF SlotServed
  <1> QED
    BY <1>1, FullInvariant, PTL
=============================================================================
