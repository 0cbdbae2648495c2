----------------------------- MODULE Scheduler -----------------------------
(***************************************************************************)
(* The cooperative task scheduler, scheduler/scheduler.c.                  *)
(*                                                                         *)
(* A table of SCHEDULER_MAX_TASKS slots is driven by scheduler_run_all,    *)
(* scheduler_run_once or scheduler_run_loop, which call the task functions *)
(* one after the other on the only thread there is.  While a task function *)
(* runs it may call every operation of the scheduler, so the table, and    *)
(* the round-robin cursor the loop is indexing with, can change under a    *)
(* loop that is half way through.  A call of run_all is therefore a        *)
(* sequence of steps here: one up to the next task function it enters, one *)
(* when that function returns, and the operations interleaved between the  *)
(* two.                                                                    *)
(*                                                                         *)
(* Abstractions: times are whole ticks, stats.run_count is kept as "is it  *)
(* positive" (ran), the task's name is left out, and a task function does  *)
(* not itself call scheduler_run_*.                                        *)
(***************************************************************************)
EXTENDS Integers, FiniteSets

CONSTANTS
    N,            \* SCHEDULER_MAX_TASKS
    Fns, Args,    \* task functions and their arguments
    NULL,         \* the null pointer, as a function and as an argument
    PrioInputs,   \* priorities scheduler_set_priority is called with
    SleepInputs,  \* durations scheduler_sleep is called with
    DtInputs      \* elapsed times run_all and run_once are called with

PRIO_LOW      == 0
PRIO_NORMAL   == 1
PRIO_HIGH     == 2
PRIO_CRITICAL == 3

ASSUME NAssumption == N \in Nat \ {0}
ASSUME TaskAssumption == NULL \notin Fns
ASSUME InputAssumption ==
    /\ PrioInputs \subseteq PRIO_LOW .. PRIO_CRITICAL
    /\ SleepInputs \subseteq Nat \ {0}
    /\ DtInputs \subseteq Nat

Slot == 0 .. N - 1
States == {"EMPTY", "READY", "SLEEPING", "SUSPENDED"}

VARIABLES
    fn, arg, state, prio, sleep, ran,   \* g_tasks[i].*
    g_task_count, g_next_index,
    pc,      \* who runs: "idle" the caller of the scheduler, "scan" the loop,
             \* "callback" a task function, "loop" between turns of run_loop
    kind,    \* the loop under way: "none", "all", "once" or "loop"
    band,    \* run_all's loop variable prio
    pos,     \* the loop variable i
    cur,     \* the idx of the task function being called
    (* Observations of the run_all under way; the code does not keep them. *)
    touched, \* slots some callback of it has changed
    owed,    \* the other slots that were READY once its timers had been ticked
    calls,   \* how often it called each of the others (2: twice or more)
    moved    \* a callback of it moved g_next_index

table    == <<fn, arg, state, prio, sleep>>
loop     == <<pc, kind, band, pos, cur>>
observed == <<touched, owed, calls, moved>>
vars     == <<table, ran, g_task_count, g_next_index, loop, observed>>

Live(s)  == state[s] # "EMPTY"
InFrame  == kind = "all"

(* The slot the loops look at in their i-th turn: the cursor is read anew   *)
(* every time.                                                              *)
SlotAt(i) == (g_next_index + i) % N

(* scheduler_init, run by kernel_main before anything else uses the table.  *)
Init ==
    /\ fn    = [s \in Slot |-> NULL]
    /\ arg   = [s \in Slot |-> NULL]
    /\ state = [s \in Slot |-> "EMPTY"]
    /\ prio  = [s \in Slot |-> PRIO_NORMAL]
    /\ sleep = [s \in Slot |-> 0]
    /\ ran   = [s \in Slot |-> FALSE]
    /\ g_task_count = 0
    /\ g_next_index = 0
    /\ pc = "idle" /\ kind = "none" /\ band = 0 /\ pos = 0 /\ cur = 0
    /\ owed = {} /\ calls = [s \in Slot |-> 0]
    /\ touched = {} /\ moved = FALSE

-----------------------------------------------------------------------------
(* The operations.  They are called between frames and from callbacks.      *)

ApiCall == pc \in {"idle", "callback"}

(* Records, for the run_all under way, that a callback changed slots S. *)
Touch(S) ==
    /\ touched' = IF InFrame THEN touched \union S ELSE touched
    /\ owed' = owed \ S
    /\ calls' = [s \in Slot |-> IF s \in S THEN 0 ELSE calls[s]]

Registered(f, a) == \E s \in Slot : Live(s) /\ fn[s] = f /\ arg[s] = a

(* A pair that is registered already, and a full table, change nothing.     *)
scheduler_add_task(f, a) ==
    /\ ApiCall
    /\ ~Registered(f, a)
    /\ \E i \in Slot :
         LET idx == SlotAt(i) IN
         /\ state[idx] = "EMPTY"
         /\ \A j \in 0 .. i - 1 : state[SlotAt(j)] # "EMPTY"
         /\ fn'    = [fn EXCEPT ![idx] = f]
         /\ arg'   = [arg EXCEPT ![idx] = a]
         /\ state' = [state EXCEPT ![idx] = "READY"]
         /\ prio'  = [prio EXCEPT ![idx] = PRIO_NORMAL]
         /\ sleep' = [sleep EXCEPT ![idx] = 0]
         /\ ran'   = [ran EXCEPT ![idx] = FALSE]
         /\ g_task_count' = g_task_count + 1
         /\ g_next_index' = (idx + 1) % N
         /\ Touch({idx})
    /\ moved' = (InFrame \/ moved)
    /\ UNCHANGED loop

(* What scheduler_remove_task does, to every slot of S; run_count survives. *)
Clear(S) ==
    /\ fn'    = [s \in Slot |-> IF s \in S THEN NULL ELSE fn[s]]
    /\ arg'   = [s \in Slot |-> IF s \in S THEN NULL ELSE arg[s]]
    /\ state' = [s \in Slot |-> IF s \in S THEN "EMPTY" ELSE state[s]]
    /\ prio'  = [s \in Slot |-> IF s \in S THEN PRIO_NORMAL ELSE prio[s]]
    /\ sleep' = [s \in Slot |-> IF s \in S THEN 0 ELSE sleep[s]]
    /\ g_task_count' = IF g_task_count > Cardinality(S)
                       THEN g_task_count - Cardinality(S) ELSE 0
    /\ Touch(S)
    /\ UNCHANGED <<ran, g_next_index, loop, moved>>

scheduler_remove_task(id) ==
    /\ ApiCall
    /\ Live(id)
    /\ Clear({id})

scheduler_remove_by_fn(f) ==
    /\ ApiCall
    /\ Clear({s \in Slot : Live(s) /\ fn[s] = f})

scheduler_set_priority(id, p) ==
    /\ ApiCall
    /\ Live(id)
    /\ prio' = [prio EXCEPT ![id] = p]
    /\ Touch({id})
    /\ UNCHANGED <<fn, arg, state, sleep, ran, g_task_count, g_next_index, loop, moved>>

scheduler_suspend(id) ==
    /\ ApiCall
    /\ state[id] = "READY"
    /\ state' = [state EXCEPT ![id] = "SUSPENDED"]
    /\ Touch({id})
    /\ UNCHANGED <<fn, arg, prio, sleep, ran, g_task_count, g_next_index, loop, moved>>

(* Faulty variant: the timer of a resumed sleeper is left running.          *)
scheduler_resume_KeepsTimer(id) ==
    /\ ApiCall
    /\ state[id] \in {"SUSPENDED", "SLEEPING"}
    /\ state' = [state EXCEPT ![id] = "READY"]
    /\ Touch({id})
    /\ UNCHANGED <<fn, arg, prio, sleep, ran, g_task_count, g_next_index, loop, moved>>

scheduler_resume(id) ==
    /\ ApiCall
    /\ state[id] \in {"SUSPENDED", "SLEEPING"}
    /\ sleep' = [sleep EXCEPT ![id] = 0]
    /\ state' = [state EXCEPT ![id] = "READY"]
    /\ Touch({id})
    /\ UNCHANGED <<fn, arg, prio, ran, g_task_count, g_next_index, loop, moved>>

(* A SUSPENDED task is put to sleep too: its timer will make it READY.      *)
scheduler_sleep(id, seconds) ==
    /\ ApiCall
    /\ Live(id)
    /\ seconds > 0
    /\ sleep' = [sleep EXCEPT ![id] = seconds]
    /\ state' = [state EXCEPT ![id] = "SLEEPING"]
    /\ Touch({id})
    /\ UNCHANGED <<fn, arg, prio, ran, g_task_count, g_next_index, loop, moved>>

-----------------------------------------------------------------------------
(* The loops.                                                               *)

Expired(dt) == {s \in Slot : state[s] = "SLEEPING" /\ sleep[s] <= dt}

(* Faulty variant: a timer that does not expire at once is not counted down. *)
tick_sleep_timers_NoCountdown(dt) ==
    /\ state' = [s \in Slot |-> IF s \in Expired(dt) THEN "READY" ELSE state[s]]
    /\ sleep' = [s \in Slot |-> IF s \in Expired(dt) THEN 0 ELSE sleep[s]]

tick_sleep_timers(dt) ==
    /\ state' = [s \in Slot |-> IF s \in Expired(dt) THEN "READY" ELSE state[s]]
    /\ sleep' = [s \in Slot |-> IF state[s] # "SLEEPING" THEN sleep[s]
                                ELSE IF s \in Expired(dt) THEN 0
                                ELSE sleep[s] - dt]

Runnable(s) == state[s] = "READY" /\ fn[s] # NULL

(* Entering the task function of a slot; run_task's first line.             *)
Enter(idx) ==
    /\ pc' = "callback"
    /\ cur' = idx
    /\ UNCHANGED <<table, ran, g_task_count, g_next_index, kind>>

(* scheduler_run_all(dt), from the call to the first turn of its loops.     *)
RunAllStart(dt) ==
    /\ pc = "idle"
    /\ tick_sleep_timers(dt)
    /\ pc' = "scan" /\ kind' = "all" /\ band' = PRIO_CRITICAL /\ pos' = 0
    /\ owed' = {s \in Slot : state'[s] = "READY"}
    /\ UNCHANGED <<fn, arg, prio, ran, g_task_count, g_next_index, cur, touched, calls, moved>>

RunAllScanning == pc = "scan" /\ kind = "all"

(* The turns <<b, i>> of the two nested loops, and the order they come in.  *)
Turns == (PRIO_LOW .. PRIO_CRITICAL) \X Slot

NotBefore(t, b, i) == t[1] < b \/ (t[1] = b /\ t[2] >= i)

RunAllMatch(t) == Runnable(SlotAt(t[2])) /\ prio[SlotAt(t[2])] = t[1]

(* The loops go on at <<band, pos>>; this is the set of the turns to come   *)
(* in which, as the table is now, a task would be called.                   *)
Pending == {t \in Turns : NotBefore(t, band, pos) /\ RunAllMatch(t)}

(* The turns up to the next one that calls a task; nothing else can happen  *)
(* in between.                                                              *)
RunAllCall ==
    /\ RunAllScanning
    /\ \E t \in Pending :
         /\ \A u \in Pending : NotBefore(u, t[1], t[2])
         /\ band' = t[1]
         /\ pos' = t[2]
         /\ Enter(SlotAt(t[2]))
         /\ calls' = [calls EXCEPT ![SlotAt(t[2])] = IF SlotAt(t[2]) \in touched THEN 0
                                                    ELSE IF @ < 2 THEN @ + 1 ELSE 2]
    /\ UNCHANGED <<touched, owed, moved>>

RunAllFinish ==
    /\ RunAllScanning
    /\ Pending = {}
    /\ g_next_index' = (g_next_index + 1) % N
    /\ pc' = "idle" /\ kind' = "none" /\ band' = 0 /\ pos' = 0 /\ cur' = 0
    /\ touched' = {} /\ owed' = {} /\ calls' = [s \in Slot |-> 0] /\ moved' = FALSE
    /\ UNCHANGED <<table, ran, g_task_count>>

(* scheduler_run_once(dt), called as such or as a turn of run_loop.         *)
RunOnceStart(dt) ==
    /\ pc = "idle"
    /\ tick_sleep_timers(dt)
    /\ pc' = "scan" /\ kind' = "once"
    /\ UNCHANGED <<fn, arg, prio, ran, g_task_count, g_next_index, band, pos, cur, observed>>

RunLoopStart ==
    /\ pc = "idle"
    /\ pc' = "loop" /\ kind' = "loop"
    /\ UNCHANGED <<table, ran, g_task_count, g_next_index, band, pos, cur, observed>>

RunLoopTurn ==
    /\ pc = "loop"
    /\ tick_sleep_timers(0)
    /\ pc' = "scan"
    /\ UNCHANGED <<fn, arg, prio, ran, g_task_count, g_next_index, kind, band, pos, cur, observed>>

RunOnceScanning == pc = "scan" /\ kind \in {"once", "loop"}

(* Where control goes when scheduler_run_once returns.                      *)
RunOnceReturn ==
    /\ pc' = IF kind = "loop" THEN "loop" ELSE "idle"
    /\ kind' = IF kind = "loop" THEN "loop" ELSE "none"
    /\ cur' = 0
    /\ UNCHANGED <<band, pos>>

RunOnceCall ==
    /\ RunOnceScanning
    /\ \E i \in Slot :
         /\ Runnable(SlotAt(i))
         /\ \A j \in 0 .. i - 1 : ~Runnable(SlotAt(j))
         /\ Enter(SlotAt(i))
    /\ UNCHANGED <<band, pos, observed>>

RunOnceNothing ==
    /\ RunOnceScanning
    /\ \A s \in Slot : ~Runnable(s)
    /\ RunOnceReturn
    /\ UNCHANGED <<table, ran, g_task_count, g_next_index, observed>>

(* The task function returns: the slot it was called from is credited,      *)
(* whatever that slot holds by now, and the loop goes on with its cursor at *)
(* the given place.                                                         *)
Returns(cursor, cursorAll) ==
    /\ pc = "callback"
    /\ ran' = [ran EXCEPT ![cur] = TRUE]
    /\ \/ /\ kind = "all"
          /\ pc' = "scan" /\ pos' = pos + 1 /\ cur' = 0
          /\ g_next_index' = cursorAll
          /\ UNCHANGED <<kind, band>>
       \/ /\ kind # "all"
          /\ g_next_index' = cursor
          /\ RunOnceReturn
    /\ UNCHANGED <<table, g_task_count, observed>>

(* Faulty variants: the cursor is left to run off the table, is left on the *)
(* task that ran, or is advanced by run_all after every task.               *)
CallbackReturn_NoWrap == Returns(cur + 1, g_next_index)
CallbackReturn_StaysPut == Returns(cur, g_next_index)
CallbackReturn_AlwaysAdvances == Returns((cur + 1) % N, (cur + 1) % N)

(* run_once puts the cursor behind the task it ran, run_all leaves it.      *)
CallbackReturn == Returns((cur + 1) % N, g_next_index)

Api ==
    \/ \E f \in Fns, a \in Args : scheduler_add_task(f, a)
    \/ \E id \in Slot : scheduler_remove_task(id)
    \/ \E f \in Fns : scheduler_remove_by_fn(f)
    \/ \E id \in Slot, p \in PrioInputs : scheduler_set_priority(id, p)
    \/ \E id \in Slot : scheduler_suspend(id)
    \/ \E id \in Slot : scheduler_resume(id)
    \/ \E id \in Slot, t \in SleepInputs : scheduler_sleep(id, t)

Scan ==
    \/ RunAllCall \/ RunAllFinish
    \/ RunOnceCall \/ RunOnceNothing
    \/ RunLoopTurn

Next ==
    \/ Api
    \/ \E dt \in DtInputs : RunAllStart(dt)
    \/ \E dt \in DtInputs : RunOnceStart(dt)
    \/ RunLoopStart
    \/ Scan
    \/ CallbackReturn

Spec == Init /\ [][Next]_vars

(* The processor keeps executing the loop, every task function returns (the *)
(* scheduler is cooperative and relies on it), and the caller, the frame    *)
(* loop of the GUI, keeps calling run_all with the time since the previous  *)
(* frame, which is positive.                                                *)
Fairness ==
    /\ WF_vars(Scan)
    /\ WF_vars(CallbackReturn)
    /\ WF_vars(\E dt \in DtInputs \ {0} : RunAllStart(dt))

FairSpec == Spec /\ Fairness

-----------------------------------------------------------------------------
TypeOK ==
    /\ fn    \in [Slot -> Fns \union {NULL}]
    /\ arg   \in [Slot -> Args \union {NULL}]
    /\ state \in [Slot -> States]
    /\ prio  \in [Slot -> PRIO_LOW .. PRIO_CRITICAL]
    /\ sleep \in [Slot -> Nat]
    /\ ran   \in [Slot -> BOOLEAN]
    /\ g_task_count \in Nat
    /\ g_next_index \in Slot
    /\ pc \in {"idle", "scan", "callback", "loop"}
    /\ kind \in {"none", "all", "once", "loop"}
    /\ band \in PRIO_LOW .. PRIO_CRITICAL
    /\ pos \in 0 .. N
    /\ cur \in Slot
    /\ owed \subseteq Slot
    /\ calls \in [Slot -> 0 .. 2]
    /\ touched \subseteq Slot
    /\ moved \in BOOLEAN

(* The count the table keeps is the number of slots in use.                 *)
CountExact == g_task_count = Cardinality({s \in Slot : Live(s)})

(* scheduler_add_task's dedup and remove's clearing, over every sequence of *)
(* operations: no function and argument is registered twice, a slot has a   *)
(* function exactly when it is in use, and a timer runs exactly for the     *)
(* sleeping tasks (so resuming, suspending or removing leaves no old timer  *)
(* that would wake a later one).                                            *)
NoDuplicate ==
    \A s, t \in Slot :
        Live(s) /\ Live(t) /\ fn[s] = fn[t] /\ arg[s] = arg[t] => s = t

SlotConsistent ==
    \A s \in Slot :
        /\ Live(s) <=> fn[s] # NULL
        /\ state[s] = "SLEEPING" <=> sleep[s] > 0

TableConsistent == CountExact /\ NoDuplicate /\ SlotConsistent

(* scheduler_run_all's comment: it "runs all READY tasks".  At the end of a *)
(* frame every task that was READY at its beginning, and that no callback   *)
(* changed in between, has been called exactly once and credited, and no    *)
(* task the frame did not find READY was called without a callback having   *)
(* changed it.                                                              *)
FrameComplete ==
    \A s \in Slot \ touched :
        /\ calls[s] = IF s \in owed THEN 1 ELSE 0
        /\ s \in owed => ran[s]

AtFrameEnd == RunAllScanning /\ Pending = {}

RunsAllReady == AtFrameEnd => FrameComplete

(* The same, for the frames in which no callback registered a task: adding  *)
(* one moves the cursor that the loop is indexing with.                     *)
RunsAllReadyUnlessMoved == AtFrameEnd /\ ~moved => FrameComplete

(* What makes RunsAllReadyUnlessMoved inductive: the observations belong to *)
(* the frame under way, and in every state of a frame whose cursor has not  *)
(* moved, an untouched slot has been called exactly if it is READY and the  *)
(* loops have passed its turn.                                              *)
ControlInv ==
    /\ pc = "idle" <=> kind = "none"
    /\ pc = "loop" => kind = "loop"
    /\ kind # "all" => touched = {} /\ owed = {} /\ calls = [s \in Slot |-> 0] /\ ~moved

Passed(t) == ~NotBefore(t, band, IF pc = "callback" THEN pos + 1 ELSE pos)

SlotServed(s, j) ==
    /\ s \in owed <=> state[s] = "READY"
    /\ calls[s] = IF state[s] = "READY" /\ Passed(<<prio[s], j>>) THEN 1 ELSE 0
    /\ calls[s] = 1 => ran[s] \/ (pc = "callback" /\ cur = s)

FrameInv ==
    kind = "all" /\ ~moved =>
        /\ pc = "callback" => cur = SlotAt(pos)
        /\ \A j \in Slot : SlotAt(j) \notin touched => SlotServed(SlotAt(j), j)

(* scheduler_run_once's comment on starvation: under run_loop a READY task  *)
(* is called, or stops being READY, whatever the callbacks of the others do *)
(* to the table and to the cursor.                                          *)
RunLoopStarvesNobody ==
    \A s \in Slot :
        (kind = "loop" /\ state[s] = "READY")
            ~> (state[s] # "READY" \/ (pc = "callback" /\ cur = s))

(* Under the frame loop a sleeping task wakes, unless it is put to sleep    *)
(* again and again or the processor never comes back from run_loop (which   *)
(* ticks by 0.0).                                                           *)
SleepersWake ==
    \A s \in Slot :
        \/ []<>(state[s] # "SLEEPING")
        \/ []<><<sleep'[s] > sleep[s]>>_vars
        \/ <>[](kind = "loop")
=============================================================================
