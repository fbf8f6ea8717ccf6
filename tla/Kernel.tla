------------------------------- MODULE Kernel -------------------------------
(***************************************************************************)
(* The process kernel of teatime-os (src/system): the ready list and       *)
(* sched(), counting semaphores and mutexes, condition variables signalled *)
(* from processes, level-1 handlers and the NMI, the sleep list and the    *)
(* tick.                                                                   *)
(*                                                                         *)
(* A masked stretch of code (between disable() and enable()) cannot be     *)
(* interrupted by a level-1 handler and switches process only in sched(),  *)
(* but the NMI still lands inside it.  Variable `at' is the place reached  *)
(* in such a stretch; `at = "user"' means interrupts are open and the      *)
(* current process, or the handler of a level-1 interrupt, moves next.     *)
(* Every loop of the masked code takes one step per iteration.             *)
(*                                                                         *)
(* The processes are the most general clients that keep the two rules the  *)
(* code's own clients keep: only a holder unlocks a mutex or waits with    *)
(* it, and nobody locks a mutex it holds already.                          *)
(***************************************************************************)
EXTENDS Integers, SequencesExt

CONSTANTS
    Proc,        \* the processes, one per proctab row in use
    NullProc,    \* pid 0: the boot thread, which ends as the idle loop
    Prio,        \* proctab[p].priority, fixed by create()
    Mutex,       \* semaphores made by mutex_create()
    Counting,    \* semaphores made by sem_create(0)
    NCond,       \* conditions are 0 .. NCond-1
    IsrCond,     \* conditions some level-1 handler signals
    NmiCond,     \* conditions the NMI signals
    Waiters,     \* Waiters[c] is the set of processes that wait on c
    Delay,       \* the delays passed to sleep() and cond_timedwait()
    Wrap,        \* tick_count is an unsigned of this many values
    MaxCount,    \* bound on a counting semaphore's value
    MutexNone,   \* MUTEX_NONE
    Forever      \* the "delay" of an untimed wait

Cond == 0 .. NCond - 1
Semaphore == Mutex \cup Counting
Tick == 0 .. Wrap - 1

ASSUME ProcAssumption ==
    /\ NullProc \in Proc
    /\ IsFiniteSet(Proc)
    /\ Prio \in [Proc -> Nat]
    /\ \A p \in Proc \ {NullProc} : Prio[p] > Prio[NullProc]
ASSUME SyncAssumption ==
    /\ NCond \in Nat \ {0}
    /\ IsrCond \subseteq Cond /\ NmiCond \subseteq Cond
    /\ Waiters \in [Cond -> SUBSET Proc]
    /\ Mutex \cap Counting = {}
    /\ MutexNone \notin Semaphore
    /\ MaxCount \in Nat
ASSUME TickAssumption ==
    /\ Wrap \in Nat \ {0}
    /\ Delay \subseteq Nat
    /\ \A d \in Delay : 2 * d < Wrap
    /\ Forever \notin Delay

VARIABLES
    status,      \* proctab[p].status
    curr,        \* curr_pid
    needResched, \* need_resched
    avail,       \* avail_list, highest priority first
    count,       \* semtab[s].count
    semQ,        \* semtab[s].queue
    condQ,       \* condtab[c].queue
    pending,     \* condtab[c].pending
    nmiPending,  \* nmi_pending
    sleepList,   \* sleep_list, earliest first
    wakeAt,      \* sleepers[p].wake_at (0 while p is off the list)
    tickCount,   \* tick_count
    timedOut,    \* proctab[p].timed_out
    at,          \* how far the masked code has come, or "user"
    call,        \* the arguments of the masked routine in progress
    op,          \* the kernel call a process is suspended in, or "run"
    lockOf,      \* the semaphore argument of that call
    holds        \* the mutexes a process has locked, as it knows itself

sync  == <<count, semQ>>
conds == <<condQ, pending, nmiPending>>
time  == <<sleepList, wakeAt, tickCount, timedOut>>
sched_ == <<status, needResched, avail>>
client == <<op, lockOf, holds>>
vars == <<status, curr, needResched, avail, count, semQ, condQ, pending,
          nmiPending, sleepList, wakeAt, tickCount, timedOut, at, call, op,
          lockOf, holds>>

Status == {"AVAIL", "CURR", "COND_WAIT", "SEM_WAIT", "TIMED_WAIT"}
Place == {"user", "sched", "wait_clear", "wait_park", "wake_all",
          "sleep_clock", "cond_clock", "scan", "scan_wake"}
Op == {"run", "sem_wait", "cond_wait", "sleep", "relock"}
NoCall == [cond |-> 0, mutex |-> MutexNone, delay |-> Forever]

-----------------------------------------------------------------------------
(* The queues. *)

\* The place in q behind every leading entry that belongs to `ahead'.
PlaceBehind(q, ahead) ==
    CHOOSE k \in 1 .. Len(q) + 1 :
        /\ \A i \in 1 .. k - 1 : q[i] \in ahead
        /\ k <= Len(q) => q[k] \notin ahead

InsertBehind(q, p, ahead) == InsertAt(q, PlaceBehind(q, ahead), p)

\* Wrong: a process goes in front of its equals.
proc_enqueue_LIFO(q, p) ==
    IF p \in Range(q) THEN q
    ELSE InsertBehind(q, p, {x \in Proc : Prio[x] > Prio[p]})

proc_enqueue(q, p) ==
    IF p \in Range(q) THEN q
    ELSE InsertBehind(q, p, {x \in Proc : Prio[x] >= Prio[p]})

\* Wrong: a timed-out waiter keeps its place in the condition's queue.
proc_remove_Forgotten(q, p) == q

\* One queue's view of proc_remove: unlink p if it is there.
proc_remove(q, p) ==
    IF p \in Range(q) THEN RemoveAt(q, CHOOSE i \in DOMAIN q : q[i] = p)
    ELSE q

\* proc_dequeue: the entry it returns and the queue it leaves.
Dequeued(q) == IF q = <<>> THEN NullProc ELSE Head(q)
Rest(q) == IF q = <<>> THEN q ELSE Tail(q)

\* (int)(a - b) on unsigneds of Wrap values.
SignedDiff(a, b) ==
    LET d == (a - b) % Wrap IN IF 2 * d >= Wrap THEN d - Wrap ELSE d

\* Wrong: wake_at is computed in a wider type than tick_count's.
sleep_enqueue_Wide(p, delay) ==
    /\ wakeAt' = [wakeAt EXCEPT ![p] = tickCount + delay]
    /\ sleepList' = InsertBehind(sleepList, p,
                      {x \in Proc : SignedDiff(wakeAt[x], tickCount + delay) <= 0})

\* Wrong: the list is ordered by the ticks themselves, which wrap.
sleep_enqueue_Unsigned(p, delay) ==
    LET w == (tickCount + delay) % Wrap
    IN  /\ wakeAt' = [wakeAt EXCEPT ![p] = w]
        /\ sleepList' = InsertBehind(sleepList, p, {x \in Proc : wakeAt[x] <= w})

sleep_enqueue(p, delay) ==
    LET w == (tickCount + delay) % Wrap
    IN  /\ wakeAt' = [wakeAt EXCEPT ![p] = w]
        /\ sleepList' = InsertBehind(sleepList, p,
                          {x \in Proc : SignedDiff(wakeAt[x], w) <= 0})

sleep_remove(p) ==
    /\ sleepList' = proc_remove(sleepList, p)
    /\ wakeAt' = [wakeAt EXCEPT ![p] = 0]

-----------------------------------------------------------------------------
(* make_avail and what is built from it.  `st' is proctab's status column  *)
(* and `ready' the ready list as the caller has left them.                 *)

make_avail(p, st, ready) ==
    /\ status' = [st EXCEPT ![p] = "AVAIL"]
    /\ avail' = proc_enqueue(ready, p)
    /\ needResched' = (needResched \/ Prio[p] > Prio[curr])

\* Wrong: a signalled waiter stays on the sleep list.
wake_StillSleeping(p) ==
    /\ UNCHANGED <<sleepList, wakeAt>>
    /\ make_avail(p, status, avail)

wake(p) ==
    /\ IF status[p] = "TIMED_WAIT" THEN sleep_remove(p)
                                   ELSE UNCHANGED <<sleepList, wakeAt>>
    /\ make_avail(p, status, avail)

\* Wrong: the last waiter is not handed the unit.
Post_Strict(s, st) ==
    /\ count' = [count EXCEPT ![s] = @ + 1]
    /\ IF count[s] + 1 < 0
       THEN /\ semQ' = [semQ EXCEPT ![s] = Rest(@)]
            /\ make_avail(Dequeued(semQ[s]), st, avail)
       ELSE /\ status' = st
            /\ UNCHANGED <<semQ, avail, needResched>>

\* Wrong: a waiter is made available whether or not one was owed a unit,
\* and the count is left to it.
Post_NoCount(s, st) ==
    /\ UNCHANGED count
    /\ semQ' = [semQ EXCEPT ![s] = Rest(@)]
    /\ make_avail(Dequeued(semQ[s]), st, avail)

\* sem_signal up to its "if (need_resched)".
Post(s, st) ==
    /\ count' = [count EXCEPT ![s] = @ + 1]
    /\ IF count[s] + 1 <= 0
       THEN /\ semQ' = [semQ EXCEPT ![s] = Rest(@)]
            /\ make_avail(Dequeued(semQ[s]), st, avail)
       ELSE /\ status' = st
            /\ UNCHANGED <<semQ, avail, needResched>>

\* mutex_unlock up to the same point.
Unlock(m, st) ==
    IF count[m] < 1 THEN Post(m, st)
    ELSE status' = st /\ UNCHANGED <<sync, avail, needResched>>

\* Wrong: the caller goes on although a reschedule was asked for.
ReschedOrReturn_Missed == at' = "user"

\* "if (need_resched) sched(); enable(m);"
ReschedOrReturn == at' = IF needResched' THEN "sched" ELSE "user"

-----------------------------------------------------------------------------
(* Calls of the current process.                                           *)

Running(o) == at = "user" /\ curr # NullProc /\ op[curr] = o

\* sem_wait and mutex_lock, called from user code or at the end of a wait.
SemWait(s) ==
    /\ \/ Running("run") /\ s \notin holds[curr]
       \/ Running("relock") /\ s = lockOf[curr]
    /\ count' = [count EXCEPT ![s] = @ - 1]
    /\ IF count[s] - 1 < 0
       THEN /\ status' = [status EXCEPT ![curr] = "SEM_WAIT"]
            /\ semQ' = [semQ EXCEPT ![s] = proc_enqueue(@, curr)]
            /\ op' = [op EXCEPT ![curr] = "sem_wait"]
            /\ lockOf' = [lockOf EXCEPT ![curr] = s]
            /\ at' = "sched"
            /\ UNCHANGED holds
       ELSE /\ op' = [op EXCEPT ![curr] = "run"]
            /\ lockOf' = [lockOf EXCEPT ![curr] = MutexNone]
            /\ holds' = [holds EXCEPT ![curr] = @ \cup ({s} \cap Mutex)]
            /\ UNCHANGED <<status, semQ, at>>
    /\ UNCHANGED <<curr, needResched, avail, conds, time, call>>

\* A process that had to queue in sem_wait is back from sched().
SemWaitReturn ==
    /\ Running("sem_wait")
    /\ op' = [op EXCEPT ![curr] = "run"]
    /\ lockOf' = [lockOf EXCEPT ![curr] = MutexNone]
    /\ holds' = [holds EXCEPT ![curr] = @ \cup ({lockOf[curr]} \cap Mutex)]
    /\ UNCHANGED <<sched_, curr, sync, conds, time, at, call>>

SemSignal(s) ==
    /\ Running("run") /\ count[s] < MaxCount
    /\ Post(s, status)
    /\ ReschedOrReturn
    /\ UNCHANGED <<curr, conds, time, call, client>>

MutexUnlock(m) ==
    /\ Running("run") /\ m \in holds[curr]
    /\ Unlock(m, status)
    /\ holds' = [holds EXCEPT ![curr] = @ \ {m}]
    /\ ReschedOrReturn
    /\ UNCHANGED <<curr, conds, time, call, op, lockOf>>

\* Wrong: wait() does not look at pending.
CondWait_Untested(c, m, d) ==
    /\ Running("run") /\ curr \in Waiters[c]
    /\ m \in holds[curr] \cup {MutexNone}
    /\ call' = [cond |-> c, mutex |-> m, delay |-> d]
    /\ at' = "wait_park"
    /\ UNCHANGED <<sched_, curr, sync, conds, time, client>>

\* wait() up to its test of pending; d is Forever for cond_wait.
CondWait(c, m, d) ==
    /\ Running("run") /\ curr \in Waiters[c]
    /\ m \in holds[curr] \cup {MutexNone}
    /\ call' = [cond |-> c, mutex |-> m, delay |-> d]
    /\ at' = IF pending[c] THEN "wait_clear" ELSE "wait_park"
    /\ UNCHANGED <<sched_, curr, sync, conds, time, client>>

\* The signal came first: take it and return at once, mutex still held.
WaitClear ==
    /\ at = "wait_clear"
    /\ pending' = [pending EXCEPT ![call.cond] = FALSE]
    /\ at' = "user" /\ call' = NoCall
    /\ UNCHANGED <<sched_, curr, sync, condQ, nmiPending, time, client>>

\* The rest of wait() up to sched(): queue, then unlock.
WaitPark ==
    /\ at = "wait_park"
    /\ LET c == call.cond
           m == call.mutex
           timed == call.delay # Forever
           st == [status EXCEPT ![curr] =
                     IF timed THEN "TIMED_WAIT" ELSE "COND_WAIT"]
       IN  /\ timedOut' = [timedOut EXCEPT ![curr] = FALSE]
           /\ IF timed THEN sleep_enqueue(curr, call.delay)
                       ELSE UNCHANGED <<sleepList, wakeAt>>
           /\ condQ' = [condQ EXCEPT ![c] = proc_enqueue(@, curr)]
           /\ IF m # MutexNone
              THEN Unlock(m, st)
              ELSE status' = st /\ UNCHANGED <<sync, avail, needResched>>
           /\ op' = [op EXCEPT ![curr] = "cond_wait"]
           /\ lockOf' = [lockOf EXCEPT ![curr] = m]
           /\ holds' = [holds EXCEPT ![curr] = @ \ {m}]
    /\ at' = "sched" /\ call' = NoCall
    /\ UNCHANGED <<curr, pending, nmiPending, tickCount>>

\* Back from sched() in wait(): read timed_out, unmask, relock next.
WaitReturn ==
    /\ Running("cond_wait")
    /\ op' = [op EXCEPT ![curr] =
                 IF lockOf[curr] = MutexNone THEN "run" ELSE "relock"]
    /\ UNCHANGED <<sched_, curr, sync, conds, time, at, call, lockOf, holds>>

Sleep(d) ==
    /\ Running("run")
    /\ status' = [status EXCEPT ![curr] = "TIMED_WAIT"]
    /\ sleep_enqueue(curr, d)
    /\ op' = [op EXCEPT ![curr] = "sleep"]
    /\ at' = "sched"
    /\ UNCHANGED <<curr, needResched, avail, sync, conds, tickCount, timedOut,
                   call, lockOf, holds>>

SleepReturn ==
    /\ Running("sleep")
    /\ op' = [op EXCEPT ![curr] = "run"]
    /\ UNCHANGED <<sched_, curr, sync, conds, time, at, call, lockOf, holds>>

CondSignal(c) ==
    /\ Running("run")
    /\ condQ' = [condQ EXCEPT ![c] = Rest(@)]
    /\ IF condQ[c] # <<>>
       THEN wake(Head(condQ[c]))
       ELSE UNCHANGED <<sched_, sleepList, wakeAt>>
    /\ ReschedOrReturn
    /\ UNCHANGED <<curr, sync, pending, nmiPending, tickCount, timedOut, call,
                   client>>

CondBroadcast(c) ==
    /\ Running("run")
    /\ at' = "wake_all" /\ call' = [NoCall EXCEPT !.cond = c]
    /\ UNCHANGED <<sched_, curr, sync, conds, time, client>>

-----------------------------------------------------------------------------
(* Interrupts.                                                             *)

\* A level-1 handler calls cond_signal_isr.
CondSignalIsr(c) ==
    /\ at = "user"
    /\ pending' = [pending EXCEPT ![c] = TRUE]
    /\ at' = "wake_all" /\ call' = [NoCall EXCEPT !.cond = c]
    /\ UNCHANGED <<sched_, curr, sync, condQ, nmiPending, time, client>>

\* The NMI lands anywhere, in the middle of masked code too.
CondSignalNmi(c) ==
    /\ pending' = [pending EXCEPT ![c] = TRUE]
    /\ nmiPending' = TRUE
    /\ UNCHANGED <<sched_, curr, sync, condQ, time, at, call, client>>

\* Wrong: the tick count stops at its largest value.
TimerIntr_Saturates ==
    /\ at = "user"
    /\ tickCount' = IF tickCount + 1 < Wrap THEN tickCount + 1 ELSE tickCount
    /\ at' = "sleep_clock"
    /\ UNCHANGED <<sched_, curr, sync, conds, sleepList, wakeAt, timedOut,
                   call, client>>

\* The tick is taken.
TimerIntr ==
    /\ at = "user"
    /\ tickCount' = (tickCount + 1) % Wrap
    /\ at' = "sleep_clock"
    /\ UNCHANGED <<sched_, curr, sync, conds, sleepList, wakeAt, timedOut,
                   call, client>>

-----------------------------------------------------------------------------
(* Masked loops and sched().                                               *)

\* One turn of wake_all for cond_broadcast and cond_signal_isr.
WakeAll ==
    /\ at = "wake_all"
    /\ LET c == call.cond
       IN  IF condQ[c] # <<>>
           THEN /\ wake(Head(condQ[c]))
                /\ condQ' = [condQ EXCEPT ![c] = Rest(@)]
                /\ UNCHANGED <<at, call>>
           ELSE /\ UNCHANGED <<sched_, sleepList, wakeAt, condQ>>
                /\ ReschedOrReturn /\ call' = NoCall
    /\ UNCHANGED <<curr, sync, pending, nmiPending, tickCount, timedOut,
                   client>>

Due(p) == SignedDiff(wakeAt[p], tickCount) <= 0

\* One turn of sleep_clock's loop.
SleepClock ==
    /\ at = "sleep_clock"
    /\ IF sleepList # <<>> /\ Due(Head(sleepList))
       THEN LET p == Head(sleepList)
            IN  /\ sleepList' = Tail(sleepList)
                /\ wakeAt' = [wakeAt EXCEPT ![p] = 0]
                /\ condQ' = [c \in Cond |-> proc_remove(condQ[c], p)]
                /\ semQ' = [s \in Semaphore |-> proc_remove(semQ[s], p)]
                /\ timedOut' = [timedOut EXCEPT ![p] = TRUE]
                /\ make_avail(p, status, proc_remove(avail, p))
                /\ UNCHANGED at
       ELSE /\ at' = "cond_clock"
            /\ UNCHANGED <<sleepList, wakeAt, condQ, semQ, timedOut, sched_>>
    /\ UNCHANGED <<curr, count, pending, nmiPending, tickCount, call, client>>

CondClock ==
    /\ at = "cond_clock"
    /\ at' = IF nmiPending THEN "scan" ELSE "sched"
    /\ nmiPending' = FALSE
    /\ UNCHANGED <<sched_, curr, sync, condQ, pending, time, call, client>>

\* Wrong: the loop ends one condition early.
NextCond_Short ==
    IF call.cond + 2 < NCond
    THEN at' = "scan" /\ call' = [call EXCEPT !.cond = @ + 1]
    ELSE at' = "sched" /\ call' = NoCall

\* To the next condition of cond_clock's loop, or out of it.
NextCond ==
    IF call.cond + 1 < NCond
    THEN at' = "scan" /\ call' = [call EXCEPT !.cond = @ + 1]
    ELSE at' = "sched" /\ call' = NoCall

Scan ==
    /\ at = "scan"
    /\ IF pending[call.cond] /\ condQ[call.cond] # <<>>
       THEN at' = "scan_wake" /\ UNCHANGED call
       ELSE NextCond
    /\ UNCHANGED <<sched_, curr, sync, conds, time, client>>

\* One turn of wake_all for cond_clock, or the clearing of pending after it.
ScanWake ==
    /\ at = "scan_wake"
    /\ LET c == call.cond
       IN  IF condQ[c] # <<>>
           THEN /\ wake(Head(condQ[c]))
                /\ condQ' = [condQ EXCEPT ![c] = Rest(@)]
                /\ UNCHANGED <<at, call, pending>>
           ELSE /\ pending' = [pending EXCEPT ![c] = FALSE]
                /\ NextCond
                /\ UNCHANGED <<sched_, sleepList, wakeAt, condQ>>
    /\ UNCHANGED <<curr, sync, nmiPending, tickCount, timedOut, client>>

\* sched(): a current process that can still run goes behind its equals.
Sched ==
    /\ at = "sched"
    /\ LET stays == status[curr] = "CURR"
           ready == IF stays THEN proc_enqueue(avail, curr) ELSE avail
           next == Dequeued(ready)
       IN  /\ status' = [p \in Proc |->
                            IF p = next THEN "CURR"
                            ELSE IF p = curr /\ stays THEN "AVAIL"
                            ELSE status[p]]
           /\ avail' = Rest(ready)
           /\ curr' = next
    /\ needResched' = FALSE
    /\ at' = "user"
    /\ UNCHANGED <<sync, conds, time, call, client>>

-----------------------------------------------------------------------------
(* start() has spawned its processes and waits for the first tick: the     *)
(* boot thread was made available as the null process while it runs, so it *)
(* is on the ready list, behind everybody, and current.                    *)
BootReady ==
    {q \in [1 .. Cardinality(Proc) -> Proc] :
        \A i, j \in DOMAIN q : i < j => /\ q[i] # q[j]
                                        /\ Prio[q[i]] >= Prio[q[j]]}

Init ==
    /\ status = [p \in Proc |-> "AVAIL"]
    /\ curr = NullProc
    /\ needResched = TRUE
    /\ avail \in BootReady
    /\ count = [s \in Semaphore |-> IF s \in Mutex THEN 1 ELSE 0]
    /\ semQ = [s \in Semaphore |-> <<>>]
    /\ condQ = [c \in Cond |-> <<>>]
    /\ pending = [c \in Cond |-> FALSE]
    /\ nmiPending = FALSE
    /\ sleepList = <<>>
    /\ wakeAt = [p \in Proc |-> 0]
    /\ tickCount = 0
    /\ timedOut = [p \in Proc |-> FALSE]
    /\ at = "user"
    /\ call = NoCall
    /\ op = [p \in Proc |-> "run"]
    /\ lockOf = [p \in Proc |-> MutexNone]
    /\ holds = [p \in Proc |-> {}]

Process ==
    \/ \E s \in Semaphore : SemWait(s)
    \/ SemWaitReturn
    \/ \E s \in Counting : SemSignal(s)
    \/ \E m \in Mutex : MutexUnlock(m)
    \/ \E c \in Cond, m \in Mutex \cup {MutexNone}, d \in Delay \cup {Forever} :
          CondWait(c, m, d)
    \/ WaitReturn
    \/ \E d \in Delay : Sleep(d)
    \/ SleepReturn
    \/ \E c \in Cond : CondSignal(c)
    \/ \E c \in Cond : CondBroadcast(c)

Masked ==
    \/ WaitClear \/ WaitPark \/ WakeAll \/ SleepClock
    \/ CondClock \/ Scan \/ ScanWake \/ Sched

Interrupt ==
    \/ \E c \in IsrCond : CondSignalIsr(c)
    \/ \E c \in NmiCond : CondSignalNmi(c)
    \/ TimerIntr

Next == Process \/ Masked \/ Interrupt

Spec == Init /\ [][Next]_vars

(* The timer interrupt is latched in hardware until it is taken, so it is  *)
(* not lost while the kernel is masked (strong fairness); masked code runs *)
(* to its end.  Nothing is assumed of the processes or of the other        *)
(* interrupts.                                                             *)
Fairness == SF_vars(TimerIntr) /\ WF_vars(Masked)
FairSpec == Spec /\ Fairness

-----------------------------------------------------------------------------
(* Properties.                                                             *)

\* Every variable has its type (proctab, the queues and the kernel's flags).
TypeOK ==
    /\ status \in [Proc -> Status]
    /\ curr \in Proc
    /\ needResched \in BOOLEAN
    /\ avail \in Seq(Proc)
    /\ count \in [Semaphore -> Int]
    /\ semQ \in [Semaphore -> Seq(Proc)]
    /\ condQ \in [Cond -> Seq(Proc)]
    /\ pending \in [Cond -> BOOLEAN]
    /\ nmiPending \in BOOLEAN
    /\ sleepList \in Seq(Proc)
    /\ wakeAt \in [Proc -> Tick]
    /\ tickCount \in Tick
    /\ timedOut \in [Proc -> BOOLEAN]
    /\ at \in Place
    /\ call \in [cond : Cond, mutex : Mutex \cup {MutexNone},
                 delay : Delay \cup {Forever}]
    /\ op \in [Proc -> Op]
    /\ lockOf \in [Proc -> Semaphore \cup {MutexNone}]
    /\ holds \in [Proc -> SUBSET Mutex]

NoDup(q) == \A i, j \in DOMAIN q : i # j => q[i] # q[j]
Sorted(q) == \A i, j \in DOMAIN q : i < j => Prio[q[i]] >= Prio[q[j]]

\* proc_queue.h: a process is in at most one queue - through every wait,
\* wake, timeout and hand-off - and that queue is the one its status names.
OneQueue ==
    /\ NoDup(avail) /\ Sorted(avail)
    /\ \A s \in Semaphore : NoDup(semQ[s]) /\ Sorted(semQ[s])
    /\ \A c \in Cond : NoDup(condQ[c]) /\ Sorted(condQ[c])
    /\ NoDup(sleepList)
    /\ \A p \in Proc :
        /\ p \in Range(avail) <=> status[p] = "AVAIL"
        /\ p \in Range(sleepList) <=> status[p] = "TIMED_WAIT"
        /\ \A s \in Semaphore : p \in Range(semQ[s]) =>
              status[p] = "SEM_WAIT" /\ op[p] = "sem_wait" /\ lockOf[p] = s
        /\ status[p] = "SEM_WAIT" => \E s \in Semaphore : p \in Range(semQ[s])
        /\ \A c \in Cond : p \in Range(condQ[c]) =>
              /\ status[p] \in {"COND_WAIT", "TIMED_WAIT"}
              /\ op[p] = "cond_wait"
              /\ \A e \in Cond \ {c} : p \notin Range(condQ[e])
        /\ status[p] = "COND_WAIT" => \E c \in Cond : p \in Range(condQ[c])

\* start() before the first switch: it runs as the null process, which is on
\* the ready list, and the processes it has spawned are owed a reschedule.
Booting == needResched /\ curr = NullProc /\ status[curr] = "AVAIL"

\* Whenever the kernel is left, by a call, a handler or the tick, nobody who
\* could run has a higher priority than the process that does, and no
\* reschedule that make_avail asked for is still owed: no path out of the
\* kernel forgets its sched().
HighestRuns ==
    at = "user" /\ ~Booting =>
        /\ ~needResched /\ status[curr] = "CURR"
        /\ \A p \in Proc : status[p] = "AVAIL" => Prio[p] <= Prio[curr]

\* cond.c's promise: a signal held in pending while somebody is parked on
\* the condition is one a tick or a scan under way will still deliver.
NoStrandedSignal ==
    \A c \in Cond : pending[c] /\ condQ[c] # <<>> =>
        \/ nmiPending
        \/ at \in {"scan", "scan_wake"} /\ call.cond <= c
        \/ at = "wake_all" /\ call.cond = c

\* p was handed the semaphore while queued and has not run since.
Granted(p, s) == op[p] = "sem_wait" /\ lockOf[p] = s /\ p \notin Range(semQ[s])

\* A mutex has one owner - the process that holds it or the one it was
\* handed to - and its count and queue account for everybody who wants it.
MutexExcludes ==
    \A m \in Mutex :
        LET owners == {p \in Proc : m \in holds[p] \/ Granted(p, m)}
        IN  /\ Cardinality(owners) <= 1
            /\ count[m] = 1 - Cardinality(owners) - Len(semQ[m])
            /\ semQ[m] # <<>> => owners # {}

\* A semaphore's negative count is the number of its waiters: none is
\* stranded when a unit is there, and no hand-off goes to the null process.
WaitersCounted ==
    \A s \in Semaphore :
        Len(semQ[s]) = IF count[s] < 0 THEN - count[s] ELSE 0

\* The sleep list stays in wake order when tick_count wraps, and nobody on
\* it is overdue once the tick has been handled.
SleepOrdered ==
    /\ \A i, j \in DOMAIN sleepList : i < j =>
          SignedDiff(wakeAt[sleepList[i]], wakeAt[sleepList[j]]) <= 0
    /\ at = "user" => \A p \in Range(sleepList) :
          SignedDiff(wakeAt[p], tickCount) >= 0

\* A timed wait ends one way: it reports a timeout only when its tick has
\* come and it leaves the condition's queue with it, and a waiter that a
\* signal takes off the queue is off the sleep list and reports none.
SignalXorTimeout ==
    [][\A p \in Proc :
        /\ timedOut'[p] /\ ~timedOut[p] =>
              /\ p \in Range(sleepList) /\ Due(p)
              /\ \A c \in Cond : p \notin Range(condQ'[c])
        /\ \A c \in Cond :
              p \in Range(condQ[c]) \ Range(condQ'[c]) /\ at # "sleep_clock" =>
                  ~timedOut'[p] /\ p \notin Range(sleepList')]_vars

\* What the NMI signalled reaches everybody who waits for it, by the tick.
NmiDelivered ==
    \A c \in Cond, p \in Proc :
        pending[c] /\ p \in Range(condQ[c]) ~> p \notin Range(condQ[c])

\* Every timed wait ends, across the wrap of tick_count too.
SleeperWakes ==
    \A p \in Proc : p \in Range(sleepList) ~> p \notin Range(sleepList)

\* Round robin: a ready process of the highest priority gets the processor.
TopPriorityRuns ==
    \A p \in Proc :
        (\A x \in Proc : Prio[x] <= Prio[p]) =>
            (status[p] = "AVAIL" ~> status[p] = "CURR")
=============================================================================
