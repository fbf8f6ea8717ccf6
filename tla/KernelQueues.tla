---------------------------- MODULE KernelQueues -----------------------------
(* Theorems about who stands in which of the kernel's queues: one queue at  *)
(* a time and the one the status names, every waiter counted, the highest   *)
(* priority running, one owner to a mutex, one way out of a timed wait.     *)
EXTENDS KernelProofs

-----------------------------------------------------------------------------
(* A process's place, as a relation between its row and the queues: `st',   *)
(* `o' and `lk' are the columns status, op and lockOf; `av', `sl', `sq' and *)
(* `cq' the queues.                                                         *)

InPlace(p, st, o, lk, av, sl, sq, cq) ==
    /\ p \in Range(av) <=> st[p] = "AVAIL"
    /\ p \in Range(sl) <=> st[p] = "TIMED_WAIT"
    /\ \A s \in Semaphore : p \in Range(sq[s]) =>
          st[p] = "SEM_WAIT" /\ o[p] = "sem_wait" /\ lk[p] = s
    /\ st[p] = "SEM_WAIT" => \E s \in Semaphore : p \in Range(sq[s])
    /\ \A c \in Cond : p \in Range(cq[c]) =>
          /\ st[p] \in {"COND_WAIT", "TIMED_WAIT"}
          /\ o[p] = "cond_wait"
          /\ \A e \in Cond \ {c} : p \notin Range(cq[e])
    /\ st[p] = "COND_WAIT" => \E c \in Cond : p \in Range(cq[c])

QueuesKept(av, sl, sq, cq) ==
    /\ Ordered(av) /\ NoDup(sl)
    /\ \A s \in Semaphore : Ordered(sq[s])
    /\ \A c \in Cond : Ordered(cq[c])

Placed(st, o, lk, av, sl, sq, cq) ==
    /\ QueuesKept(av, sl, sq, cq)
    /\ \A p \in Proc : InPlace(p, st, o, lk, av, sl, sq, cq)

LEMMA OneQueueIsPlaced ==
    OneQueue <=> Placed(status, op, lockOf, avail, sleepList, semQ, condQ)
BY DEF OneQueue, Placed, QueuesKept, InPlace, Ordered

LEMMA OneQueueIsPlacedNext ==
    OneQueue' <=> Placed(status', op', lockOf', avail', sleepList', semQ', condQ')
BY DEF OneQueue, Placed, QueuesKept, InPlace, Ordered

\* x, and nobody else, has left the queues over S.
Left(x, S, old, new) ==
    \A k \in S : Ordered(new[k]) /\ Range(new[k]) = Range(old[k]) \ {x}

LeftSleep(x, old, new) == NoDup(new) /\ Range(new) = Range(old) \ {x}

(* Whoever leaves every wait queue and enters the ready list is in place    *)
(* once its status says so, and the others still are.                       *)
LEMMA MoveToReady ==
    ASSUME NEW st \in [Proc -> Status], NEW o, NEW lk, NEW av \in Seq(Proc),
           NEW sl, NEW sq, NEW cq, Placed(st, o, lk, av, sl, sq, cq),
           NEW x \in Proc, st[x] # "AVAIL",
           NEW sl2, LeftSleep(x, sl, sl2),
           NEW sq2, Left(x, Semaphore, sq, sq2),
           NEW cq2, Left(x, Cond, cq, cq2)
    PROVE  Placed([st EXCEPT ![x] = "AVAIL"], o, lk, proc_enqueue(av, x),
                  sl2, sq2, cq2)
<1> DEFINE st2 == [st EXCEPT ![x] = "AVAIL"]
           av2 == proc_enqueue(av, x)
<1>1. /\ Ordered(av) /\ x \notin Range(av)
      /\ \A p \in Proc : InPlace(p, st, o, lk, av, sl, sq, cq)
  BY DEF Placed, QueuesKept, InPlace
<1>2. Ordered(av2) /\ Range(av2) = Range(av) \cup {x}
  BY <1>1, EnqueueKeeps, EnqueueProperties
<1>3. st2[x] = "AVAIL" /\ \A p \in Proc \ {x} : st2[p] = st[p]
  OBVIOUS
<1> HIDE DEF st2, av2
<1>4. QueuesKept(av2, sl2, sq2, cq2)
  BY <1>2 DEF QueuesKept, Left, LeftSleep
<1>5. InPlace(x, st2, o, lk, av2, sl2, sq2, cq2)
  BY <1>2, <1>3 DEF InPlace, Left, LeftSleep
<1>6. ASSUME NEW p \in Proc \ {x} PROVE InPlace(p, st2, o, lk, av2, sl2, sq2, cq2)
  <2>1. /\ st2[p] = st[p]
        /\ p \in Range(av2) <=> p \in Range(av)
        /\ p \in Range(sl2) <=> p \in Range(sl)
        /\ \A s \in Semaphore : p \in Range(sq2[s]) <=> p \in Range(sq[s])
        /\ \A c \in Cond : p \in Range(cq2[c]) <=> p \in Range(cq[c])
    BY <1>2, <1>3 DEF Left, LeftSleep
  <2>2. InPlace(p, st, o, lk, av, sl, sq, cq)
    BY <1>1
  <2> QED
    BY <2>1, <2>2 DEF InPlace
<1>7. Placed(st2, o, lk, av2, sl2, sq2, cq2)
  BY <1>4, <1>5, <1>6 DEF Placed
<1> QED
  BY <1>7 DEF st2, av2

\* Everybody but x has kept its row, and its place in the wait queues.
RowsKept(x, st, o, lk, st2, o2, lk2) ==
    \A p \in Proc \ {x} : st2[p] = st[p] /\ o2[p] = o[p] /\ lk2[p] = lk[p]

PlacesKept(x, sl, sq, cq, sl2, sq2, cq2) ==
    \A p \in Proc \ {x} :
        /\ p \in Range(sl2) <=> p \in Range(sl)
        /\ \A s \in Semaphore : p \in Range(sq2[s]) <=> p \in Range(sq[s])
        /\ \A c \in Cond : p \in Range(cq2[c]) <=> p \in Range(cq[c])

(* A step in which one process's row and memberships change, and it is in   *)
(* place after it.                                                          *)
LEMMA MoveOne ==
    ASSUME NEW st, NEW o, NEW lk, NEW av, NEW sl, NEW sq, NEW cq,
           Placed(st, o, lk, av, sl, sq, cq),
           NEW st2, NEW o2, NEW lk2, NEW sl2, NEW sq2, NEW cq2,
           NEW x \in Proc,
           RowsKept(x, st, o, lk, st2, o2, lk2),
           PlacesKept(x, sl, sq, cq, sl2, sq2, cq2),
           QueuesKept(av, sl2, sq2, cq2),
           InPlace(x, st2, o2, lk2, av, sl2, sq2, cq2)
    PROVE  Placed(st2, o2, lk2, av, sl2, sq2, cq2)
<1>1. ASSUME NEW p \in Proc \ {x}
      PROVE  InPlace(p, st2, o2, lk2, av, sl2, sq2, cq2)
  <2>1. InPlace(p, st, o, lk, av, sl, sq, cq)
    BY DEF Placed
  <2> QED
    BY <2>1 DEF InPlace, RowsKept, PlacesKept
<1> QED
  BY <1>1 DEF Placed

(* The process that runs is in no queue at all.                             *)
LEMMA RunnerIsFree ==
    ASSUME NEW st, NEW o, NEW lk, NEW av, NEW sl, NEW sq, NEW cq,
           Placed(st, o, lk, av, sl, sq, cq), NEW x \in Proc, st[x] = "CURR"
    PROVE  /\ x \notin Range(av) /\ x \notin Range(sl)
           /\ \A s \in Semaphore : x \notin Range(sq[s])
           /\ \A c \in Cond : x \notin Range(cq[c])
BY DEF Placed, InPlace
-----------------------------------------------------------------------------
(* The inductive invariant.  OneQueue alone is not inductive: sem_signal    *)
(* hands its unit to whoever proc_dequeue returns, and from an empty queue  *)
(* that would be the null process, so the waiters must be counted; and a    *)
(* process that blocks must be in no queue yet, which the rows of the       *)
(* current and of the null process say.                                     *)

\* Only the current process can have the status CURR.
CurrAlone == \A p \in Proc : status[p] = "CURR" => p = curr

\* The null process never waits.
NullReady == status[NullProc] \in {"AVAIL", "CURR"}

\* Outside sched() the current process runs, or it is the boot thread.
CurrRuns ==
    at # "sched" =>
        \/ status[curr] = "CURR"
        \/ status[curr] = "AVAIL" /\ curr = NullProc

\* Whoever is in wait() came from user code and holds the mutex it passes.
CallerRuns ==
    at \in {"wait_clear", "wait_park"} =>
        /\ curr # NullProc /\ op[curr] = "run"
        /\ call.mutex \in holds[curr] \cup {MutexNone}

Rows == CurrAlone /\ NullReady /\ CurrRuns /\ CallerRuns

QueueInv == TypeOK /\ OneQueue /\ WaitersCounted /\ Rows

(* What sem_signal does: a counted waiter leaves the queue for the ready    *)
(* list, or there was none.                                                 *)
LEMMA PostEffect ==
    ASSUME TypeOK, WaitersCounted, \A t \in Semaphore : Ordered(semQ[t]),
           NEW s \in Semaphore, NEW st, Post(s, st)
    PROVE  /\ count' = [count EXCEPT ![s] = @ + 1]
           /\ \A t \in Semaphore \ {s} : semQ'[t] = semQ[t]
           /\ \A t \in Semaphore : Ordered(semQ'[t])
           /\ WaitersCounted'
           /\ IF count[s] < 0
              THEN \E x \in Range(semQ[s]) :
                     /\ x \in Proc
                     /\ Range(semQ'[s]) = Range(semQ[s]) \ {x}
                     /\ status' = [st EXCEPT ![x] = "AVAIL"]
                     /\ avail' = proc_enqueue(avail, x)
                     /\ needResched' = (needResched \/ Prio[x] > Prio[curr])
              ELSE semQ' = semQ /\ status' = st /\ UNCHANGED <<avail, needResched>>
<1>1. /\ semQ \in [Semaphore -> Seq(Proc)] /\ count \in [Semaphore -> Int]
      /\ count[s] \in Int /\ semQ[s] \in Seq(Proc) /\ Len(semQ[s]) \in Nat
      /\ Ordered(semQ[s])
  BY LenProperties DEF TypeOK
<1>2. /\ count' = [count EXCEPT ![s] = @ + 1] /\ count'[s] = count[s] + 1
      /\ \A t \in Semaphore \ {s} : count'[t] = count[t]
  BY <1>1 DEF Post
<1>3. Len(semQ[s]) = IF count[s] < 0 THEN - count[s] ELSE 0
  BY DEF WaitersCounted
<1>4. CASE count[s] < 0
  <2>1. count[s] + 1 <= 0 /\ Len(semQ[s]) # 0
    BY <1>1, <1>3, <1>4
  <2>2. semQ[s] # <<>>
    BY <2>1, EmptyKeeps
  <2>3. semQ' = [semQ EXCEPT ![s] = Rest(@)] /\ make_avail(Dequeued(semQ[s]), st, avail)
    BY <2>1 DEF Post
  <2> DEFINE x == Head(semQ[s])
  <2>4. /\ Dequeued(semQ[s]) = x /\ x \in Range(semQ[s]) /\ x \in Proc
        /\ Len(Rest(semQ[s])) = Len(semQ[s]) - 1
        /\ Range(Rest(semQ[s])) = Range(semQ[s]) \ {x}
        /\ Ordered(Rest(semQ[s]))
    BY <1>1, <2>2, RestOnce, RestKeeps DEF Ordered
  <2> HIDE DEF x
  <2>5. semQ'[s] = Rest(semQ[s]) /\ \A t \in Semaphore \ {s} : semQ'[t] = semQ[t]
    BY <1>1, <2>3
  <2>6. \A t \in Semaphore : Ordered(semQ'[t])
    BY <2>4, <2>5
  <2>7. Len(semQ'[s]) = IF count'[s] < 0 THEN - count'[s] ELSE 0
    BY <1>1, <1>2, <1>3, <1>4, <2>4, <2>5
  <2>8. WaitersCounted'
    BY <1>2, <2>5, <2>7 DEF WaitersCounted
  <2>9. /\ status' = [st EXCEPT ![x] = "AVAIL"]
        /\ avail' = proc_enqueue(avail, x)
        /\ needResched' = (needResched \/ Prio[x] > Prio[curr])
    BY <2>3, <2>4 DEF make_avail
  <2> QED
    BY <1>2, <1>4, <2>4, <2>5, <2>6, <2>8, <2>9
<1>5. CASE ~(count[s] < 0)
  <2>1. Len(semQ[s]) = 0
    BY <1>3, <1>5
  <2>2. CASE count[s] + 1 <= 0
    BY <1>1, <1>5, <2>2
  <2>3. CASE ~(count[s] + 1 <= 0)
    <3>1. semQ' = semQ /\ status' = st /\ UNCHANGED <<avail, needResched>>
      BY <2>3 DEF Post
    <3>2. Len(semQ'[s]) = IF count'[s] < 0 THEN - count'[s] ELSE 0
      BY <1>1, <1>2, <1>5, <2>1, <3>1
    <3>3. WaitersCounted'
      BY <1>2, <3>1, <3>2 DEF WaitersCounted
    <3> QED
      BY <1>2, <1>5, <3>1, <3>3
  <2> QED
    BY <2>2, <2>3
<1> QED
  BY <1>4, <1>5

(* Whatever a row and a queue looked like when sem_signal was called, in    *)
(* place before is in place after.                                          *)
LEMMA PostPlaced ==
    ASSUME TypeOK, WaitersCounted, NEW s \in Semaphore, NEW st \in [Proc -> Status],
           NEW o, NEW lk, NEW sl, NEW cq,
           Placed(st, o, lk, avail, sl, semQ, cq), Post(s, st)
    PROVE  /\ Placed(status', o, lk, avail', sl, semQ', cq)
           /\ WaitersCounted'
           /\ \A p \in Proc : \/ status'[p] = st[p]
                              \/ st[p] = "SEM_WAIT" /\ status'[p] = "AVAIL"
<1>1. \A t \in Semaphore : Ordered(semQ[t])
  BY DEF Placed, QueuesKept
<1>2. WaitersCounted'
  BY <1>1, PostEffect
<1>3. CASE count[s] < 0
  <2>1. PICK x \in Range(semQ[s]) :
             /\ x \in Proc
             /\ Range(semQ'[s]) = Range(semQ[s]) \ {x}
             /\ status' = [st EXCEPT ![x] = "AVAIL"]
             /\ avail' = proc_enqueue(avail, x)
    BY <1>1, <1>3, PostEffect
  <2>2. /\ \A t \in Semaphore \ {s} : semQ'[t] = semQ[t]
        /\ \A t \in Semaphore : Ordered(semQ'[t])
    BY <1>1, PostEffect
  <2>3. InPlace(x, st, o, lk, avail, sl, semQ, cq) /\ NoDup(sl)
        /\ \A c \in Cond : Ordered(cq[c])
    BY <2>1 DEF Placed, QueuesKept
  <2>4. /\ st[x] = "SEM_WAIT" /\ lk[x] = s
        /\ x \notin Range(sl)
        /\ \A c \in Cond : x \notin Range(cq[c])
        /\ \A t \in Semaphore \ {s} : x \notin Range(semQ[t])
    BY <2>1, <2>3 DEF InPlace
  <2>5. Left(x, Semaphore, semQ, semQ')
    BY <2>1, <2>2, <2>4 DEF Left
  <2>6. Left(x, Cond, cq, cq)
    BY <2>3, <2>4 DEF Left
  <2>7. LeftSleep(x, sl, sl) /\ st[x] # "AVAIL"
    BY <2>3, <2>4 DEF LeftSleep
  <2>8. avail \in Seq(Proc)
    BY DEF TypeOK
  <2>9. Placed([st EXCEPT ![x] = "AVAIL"], o, lk, proc_enqueue(avail, x),
               sl, semQ', cq)
    <3>1. x \in Proc
      BY <2>1
    <3> QED
      BY <2>5, <2>6, <2>7, <2>8, <3>1, MoveToReady
  <2>10. Placed(status', o, lk, avail', sl, semQ', cq)
    BY <2>1, <2>9
  <2> QED
    BY <1>2, <2>1, <2>4, <2>10
<1>4. CASE ~(count[s] < 0)
  BY <1>1, <1>2, <1>4, PostEffect
<1> QED
  BY <1>3, <1>4

LEMMA UnlockPlaced ==
    ASSUME TypeOK, WaitersCounted, NEW s \in Semaphore, NEW st \in [Proc -> Status],
           NEW o, NEW lk, NEW sl, NEW cq,
           Placed(st, o, lk, avail, sl, semQ, cq), Unlock(s, st)
    PROVE  /\ Placed(status', o, lk, avail', sl, semQ', cq)
           /\ WaitersCounted'
           /\ \A p \in Proc : \/ status'[p] = st[p]
                              \/ st[p] = "SEM_WAIT" /\ status'[p] = "AVAIL"
<1>1. CASE count[s] < 1
  BY <1>1, PostPlaced DEF Unlock
<1>2. CASE ~(count[s] < 1)
  BY <1>2 DEF Unlock, sync, WaitersCounted
<1> QED
  BY <1>1, <1>2
(* Waking the first waiter of a condition takes it off the condition and,   *)
(* if its wait is timed, off the sleep list.                                *)
LEMMA WakeEffect ==
    ASSUME TypeOK, OneQueue, NEW c \in Cond, condQ[c] # <<>>,
           NEW x, x = Head(condQ[c]), wake(x),
           condQ' = [condQ EXCEPT ![c] = Rest(@)]
    PROVE  /\ x \in Proc /\ x \in Range(condQ[c])
           /\ status[x] \in {"COND_WAIT", "TIMED_WAIT"}
           /\ status' = [status EXCEPT ![x] = "AVAIL"]
           /\ avail' = proc_enqueue(avail, x)
           /\ needResched' = (needResched \/ Prio[x] > Prio[curr])
           /\ Left(x, Cond, condQ, condQ')
           /\ LeftSleep(x, sleepList, sleepList')
           /\ sleepList' = proc_remove(sleepList, x)
           /\ wakeAt' = [wakeAt EXCEPT ![x] = 0] \/ wakeAt' = wakeAt
<1>1. /\ condQ \in [Cond -> Seq(Proc)] /\ condQ[c] \in Seq(Proc)
      /\ sleepList \in Seq(Proc) /\ NoDup(sleepList)
      /\ \A e \in Cond : Ordered(condQ[e])
  BY DEF TypeOK, OneQueue, Ordered
<1>2. /\ x \in Proc /\ x \in Range(condQ[c])
      /\ Range(Rest(condQ[c])) = Range(condQ[c]) \ {x}
      /\ Ordered(Rest(condQ[c]))
  BY <1>1, RestOnce, RestKeeps DEF Ordered
<1>3. InPlace(x, status, op, lockOf, avail, sleepList, semQ, condQ)
  BY <1>2, OneQueueIsPlaced DEF Placed
<1>4. /\ status[x] \in {"COND_WAIT", "TIMED_WAIT"}
      /\ \A e \in Cond \ {c} : x \notin Range(condQ[e])
      /\ x \in Range(sleepList) <=> status[x] = "TIMED_WAIT"
  BY <1>2, <1>3 DEF InPlace
<1>5. make_avail(x, status, avail)
  BY DEF wake
<1>6. condQ'[c] = Rest(condQ[c]) /\ \A e \in Cond \ {c} : condQ'[e] = condQ[e]
  BY <1>1
<1>7. Left(x, Cond, condQ, condQ')
  BY <1>1, <1>2, <1>4, <1>6 DEF Left
<1>8. /\ NoDup(proc_remove(sleepList, x))
      /\ Range(proc_remove(sleepList, x)) = Range(sleepList) \ {x}
      /\ x \notin Range(sleepList) => proc_remove(sleepList, x) = sleepList
  BY <1>1, RemoveOnce
<1>9. /\ sleepList' = proc_remove(sleepList, x)
      /\ wakeAt' = [wakeAt EXCEPT ![x] = 0] \/ wakeAt' = wakeAt
  <2>1. CASE status[x] = "TIMED_WAIT"
    BY <2>1 DEF wake, sleep_remove
  <2>2. CASE status[x] # "TIMED_WAIT"
    BY <1>4, <1>8, <2>2 DEF wake
  <2> QED
    BY <2>1, <2>2
<1> QED
  BY <1>2, <1>4, <1>5, <1>7, <1>8, <1>9 DEF make_avail, LeftSleep

(* The tick takes the process it wakes off the sleep list and off the       *)
(* condition it waits on; it is on no semaphore and not on the ready list.  *)
LEMMA TimeoutEffect ==
    ASSUME TypeOK, OneQueue, SleepClock, sleepList # <<>>, Due(Head(sleepList)),
           NEW x, x = Head(sleepList)
    PROVE  /\ x \in Proc /\ x \in Range(sleepList)
           /\ status[x] = "TIMED_WAIT"
           /\ status' = [status EXCEPT ![x] = "AVAIL"]
           /\ avail' = proc_enqueue(avail, x)
           /\ needResched' = (needResched \/ Prio[x] > Prio[curr])
           /\ Left(x, Cond, condQ, condQ')
           /\ LeftSleep(x, sleepList, sleepList')
           /\ sleepList' = Rest(sleepList)
           /\ wakeAt' = [wakeAt EXCEPT ![x] = 0]
           /\ \A s \in Semaphore : semQ'[s] = semQ[s]
           /\ timedOut' = [timedOut EXCEPT ![x] = TRUE]
           /\ UNCHANGED <<curr, count, tickCount, at, call, op, lockOf, holds>>
<1>1. /\ sleepList \in Seq(Proc) /\ NoDup(sleepList) /\ avail \in Seq(Proc)
      /\ \A e \in Cond : condQ[e] \in Seq(Proc) /\ Ordered(condQ[e])
      /\ \A s \in Semaphore : semQ[s] \in Seq(Proc) /\ Ordered(semQ[s])
  BY DEF TypeOK, OneQueue, Ordered
<1>2. /\ x \in Proc /\ x \in Range(sleepList) /\ Rest(sleepList) = Tail(sleepList)
      /\ LeftSleep(x, sleepList, Rest(sleepList))
  BY <1>1, RestOnce DEF LeftSleep, Rest
<1>3. InPlace(x, status, op, lockOf, avail, sleepList, semQ, condQ)
  BY <1>2, OneQueueIsPlaced DEF Placed
<1>4. /\ status[x] = "TIMED_WAIT" /\ x \notin Range(avail)
      /\ \A s \in Semaphore : x \notin Range(semQ[s])
  BY <1>2, <1>3 DEF InPlace
<1>5. /\ sleepList' = Tail(sleepList)
      /\ wakeAt' = [wakeAt EXCEPT ![x] = 0]
      /\ condQ' = [e \in Cond |-> proc_remove(condQ[e], x)]
      /\ semQ' = [s \in Semaphore |-> proc_remove(semQ[s], x)]
      /\ timedOut' = [timedOut EXCEPT ![x] = TRUE]
      /\ make_avail(x, status, proc_remove(avail, x))
      /\ UNCHANGED <<curr, count, tickCount, at, call, op, lockOf, holds>>
  BY DEF SleepClock, client
<1>6. \A e \in Cond : /\ Ordered(proc_remove(condQ[e], x))
                      /\ Range(proc_remove(condQ[e], x)) = Range(condQ[e]) \ {x}
  BY <1>1, RemoveOnce, RemoveKeeps DEF Ordered
<1>7. \A s \in Semaphore : proc_remove(semQ[s], x) = semQ[s]
  BY <1>4 DEF proc_remove
<1>8. proc_remove(avail, x) = avail
  BY <1>4 DEF proc_remove
<1>9. Left(x, Cond, condQ, condQ')
  BY <1>5, <1>6 DEF Left
<1> QED
  BY <1>2, <1>4, <1>5, <1>7, <1>8, <1>9 DEF make_avail

(* Whoever a wake or a timeout makes ready keeps the queues and the rows.   *)
LEMMA ReadyStep ==
    ASSUME TypeOK, OneQueue, CurrAlone, NullReady, CurrRuns, at # "sched",
           NEW x \in Proc, status[x] \in {"COND_WAIT", "TIMED_WAIT"},
           status' = [status EXCEPT ![x] = "AVAIL"],
           avail' = proc_enqueue(avail, x),
           Left(x, Cond, condQ, condQ'), LeftSleep(x, sleepList, sleepList'),
           \A s \in Semaphore : semQ'[s] = semQ[s],
           UNCHANGED <<curr, op, lockOf>>
    PROVE  /\ OneQueue' /\ CurrAlone' /\ NullReady' /\ CurrRuns'
           /\ x # curr /\ x # NullProc /\ status'[curr] = status[curr]
<1>1. Placed(status, op, lockOf, avail, sleepList, semQ, condQ)
  BY OneQueueIsPlaced
<1>2. /\ status \in [Proc -> Status] /\ avail \in Seq(Proc)
      /\ curr \in Proc /\ NullProc \in Proc
  BY ProcAssumption DEF TypeOK
<1>3. Left(x, Semaphore, semQ, semQ')
  <2>1. \A s \in Semaphore : x \notin Range(semQ[s]) /\ Ordered(semQ[s])
    BY <1>1 DEF Placed, InPlace, QueuesKept
  <2> QED
    BY <2>1 DEF Left
<1>4. status[x] # "AVAIL"
  OBVIOUS
<1>5. Placed([status EXCEPT ![x] = "AVAIL"], op, lockOf, proc_enqueue(avail, x),
             sleepList', semQ', condQ')
  BY <1>1, <1>2, <1>3, <1>4, MoveToReady
<1>6. OneQueue'
  BY <1>5, OneQueueIsPlacedNext
<1>7. x # curr /\ x # NullProc
  BY DEF CurrRuns, NullReady
<1> QED
  BY <1>2, <1>6, <1>7 DEF CurrAlone, NullReady, CurrRuns

(* A step that touches no queue and no row but the current process's op     *)
(* and lockOf, while it runs.                                               *)
LEMMA RunStep ==
    ASSUME TypeOK, OneQueue, CurrAlone, NullReady, CurrRuns,
           at # "sched", curr # NullProc,
           \A p \in Proc \ {curr} : op'[p] = op[p] /\ lockOf'[p] = lockOf[p],
           UNCHANGED <<status, avail, sleepList, semQ, condQ, curr>>
    PROVE  OneQueue' /\ CurrAlone' /\ NullReady' /\ CurrRuns'
<1>1. curr \in Proc /\ status[curr] = "CURR"
  BY DEF TypeOK, CurrRuns
<1>2. Placed(status, op, lockOf, avail, sleepList, semQ, condQ)
  BY OneQueueIsPlaced
<1>3. QueuesKept(avail, sleepList, semQ, condQ)
  BY <1>2 DEF Placed
<1>4. InPlace(curr, status, op', lockOf', avail, sleepList, semQ, condQ)
  BY <1>1, <1>2, RunnerIsFree DEF InPlace
<1>5. \A p \in Proc \ {curr} :
         InPlace(p, status, op', lockOf', avail, sleepList, semQ, condQ)
  BY <1>2 DEF Placed, InPlace
<1>6. Placed(status', op', lockOf', avail', sleepList', semQ', condQ')
  BY <1>1, <1>3, <1>4, <1>5 DEF Placed
<1> QED
  BY <1>6, OneQueueIsPlacedNext DEF CurrAlone, NullReady, CurrRuns
(* sem_wait puts the process that runs on the semaphore's queue.            *)
LEMMA BlockStep ==
    ASSUME TypeOK, OneQueue, status[curr] = "CURR", NEW s \in Semaphore,
           status' = [status EXCEPT ![curr] = "SEM_WAIT"],
           semQ' = [semQ EXCEPT ![s] = proc_enqueue(@, curr)],
           op' = [op EXCEPT ![curr] = "sem_wait"],
           lockOf' = [lockOf EXCEPT ![curr] = s],
           UNCHANGED <<avail, sleepList, condQ>>
    PROVE  OneQueue' /\ Len(semQ'[s]) = Len(semQ[s]) + 1
<1>1. /\ curr \in Proc /\ semQ[s] \in Seq(Proc)
      /\ semQ'[s] = proc_enqueue(semQ[s], curr)
      /\ \A t \in Semaphore \ {s} : semQ'[t] = semQ[t]
  BY DEF TypeOK
<1>2. /\ status'[curr] = "SEM_WAIT" /\ op'[curr] = "sem_wait" /\ lockOf'[curr] = s
      /\ \A p \in Proc \ {curr} : /\ status'[p] = status[p] /\ op'[p] = op[p]
                                  /\ lockOf'[p] = lockOf[p]
  BY DEF TypeOK
<1>3. Placed(status, op, lockOf, avail, sleepList, semQ, condQ)
  BY OneQueueIsPlaced
<1>4. /\ curr \notin Range(avail) /\ curr \notin Range(sleepList)
      /\ \A t \in Semaphore : curr \notin Range(semQ[t])
      /\ \A c \in Cond : curr \notin Range(condQ[c])
  BY <1>1, <1>3, RunnerIsFree
<1>5. QueuesKept(avail, sleepList, semQ, condQ)
  BY <1>3 DEF Placed
<1>6. /\ Ordered(semQ'[s]) /\ Len(semQ'[s]) = Len(semQ[s]) + 1
      /\ Range(semQ'[s]) = Range(semQ[s]) \cup {curr}
  BY <1>1, <1>4, <1>5, EnqueueKeeps, EnqueueProperties DEF QueuesKept
<1>7. QueuesKept(avail, sleepList, semQ', condQ)
  BY <1>1, <1>5, <1>6 DEF QueuesKept
<1>8. InPlace(curr, status', op', lockOf', avail, sleepList, semQ', condQ)
  BY <1>1, <1>2, <1>4, <1>6 DEF InPlace
<1>9. PlacesKept(curr, sleepList, semQ, condQ, sleepList, semQ', condQ)
  BY <1>1, <1>6 DEF PlacesKept
<1>10. RowsKept(curr, status, op, lockOf, status', op', lockOf')
  BY <1>2 DEF RowsKept
<1>11. Placed(status', op', lockOf', avail, sleepList, semQ', condQ)
  BY <1>1, <1>3, <1>7, <1>8, <1>9, <1>10, MoveOne
<1> QED
  BY <1>6, <1>11, OneQueueIsPlacedNext

(* sleep() and a timed wait put the process that runs on the sleep list.    *)
LEMMA SleepEnqueueEffect ==
    ASSUME TypeOK, OneQueue, status[curr] = "CURR", NEW d, sleep_enqueue(curr, d)
    PROVE  NoDup(sleepList') /\ Range(sleepList') = Range(sleepList) \cup {curr}
<1>1. curr \in Proc /\ sleepList \in Seq(Proc) /\ NoDup(sleepList)
  BY DEF TypeOK, OneQueue
<1>2. curr \notin Range(sleepList)
  BY <1>1 DEF OneQueue
<1> DEFINE w == (tickCount + d) % Wrap
           ahead == {x \in Proc : SignedDiff(wakeAt[x], w) <= 0}
<1>3. sleepList' = InsertBehind(sleepList, curr, ahead)
  BY DEF sleep_enqueue
<1> HIDE DEF ahead
<1> QED
  BY <1>1, <1>2, <1>3, InsertBehindProperties, InsertBehindOnce

LEMMA SleepStep ==
    ASSUME TypeOK, OneQueue, status[curr] = "CURR", NEW d, sleep_enqueue(curr, d),
           status' = [status EXCEPT ![curr] = "TIMED_WAIT"],
           op' = [op EXCEPT ![curr] = "sleep"],
           UNCHANGED <<avail, semQ, condQ, lockOf>>
    PROVE  OneQueue'
<1>1. /\ curr \in Proc /\ status'[curr] = "TIMED_WAIT"
      /\ \A p \in Proc \ {curr} : status'[p] = status[p] /\ op'[p] = op[p]
  BY DEF TypeOK
<1>2. Placed(status, op, lockOf, avail, sleepList, semQ, condQ)
  BY OneQueueIsPlaced
<1>3. /\ curr \notin Range(avail) /\ curr \notin Range(sleepList)
      /\ \A t \in Semaphore : curr \notin Range(semQ[t])
      /\ \A c \in Cond : curr \notin Range(condQ[c])
  BY <1>1, <1>2, RunnerIsFree
<1>4. NoDup(sleepList') /\ Range(sleepList') = Range(sleepList) \cup {curr}
  BY SleepEnqueueEffect
<1>5. QueuesKept(avail, sleepList', semQ, condQ)
  BY <1>2, <1>4 DEF Placed, QueuesKept
<1>6. InPlace(curr, status', op', lockOf, avail, sleepList', semQ, condQ)
  BY <1>1, <1>3, <1>4 DEF InPlace
<1>7. PlacesKept(curr, sleepList, semQ, condQ, sleepList', semQ, condQ)
  BY <1>4 DEF PlacesKept
<1>8. RowsKept(curr, status, op, lockOf, status', op', lockOf)
  BY <1>1 DEF RowsKept
<1>9. Placed(status', op', lockOf, avail, sleepList', semQ, condQ)
  BY <1>1, <1>2, <1>5, <1>6, <1>7, <1>8, MoveOne
<1> QED
  BY <1>9, OneQueueIsPlacedNext

(* wait() parks the process that runs on its condition, before it unlocks.  *)
LEMMA ParkStep ==
    ASSUME TypeOK, OneQueue, status[curr] = "CURR", NEW c \in Cond, NEW timed \in BOOLEAN,
           NEW st, st = [status EXCEPT ![curr] =
                            IF timed THEN "TIMED_WAIT" ELSE "COND_WAIT"],
           condQ' = [condQ EXCEPT ![c] = proc_enqueue(@, curr)],
           op' = [op EXCEPT ![curr] = "cond_wait"],
           NEW m, lockOf' = [lockOf EXCEPT ![curr] = m],
           NoDup(sleepList'),
           Range(sleepList') = Range(sleepList) \cup (IF timed THEN {curr} ELSE {})
    PROVE  Placed(st, op', lockOf', avail, sleepList', semQ, condQ')
<1>1. /\ curr \in Proc /\ condQ[c] \in Seq(Proc)
      /\ condQ'[c] = proc_enqueue(condQ[c], curr)
      /\ \A e \in Cond \ {c} : condQ'[e] = condQ[e]
  BY DEF TypeOK
<1>2. /\ st[curr] = IF timed THEN "TIMED_WAIT" ELSE "COND_WAIT"
      /\ op'[curr] = "cond_wait"
      /\ \A p \in Proc \ {curr} : /\ st[p] = status[p] /\ op'[p] = op[p]
                                  /\ lockOf'[p] = lockOf[p]
  BY DEF TypeOK
<1>3. Placed(status, op, lockOf, avail, sleepList, semQ, condQ)
  BY OneQueueIsPlaced
<1>4. /\ curr \notin Range(avail) /\ curr \notin Range(sleepList)
      /\ \A t \in Semaphore : curr \notin Range(semQ[t])
      /\ \A e \in Cond : curr \notin Range(condQ[e])
  BY <1>1, <1>3, RunnerIsFree
<1>5. QueuesKept(avail, sleepList, semQ, condQ)
  BY <1>3 DEF Placed
<1>6. /\ Ordered(condQ'[c])
      /\ Range(condQ'[c]) = Range(condQ[c]) \cup {curr}
  BY <1>1, <1>4, <1>5, EnqueueKeeps, EnqueueProperties DEF QueuesKept
<1>7. QueuesKept(avail, sleepList', semQ, condQ')
  BY <1>1, <1>5, <1>6 DEF QueuesKept
<1>8. InPlace(curr, st, op', lockOf', avail, sleepList', semQ, condQ')
  BY <1>1, <1>2, <1>4, <1>6 DEF InPlace
<1>9. PlacesKept(curr, sleepList, semQ, condQ, sleepList', semQ, condQ')
  BY <1>1, <1>6 DEF PlacesKept
<1>10. RowsKept(curr, status, op, lockOf, st, op', lockOf')
  BY <1>2 DEF RowsKept
<1> QED
  BY <1>1, <1>3, <1>7, <1>8, <1>9, <1>10, MoveOne

(* sched() takes the first of the ready list, where the null process stands *)
(* when nobody else does; the process it takes ranks with the highest.      *)
LEMMA SchedEffect ==
    ASSUME TypeOK, OneQueue, CurrAlone, NullReady, Sched
    PROVE  /\ OneQueue' /\ CurrAlone' /\ NullReady'
           /\ status'[curr'] = "CURR"
           /\ \A p \in Proc : status'[p] = "AVAIL" => Prio[p] <= Prio[curr']
<1> DEFINE stays == status[curr] = "CURR"
           ready == IF stays THEN proc_enqueue(avail, curr) ELSE avail
           next == Dequeued(ready)
<1>1. Placed(status, op, lockOf, avail, sleepList, semQ, condQ)
  BY OneQueueIsPlaced
<1>2. /\ Ordered(avail) /\ avail \in Seq(Proc) /\ curr \in Proc
      /\ NullProc \in Proc
      /\ \A p \in Proc : p \in Range(avail) <=> status[p] = "AVAIL"
  BY <1>1, ProcAssumption DEF Placed, QueuesKept, InPlace, TypeOK
<1>3. /\ Ordered(ready) /\ ready \in Seq(Proc)
      /\ \A p \in Proc : p \in Range(ready) <=>
                             status[p] = "AVAIL" \/ (p = curr /\ stays)
  <2>1. CASE stays
    <3>1. curr \notin Range(avail)
      BY <1>2, <2>1
    <3>2. /\ Ordered(proc_enqueue(avail, curr))
          /\ proc_enqueue(avail, curr) \in Seq(Proc)
          /\ Range(proc_enqueue(avail, curr)) = Range(avail) \cup {curr}
      BY <1>2, <3>1, EnqueueKeeps, EnqueueProperties
    <3> QED
      BY <1>2, <2>1, <3>2
  <2>2. CASE ~stays
    BY <1>2, <2>2
  <2> QED
    BY <2>1, <2>2
<1>4. NullProc \in Range(ready)
  BY <1>2, <1>3 DEF NullReady, CurrAlone
<1>5. /\ status' = [p \in Proc |-> IF p = next THEN "CURR"
                                   ELSE IF p = curr /\ stays THEN "AVAIL"
                                   ELSE status[p]]
      /\ avail' = Rest(ready) /\ curr' = next
      /\ UNCHANGED <<op, lockOf, sleepList, semQ, condQ>>
  BY DEF Sched, client, time, sync, conds
<1> HIDE DEF ready
<1>6. ready # <<>>
  BY <1>4, EmptyKeeps
<1>7. /\ next \in Proc /\ next \in Range(ready)
      /\ next = Head(ready)
      /\ Ordered(avail') /\ Range(avail') = Range(ready) \ {next}
      /\ \A p \in Range(avail') : Prio[p] <= Prio[next]
  BY <1>3, <1>5, <1>6, RestOnce, RestKeeps DEF Ordered
<1> HIDE DEF next
<1>8. QueuesKept(avail', sleepList', semQ', condQ')
  BY <1>1, <1>5, <1>7 DEF Placed, QueuesKept
<1>9. ASSUME NEW p \in Proc
      PROVE  InPlace(p, status', op', lockOf', avail', sleepList', semQ', condQ')
  <2>1. InPlace(p, status, op, lockOf, avail, sleepList, semQ, condQ)
    BY <1>1 DEF Placed
  <2>2. p \in Range(avail') <=> status'[p] = "AVAIL"
    BY <1>3, <1>5, <1>7
  <2>3. CASE p = next \/ (p = curr /\ stays)
    <3>1. status[p] \in {"AVAIL", "CURR"} /\ status'[p] \in {"AVAIL", "CURR"}
      BY <1>3, <1>5, <1>7, <2>3
    <3> QED
      BY <1>5, <2>1, <2>2, <3>1 DEF InPlace
  <2>4. CASE ~(p = next \/ (p = curr /\ stays))
    <3>1. status'[p] = status[p]
      BY <1>5, <2>4
    <3> QED
      BY <1>5, <2>1, <2>2, <3>1 DEF InPlace
  <2> QED
    BY <2>3, <2>4
<1>10. OneQueue'
  BY <1>8, <1>9, OneQueueIsPlacedNext DEF Placed
<1>11. CurrAlone' /\ status'[curr'] = "CURR"
  BY <1>5, <1>7 DEF CurrAlone
<1>12. NullReady'
  BY <1>2, <1>5 DEF NullReady
<1>13. \A p \in Proc : status'[p] = "AVAIL" => Prio[p] <= Prio[curr']
  <2>1. \A p \in Proc : status'[p] = "AVAIL" => p \in Range(avail')
    BY <1>9 DEF InPlace
  <2> QED
    BY <1>5, <1>7, <2>1
<1> QED
  BY <1>10, <1>11, <1>12, <1>13
LEMMA InitQueues == Init => QueueInv
<1> SUFFICES ASSUME Init PROVE QueueInv
  OBVIOUS
<1>1. TypeOK
  BY InitType
<1> DEFINE n == Cardinality(Proc)
<1>2. /\ avail \in [1 .. n -> Proc] /\ n \in Nat
      /\ \A i, j \in 1 .. n : i < j => /\ avail[i] # avail[j]
                                       /\ Prio[avail[i]] >= Prio[avail[j]]
  <2>1. n \in Nat
    BY ProcAssumption, FS_CardinalityType
  <2> QED
    BY <2>1 DEF Init, BootReady
<1>3. /\ status = [p \in Proc |-> "AVAIL"] /\ curr = NullProc /\ at = "user"
      /\ count = [s \in Semaphore |-> IF s \in Mutex THEN 1 ELSE 0]
      /\ semQ = [s \in Semaphore |-> <<>>]
      /\ condQ = [c \in Cond |-> <<>>]
      /\ sleepList = <<>>
  BY DEF Init
<1>4. Ordered(avail)
  <2>1. \A i, j \in 1 .. n : i # j => i < j \/ j < i
    BY <1>2
  <2> QED
    BY <1>2, <2>1 DEF Ordered, NoDup, Sorted
<1>5. Range(avail) = Proc
  <2>1. avail \in Injection(1 .. n, Proc)
    <3>1. \A i, j \in 1 .. n : avail[i] = avail[j] => i = j
      BY <1>2
    <3> QED
      BY <1>2, <3>1 DEF Injection, IsInjective
  <2>2. IsFiniteSet(1 .. n) /\ Cardinality(1 .. n) = n
    BY <1>2, FS_Interval
  <2>3. avail \in Surjection(1 .. n, Proc)
    BY <2>1, <2>2, ProcAssumption, FS_Injection
  <2> QED
    BY <1>2, <2>3 DEF Surjection, Range
<1>6. OneQueue
  <2>1. QueuesKept(avail, sleepList, semQ, condQ)
    BY <1>3, <1>4, EmptyKeeps DEF QueuesKept, Ordered
  <2>2. \A p \in Proc : InPlace(p, status, op, lockOf, avail, sleepList, semQ, condQ)
    BY <1>3, <1>5, EmptyKeeps DEF InPlace
  <2> QED
    BY <2>1, <2>2, OneQueueIsPlaced DEF Placed
<1>7. WaitersCounted
  BY <1>3, EmptyKeeps DEF WaitersCounted
<1>8. Rows
  BY <1>3, ProcAssumption DEF Rows, CurrAlone, NullReady, CurrRuns, CallerRuns
<1> QED
  BY <1>1, <1>6, <1>7, <1>8 DEF QueueInv

(* Every action keeps the queues, the counts and the rows.                  *)
LEMMA NextQueues == QueueInv /\ [Next]_vars => QueueInv'
<1> SUFFICES ASSUME QueueInv, [Next]_vars PROVE QueueInv'
  OBVIOUS
<1> USE DEF sched_, sync, conds, time, client
<1>0. /\ TypeOK /\ OneQueue /\ WaitersCounted
      /\ CurrAlone /\ NullReady /\ CurrRuns /\ CallerRuns
  BY DEF QueueInv, Rows
<1>a. TypeOK'
  BY <1>0, NextType
<1> SUFFICES /\ OneQueue' /\ WaitersCounted'
             /\ CurrAlone' /\ NullReady' /\ CurrRuns' /\ CallerRuns'
  BY <1>a DEF QueueInv, Rows
<1> HIDE DEF QueueInv
<1>b. /\ status \in [Proc -> Status] /\ curr \in Proc /\ NullProc \in Proc
      /\ Placed(status, op, lockOf, avail, sleepList, semQ, condQ)
  BY <1>0, OneQueueIsPlaced, ProcAssumption DEF TypeOK
<1>c. at = "user" /\ curr # NullProc => status[curr] = "CURR"
  BY <1>0 DEF CurrRuns
<1>1. ASSUME NEW s \in Semaphore, SemWait(s)
      PROVE  /\ OneQueue' /\ WaitersCounted'
             /\ CurrAlone' /\ NullReady' /\ CurrRuns' /\ CallerRuns'
  <2>1. /\ at = "user" /\ curr # NullProc /\ count' = [count EXCEPT ![s] = @ - 1]
        /\ UNCHANGED <<avail, sleepList, condQ, curr>>
    BY <1>1 DEF SemWait, Running
  <2>2. /\ count[s] \in Int /\ count'[s] = count[s] - 1
        /\ \A t \in Semaphore \ {s} : count'[t] = count[t]
        /\ Len(semQ[s]) = IF count[s] < 0 THEN - count[s] ELSE 0
    BY <1>0, <2>1 DEF TypeOK, WaitersCounted
  <2>3. CASE count[s] - 1 < 0
    <3>1. /\ status' = [status EXCEPT ![curr] = "SEM_WAIT"]
          /\ semQ' = [semQ EXCEPT ![s] = proc_enqueue(@, curr)]
          /\ op' = [op EXCEPT ![curr] = "sem_wait"]
          /\ lockOf' = [lockOf EXCEPT ![curr] = s]
          /\ at' = "sched"
      BY <1>1, <2>3 DEF SemWait
    <3>2. OneQueue' /\ Len(semQ'[s]) = Len(semQ[s]) + 1
      BY <1>0, <1>c, <2>1, <3>1, BlockStep
    <3>3. \A t \in Semaphore \ {s} : semQ'[t] = semQ[t]
      BY <1>0, <3>1 DEF TypeOK
    <3>4. Len(semQ'[s]) = IF count'[s] < 0 THEN - count'[s] ELSE 0
      BY <2>2, <2>3, <3>2
    <3>5. WaitersCounted'
      BY <1>0, <2>2, <3>3, <3>4 DEF WaitersCounted
    <3>6. CurrAlone' /\ NullReady'
      BY <1>0, <1>b, <2>1, <3>1 DEF CurrAlone, NullReady
    <3> QED
      BY <3>1, <3>2, <3>5, <3>6 DEF CurrRuns, CallerRuns
  <2>4. CASE ~(count[s] - 1 < 0)
    <3>1. /\ UNCHANGED <<status, semQ, at>>
          /\ op' = [op EXCEPT ![curr] = "run"]
          /\ lockOf' = [lockOf EXCEPT ![curr] = MutexNone]
      BY <1>1, <2>4 DEF SemWait
    <3>2. \A p \in Proc \ {curr} : op'[p] = op[p] /\ lockOf'[p] = lockOf[p]
      BY <1>0, <3>1 DEF TypeOK
    <3>3. OneQueue' /\ CurrAlone' /\ NullReady' /\ CurrRuns'
      BY <1>0, <2>1, <3>1, <3>2, RunStep
    <3>4. Len(semQ'[s]) = IF count'[s] < 0 THEN - count'[s] ELSE 0
      BY <2>2, <2>4, <3>1
    <3>5. WaitersCounted'
      BY <1>0, <2>2, <3>1, <3>4 DEF WaitersCounted
    <3> QED
      BY <2>1, <3>1, <3>3, <3>5 DEF CallerRuns
  <2> QED
    BY <2>3, <2>4
<1>2. CASE SemWaitReturn \/ WaitReturn \/ SleepReturn
  <2>1. /\ at = "user" /\ at' = "user" /\ curr # NullProc
        /\ UNCHANGED <<status, avail, sleepList, count, semQ, condQ, curr>>
    BY <1>2 DEF SemWaitReturn, WaitReturn, SleepReturn, Running
  <2>2. \A p \in Proc \ {curr} : op'[p] = op[p] /\ lockOf'[p] = lockOf[p]
    BY <1>0, <1>2 DEF SemWaitReturn, WaitReturn, SleepReturn, TypeOK
  <2>3. OneQueue' /\ CurrAlone' /\ NullReady' /\ CurrRuns'
    BY <1>0, <2>1, <2>2, RunStep
  <2> QED
    BY <1>0, <2>1, <2>3 DEF WaitersCounted, CallerRuns
<1>d. ASSUME NEW s \in Semaphore, Post(s, status) \/ Unlock(s, status),
             at = "user", at' \in {"user", "sched"},
             UNCHANGED <<curr, condQ, sleepList, op, lockOf>>
      PROVE  /\ OneQueue' /\ WaitersCounted'
             /\ CurrAlone' /\ NullReady' /\ CurrRuns' /\ CallerRuns'
  <2>1. /\ Placed(status', op, lockOf, avail', sleepList, semQ', condQ)
        /\ WaitersCounted'
        /\ \A p \in Proc : \/ status'[p] = status[p]
                           \/ status[p] = "SEM_WAIT" /\ status'[p] = "AVAIL"
    <3>1. CASE Post(s, status)
      BY <1>0, <1>b, <3>1, PostPlaced
    <3>2. CASE Unlock(s, status)
      BY <1>0, <1>b, <3>2, UnlockPlaced
    <3> QED
      BY <1>d, <3>1, <3>2
  <2>2. OneQueue'
    BY <1>d, <2>1, OneQueueIsPlacedNext
  <2>3. CurrAlone' /\ NullReady'
    BY <1>0, <1>b, <1>d, <2>1 DEF CurrAlone, NullReady
  <2>4. CurrRuns' /\ CallerRuns'
    BY <1>0, <1>b, <1>d, <2>1 DEF CurrRuns, CallerRuns
  <2> QED
    BY <2>1, <2>2, <2>3, <2>4
<1>3. ASSUME NEW s \in Counting, SemSignal(s)
      PROVE  /\ OneQueue' /\ WaitersCounted'
             /\ CurrAlone' /\ NullReady' /\ CurrRuns' /\ CallerRuns'
  <2>1. s \in Semaphore /\ Post(s, status) /\ at = "user" /\ at' \in {"user", "sched"}
        /\ UNCHANGED <<curr, condQ, sleepList, op, lockOf>>
    BY <1>3 DEF SemSignal, Running, ReschedOrReturn, Semaphore
  <2> QED
    BY <1>d, <2>1
<1>4. ASSUME NEW m \in Mutex, MutexUnlock(m)
      PROVE  /\ OneQueue' /\ WaitersCounted'
             /\ CurrAlone' /\ NullReady' /\ CurrRuns' /\ CallerRuns'
  <2>1. m \in Semaphore /\ Unlock(m, status) /\ at = "user" /\ at' \in {"user", "sched"}
        /\ UNCHANGED <<curr, condQ, sleepList, op, lockOf>>
    BY <1>4 DEF MutexUnlock, Running, ReschedOrReturn, Semaphore
  <2> QED
    BY <1>d, <2>1
<1>e. ASSUME UNCHANGED <<status, curr, avail, sleepList, count, semQ, condQ, op, lockOf>>,
             at' # "sched" => at # "sched"
      PROVE  /\ OneQueue' /\ WaitersCounted'
             /\ CurrAlone' /\ NullReady' /\ CurrRuns'
  <2>1. OneQueue'
    BY <1>0, <1>e DEF OneQueue
  <2> QED
    BY <1>0, <1>e, <2>1 DEF WaitersCounted, CurrAlone, NullReady, CurrRuns
<1>5. ASSUME NEW c \in Cond, NEW m \in Mutex \cup {MutexNone},
             NEW d \in Delay \cup {Forever}, CondWait(c, m, d)
      PROVE  /\ OneQueue' /\ WaitersCounted'
             /\ CurrAlone' /\ NullReady' /\ CurrRuns' /\ CallerRuns'
  <2>1. /\ at = "user"
        /\ UNCHANGED <<status, curr, avail, sleepList, count, semQ, condQ, op, lockOf>>
    BY <1>5 DEF CondWait, Running
  <2>2. CallerRuns'
    BY <1>5 DEF CondWait, Running, CallerRuns
  <2> QED
    BY <1>e, <2>1, <2>2
<1>6. ASSUME NEW d \in Delay, Sleep(d)
      PROVE  /\ OneQueue' /\ WaitersCounted'
             /\ CurrAlone' /\ NullReady' /\ CurrRuns' /\ CallerRuns'
  <2>1. /\ at = "user" /\ at' = "sched" /\ curr # NullProc /\ curr' = curr
        /\ status' = [status EXCEPT ![curr] = "TIMED_WAIT"]
        /\ sleep_enqueue(curr, d)
        /\ op' = [op EXCEPT ![curr] = "sleep"]
        /\ UNCHANGED <<avail, count, semQ, condQ, lockOf>>
    BY <1>6 DEF Sleep, Running
  <2>2. OneQueue'
    BY <1>0, <1>c, <2>1, SleepStep
  <2>3. CurrAlone' /\ NullReady'
    BY <1>0, <1>b, <2>1 DEF CurrAlone, NullReady
  <2> QED
    BY <1>0, <2>1, <2>2, <2>3 DEF WaitersCounted, CurrRuns, CallerRuns
<1>f. ASSUME NEW c \in Cond, condQ[c] # <<>>, wake(Head(condQ[c])), at # "sched",
             condQ' = [condQ EXCEPT ![c] = Rest(@)],
             at' = at \/ at' = "sched",
             at \notin {"wait_clear", "wait_park"},
             UNCHANGED <<curr, count, semQ, op, lockOf>>
      PROVE  /\ OneQueue' /\ WaitersCounted'
             /\ CurrAlone' /\ NullReady' /\ CurrRuns' /\ CallerRuns'
  <2> DEFINE x == Head(condQ[c])
  <2>1. /\ x \in Proc
        /\ status[x] \in {"COND_WAIT", "TIMED_WAIT"}
        /\ status' = [status EXCEPT ![x] = "AVAIL"]
        /\ avail' = proc_enqueue(avail, x)
        /\ Left(x, Cond, condQ, condQ')
        /\ LeftSleep(x, sleepList, sleepList')
    BY <1>0, <1>f, WakeEffect
  <2> HIDE DEF x
  <2>2. OneQueue' /\ CurrAlone' /\ NullReady' /\ CurrRuns'
    BY <1>0, <1>f, <2>1, ReadyStep
  <2> QED
    BY <1>0, <1>f, <2>2 DEF WaitersCounted, CallerRuns
<1>7. ASSUME NEW c \in Cond, CondSignal(c)
      PROVE  /\ OneQueue' /\ WaitersCounted'
             /\ CurrAlone' /\ NullReady' /\ CurrRuns' /\ CallerRuns'
  <2>1. /\ at = "user" /\ at' \in {"user", "sched"}
        /\ condQ' = [condQ EXCEPT ![c] = Rest(@)]
        /\ UNCHANGED <<curr, count, semQ, op, lockOf>>
    BY <1>7 DEF CondSignal, Running, ReschedOrReturn
  <2>2. CASE condQ[c] # <<>>
    BY <1>7, <1>f, <2>1, <2>2 DEF CondSignal
  <2>3. CASE condQ[c] = <<>>
    <3>1. UNCHANGED <<status, avail, sleepList>> /\ condQ' = condQ
      BY <1>0, <1>7, <2>1, <2>3 DEF CondSignal, Rest, TypeOK
    <3> QED
      BY <1>e, <2>1, <3>1 DEF CallerRuns
  <2> QED
    BY <2>2, <2>3
<1>8. ASSUME NEW c \in Cond, CondBroadcast(c) \/ CondSignalIsr(c)
      PROVE  /\ OneQueue' /\ WaitersCounted'
             /\ CurrAlone' /\ NullReady' /\ CurrRuns' /\ CallerRuns'
  <2>1. /\ at = "user" /\ at' = "wake_all"
        /\ UNCHANGED <<status, curr, avail, sleepList, count, semQ, condQ, op, lockOf>>
    BY <1>8 DEF CondBroadcast, CondSignalIsr, Running
  <2> QED
    BY <1>e, <2>1 DEF CallerRuns
<1>9. CASE WaitClear
  <2>1. /\ at = "wait_clear" /\ at' = "user"
        /\ UNCHANGED <<status, curr, avail, sleepList, count, semQ, condQ, op, lockOf>>
    BY <1>9 DEF WaitClear
  <2> QED
    BY <1>e, <2>1 DEF CallerRuns
<1>10. CASE WaitPark
  <2> DEFINE c == call.cond
             m == call.mutex
             timed == call.delay # Forever
             st == [status EXCEPT ![curr] =
                       IF timed THEN "TIMED_WAIT" ELSE "COND_WAIT"]
  <2>1. /\ at = "wait_park" /\ at' = "sched" /\ curr' = curr /\ c \in Cond
        /\ m \in Mutex \cup {MutexNone}
        /\ curr # NullProc /\ status[curr] = "CURR"
    BY <1>0, <1>10 DEF WaitPark, TypeOK, CallerRuns, CurrRuns
  <2>2. /\ condQ' = [condQ EXCEPT ![c] = proc_enqueue(@, curr)]
        /\ op' = [op EXCEPT ![curr] = "cond_wait"]
        /\ lockOf' = [lockOf EXCEPT ![curr] = m]
        /\ IF timed THEN sleep_enqueue(curr, call.delay)
                    ELSE UNCHANGED <<sleepList, wakeAt>>
        /\ IF m # MutexNone THEN Unlock(m, st)
           ELSE status' = st /\ UNCHANGED <<count, semQ, avail>>
    BY <1>10 DEF WaitPark
  <2>3. /\ NoDup(sleepList')
        /\ Range(sleepList') = Range(sleepList) \cup (IF timed THEN {curr} ELSE {})
    <3>1. CASE timed
      BY <1>0, <2>1, <2>2, <3>1, SleepEnqueueEffect
    <3>2. CASE ~timed
      BY <1>0, <2>2, <3>2 DEF OneQueue
    <3> QED
      BY <3>1, <3>2
  <2>4. /\ st \in [Proc -> Status] /\ timed \in BOOLEAN
        /\ \A p \in Proc : st[p] = status[p] \/ (p = curr /\ st[p] # "CURR" /\ st[p] # "SEM_WAIT")
    BY <1>b DEF Status
  <2> HIDE DEF timed
  <2>5. Placed(st, op', lockOf', avail, sleepList', semQ, condQ')
    BY <1>0, <2>1, <2>2, <2>3, <2>4, ParkStep
  <2> HIDE DEF st
  <2>6. /\ Placed(status', op', lockOf', avail', sleepList', semQ', condQ')
        /\ WaitersCounted'
        /\ \A p \in Proc : \/ status'[p] = st[p]
                           \/ st[p] = "SEM_WAIT" /\ status'[p] = "AVAIL"
    <3>1. CASE m # MutexNone
      <4>1. m \in Semaphore /\ Unlock(m, st)
        BY <2>1, <2>2, <3>1 DEF Semaphore
      <4> QED
        BY <1>0, <2>4, <2>5, <4>1, UnlockPlaced
    <3>2. CASE m = MutexNone
      BY <1>0, <2>2, <2>5, <3>2 DEF WaitersCounted
    <3> QED
      BY <3>1, <3>2
  <2>7. OneQueue'
    BY <2>6, OneQueueIsPlacedNext
  <2>8. CurrAlone' /\ NullReady'
    BY <1>0, <1>b, <2>1, <2>4, <2>6 DEF CurrAlone, NullReady
  <2> QED
    BY <2>1, <2>6, <2>7, <2>8 DEF CurrRuns, CallerRuns
<1>11. CASE WakeAll
  <2> DEFINE c == call.cond
  <2>1. at = "wake_all" /\ c \in Cond /\ UNCHANGED <<curr, count, semQ, op, lockOf>>
    BY <1>0, <1>11 DEF WakeAll, TypeOK
  <2>2. CASE condQ[c] # <<>>
    <3>1. wake(Head(condQ[c])) /\ condQ' = [condQ EXCEPT ![c] = Rest(@)] /\ at' = at
      BY <1>11, <2>2 DEF WakeAll
    <3> QED
      BY <1>f, <2>1, <2>2, <3>1
  <2>3. CASE condQ[c] = <<>>
    <3>1. UNCHANGED <<status, avail, sleepList, condQ>> /\ at' \in {"user", "sched"}
      BY <1>11, <2>3 DEF WakeAll, ReschedOrReturn
    <3> QED
      BY <1>e, <2>1, <3>1 DEF CallerRuns
  <2> QED
    BY <2>2, <2>3
<1>12. CASE SleepClock
  <2>1. at = "sleep_clock" /\ UNCHANGED <<curr, count, op, lockOf>>
    BY <1>12 DEF SleepClock
  <2>2. CASE sleepList # <<>> /\ Due(Head(sleepList))
    <3> DEFINE x == Head(sleepList)
    <3>1. /\ x \in Proc /\ status[x] = "TIMED_WAIT"
          /\ status' = [status EXCEPT ![x] = "AVAIL"]
          /\ avail' = proc_enqueue(avail, x)
          /\ Left(x, Cond, condQ, condQ')
          /\ LeftSleep(x, sleepList, sleepList')
          /\ \A s \in Semaphore : semQ'[s] = semQ[s]
          /\ at' = at
      BY <1>0, <1>12, <2>2, TimeoutEffect
    <3> HIDE DEF x
    <3>2. status[x] \in {"COND_WAIT", "TIMED_WAIT"}
      BY <3>1
    <3>3. OneQueue' /\ CurrAlone' /\ NullReady' /\ CurrRuns'
      BY <1>0, <2>1, <3>1, <3>2, ReadyStep
    <3> QED
      BY <1>0, <2>1, <3>1, <3>3 DEF WaitersCounted, CallerRuns
  <2>3. CASE ~(sleepList # <<>> /\ Due(Head(sleepList)))
    <3>1. UNCHANGED <<status, avail, sleepList, semQ, condQ>> /\ at' = "cond_clock"
      BY <1>12, <2>3 DEF SleepClock
    <3> QED
      BY <1>e, <2>1, <3>1 DEF CallerRuns
  <2> QED
    BY <2>2, <2>3
<1>13. CASE CondClock \/ Scan
  <2>1. /\ at \in {"cond_clock", "scan"} /\ at' \in {"scan", "scan_wake", "sched"}
        /\ UNCHANGED <<status, curr, avail, sleepList, count, semQ, condQ, op, lockOf>>
    BY <1>13 DEF CondClock, Scan, NextCond
  <2> QED
    BY <1>e, <2>1 DEF CallerRuns
<1>14. CASE ScanWake
  <2> DEFINE c == call.cond
  <2>1. at = "scan_wake" /\ c \in Cond /\ UNCHANGED <<curr, count, semQ, op, lockOf>>
    BY <1>0, <1>14 DEF ScanWake, TypeOK
  <2>2. CASE condQ[c] # <<>>
    <3>1. wake(Head(condQ[c])) /\ condQ' = [condQ EXCEPT ![c] = Rest(@)] /\ at' = at
      BY <1>14, <2>2 DEF ScanWake
    <3> QED
      BY <1>f, <2>1, <2>2, <3>1
  <2>3. CASE condQ[c] = <<>>
    <3>1. UNCHANGED <<status, avail, sleepList, condQ>> /\ at' \in {"scan", "sched"}
      BY <1>14, <2>3 DEF ScanWake, NextCond
    <3> QED
      BY <1>e, <2>1, <3>1 DEF CallerRuns
  <2> QED
    BY <2>2, <2>3
<1>15. CASE Sched
  <2>1. OneQueue' /\ CurrAlone' /\ NullReady' /\ status'[curr'] = "CURR"
    BY <1>0, <1>15, SchedEffect
  <2>2. at' = "user" /\ UNCHANGED <<count, semQ>>
    BY <1>15 DEF Sched
  <2> QED
    BY <1>0, <2>1, <2>2 DEF WaitersCounted, CurrRuns, CallerRuns
<1>16. ASSUME NEW c \in NmiCond, CondSignalNmi(c)
       PROVE  /\ OneQueue' /\ WaitersCounted'
              /\ CurrAlone' /\ NullReady' /\ CurrRuns' /\ CallerRuns'
  <2>1. UNCHANGED <<status, curr, avail, sleepList, count, semQ, condQ, op, lockOf,
                    at, call, holds>>
    BY <1>16 DEF CondSignalNmi
  <2> QED
    BY <1>0, <1>e, <2>1 DEF CallerRuns
<1>17. CASE TimerIntr
  <2>1. /\ at = "user" /\ at' = "sleep_clock"
        /\ UNCHANGED <<status, curr, avail, sleepList, count, semQ, condQ, op, lockOf>>
    BY <1>17 DEF TimerIntr
  <2> QED
    BY <1>e, <2>1 DEF CallerRuns
<1>18. CASE UNCHANGED vars
  <2>1. UNCHANGED <<status, curr, avail, sleepList, count, semQ, condQ, op, lockOf,
                    at, call, holds>>
    BY <1>18 DEF vars
  <2> QED
    BY <1>0, <1>e, <2>1 DEF CallerRuns
<1>19. IsrCond \subseteq Cond
  BY SyncAssumption
<1> QED
  BY <1>1, <1>2, <1>3, <1>4, <1>5, <1>6, <1>7, <1>8, <1>9, <1>10, <1>11, <1>12,
     <1>13, <1>14, <1>15, <1>16, <1>17, <1>18, <1>19
  DEF Next, Process, Masked, Interrupt
LEMMA QueuesHold == Spec => []QueueInv
<1>1. Init => QueueInv
  BY InitQueues
<1>2. QueueInv /\ [Next]_vars => QueueInv'
  BY NextQueues
<1> QED
  BY <1>1, <1>2, PTL DEF Spec

(* Through every wait, wake, timeout and hand-off a process is in one queue *)
(* at most, once, in its place by priority, and it is the queue that its    *)
(* row's status names.                                                      *)
THEOREM OneQueueAtATime == Spec => []OneQueue
<1>1. QueueInv => OneQueue
  BY DEF QueueInv
<1> QED
  BY <1>1, QueuesHold, PTL

(* A semaphore's queue is as long as its count is negative: sem_signal      *)
(* never hands a unit to the null process and never strands a waiter.       *)
THEOREM EveryWaiterCounted == Spec => []WaitersCounted
<1>1. QueueInv => WaitersCounted
  BY DEF QueueInv
<1> QED
  BY <1>1, QueuesHold, PTL

-----------------------------------------------------------------------------
(* The highest priority runs.  HighestRuns speaks of user code only; it     *)
(* holds in masked code too until sched() is reached, for make_avail notes  *)
(* in need_resched whoever outranks the current process; and the note is    *)
(* owed in user code by the boot thread alone (Owed).                       *)

Ranked ==
    at # "sched" /\ ~needResched =>
        /\ status[curr] = "CURR"
        /\ \A p \in Proc : status[p] = "AVAIL" => Prio[p] <= Prio[curr]

Owed == at \in {"user", "wait_clear"} /\ needResched => Booting

RankInv == QueueInv /\ Ranked /\ Owed

(* Making one process ready keeps the ranking or asks for sched().          *)
LEMMA ReadyRanked ==
    ASSUME TypeOK, Ranked, at # "sched", curr' = curr,
           NEW x \in Proc, x # curr, status' = [status EXCEPT ![x] = "AVAIL"],
           needResched' = (needResched \/ Prio[x] > Prio[curr])
    PROVE  Ranked'
<1> SUFFICES ASSUME at' # "sched", ~needResched'
             PROVE  /\ status'[curr] = "CURR"
                    /\ \A p \in Proc : status'[p] = "AVAIL" => Prio[p] <= Prio[curr]
  BY DEF Ranked
<1>1. ~needResched /\ ~(Prio[x] > Prio[curr])
  OBVIOUS
<1>2. curr \in Proc /\ Prio[x] \in Nat /\ Prio[curr] \in Nat
  BY ProcAssumption DEF TypeOK
<1>3. Prio[x] <= Prio[curr]
  BY <1>1, <1>2
<1>4. /\ status[curr] = "CURR"
      /\ \A p \in Proc : status[p] = "AVAIL" => Prio[p] <= Prio[curr]
  BY <1>1 DEF Ranked
<1> QED
  BY <1>2, <1>3, <1>4 DEF TypeOK

LEMMA InitRanked == Init => Ranked
BY DEF Init, Ranked

LEMMA NextRanked == RankInv /\ [Next]_vars => Ranked'
<1> SUFFICES ASSUME QueueInv, Ranked, [Next]_vars PROVE Ranked'
  BY DEF RankInv
<1> USE DEF sched_, sync, conds, time, client
<1>0. /\ TypeOK /\ OneQueue /\ WaitersCounted
      /\ CurrAlone /\ NullReady /\ CurrRuns
  BY DEF QueueInv, Rows
<1> HIDE DEF QueueInv
<1>a. \A t \in Semaphore : Ordered(semQ[t])
  BY <1>0 DEF OneQueue, Ordered
<1>b. ASSUME UNCHANGED <<status, needResched, curr>>, at' # "sched" => at # "sched"
      PROVE  Ranked'
  BY <1>b DEF Ranked
<1>1. ASSUME NEW s \in Semaphore, SemWait(s) PROVE Ranked'
  <2>1. CASE count[s] - 1 < 0
    BY <1>1, <2>1 DEF SemWait, Ranked
  <2>2. CASE ~(count[s] - 1 < 0)
    BY <1>1, <1>b, <2>2 DEF SemWait
  <2> QED
    BY <2>1, <2>2
<1>c. ASSUME NEW s \in Semaphore, Post(s, status), at = "user", curr # NullProc, curr' = curr
      PROVE  Ranked'
  <2>1. CASE count[s] < 0
    <3>1. PICK x \in Range(semQ[s]) :
               /\ x \in Proc
               /\ status' = [status EXCEPT ![x] = "AVAIL"]
               /\ needResched' = (needResched \/ Prio[x] > Prio[curr])
      BY <1>0, <1>a, <1>c, <2>1, PostEffect
    <3>2. x # curr
      BY <1>0, <1>c, <3>1 DEF OneQueue, CurrRuns
    <3> QED
      BY <1>0, <1>c, <3>1, <3>2, ReadyRanked
  <2>2. CASE ~(count[s] < 0)
    <3>1. status' = status /\ needResched' = needResched
      BY <1>0, <1>a, <1>c, <2>2, PostEffect
    <3> QED
      BY <1>b, <1>c, <3>1
  <2> QED
    BY <2>1, <2>2
<1>2. ASSUME NEW s \in Counting, SemSignal(s) PROVE Ranked'
  <2>1. s \in Semaphore /\ Post(s, status) /\ at = "user" /\ curr # NullProc /\ curr' = curr
    BY <1>2 DEF SemSignal, Running, Semaphore
  <2> QED
    BY <1>c, <2>1
<1>3. ASSUME NEW m \in Mutex, MutexUnlock(m) PROVE Ranked'
  <2>1. /\ m \in Semaphore /\ Unlock(m, status) /\ at = "user"
        /\ curr # NullProc /\ curr' = curr
    BY <1>3 DEF MutexUnlock, Running, Semaphore
  <2>2. CASE count[m] < 1
    BY <1>c, <2>1, <2>2 DEF Unlock
  <2>3. CASE ~(count[m] < 1)
    BY <1>b, <2>1, <2>3 DEF Unlock
  <2> QED
    BY <2>2, <2>3
<1>4. CASE \/ SemWaitReturn \/ WaitReturn \/ SleepReturn \/ WaitClear
           \/ \E c \in Cond, m \in Mutex \cup {MutexNone}, d \in Delay \cup {Forever} :
                 CondWait(c, m, d)
           \/ \E c \in Cond : CondBroadcast(c)
           \/ \E c \in IsrCond : CondSignalIsr(c)
           \/ \E c \in NmiCond : CondSignalNmi(c)
           \/ TimerIntr
  <2>1. UNCHANGED <<status, needResched, curr>> /\ (at = "sched" => at' = "sched")
    BY <1>4 DEF SemWaitReturn, WaitReturn, SleepReturn, WaitClear, CondWait,
                CondBroadcast, CondSignalIsr, CondSignalNmi, TimerIntr, Running
  <2> QED
    BY <1>b, <2>1
<1>5. CASE WaitPark \/ \E d \in Delay : Sleep(d)
  BY <1>5 DEF WaitPark, Sleep, Ranked
<1>d. ASSUME NEW c \in Cond, condQ[c] # <<>>, wake(Head(condQ[c])), at # "sched",
             condQ' = [condQ EXCEPT ![c] = Rest(@)], curr' = curr
      PROVE  Ranked'
  <2> DEFINE x == Head(condQ[c])
  <2>1. /\ x \in Proc /\ status[x] \in {"COND_WAIT", "TIMED_WAIT"}
        /\ status' = [status EXCEPT ![x] = "AVAIL"]
        /\ needResched' = (needResched \/ Prio[x] > Prio[curr])
    BY <1>0, <1>d, WakeEffect
  <2> HIDE DEF x
  <2>2. x # curr
    BY <1>0, <1>d, <2>1 DEF CurrRuns
  <2> QED
    BY <1>0, <1>d, <2>1, <2>2, ReadyRanked
<1>6. ASSUME NEW c \in Cond, CondSignal(c) PROVE Ranked'
  <2>1. at = "user" /\ condQ' = [condQ EXCEPT ![c] = Rest(@)] /\ curr' = curr
    BY <1>6 DEF CondSignal, Running
  <2>2. CASE condQ[c] # <<>>
    BY <1>6, <1>d, <2>1, <2>2 DEF CondSignal
  <2>3. CASE condQ[c] = <<>>
    BY <1>6, <1>b, <2>1, <2>3 DEF CondSignal
  <2> QED
    BY <2>2, <2>3
<1>7. CASE WakeAll \/ ScanWake
  <2> DEFINE c == call.cond
  <2>1. at \in {"wake_all", "scan_wake"} /\ c \in Cond /\ curr' = curr
    BY <1>0, <1>7 DEF WakeAll, ScanWake, TypeOK
  <2>2. CASE condQ[c] # <<>>
    <3>1. wake(Head(condQ[c])) /\ condQ' = [condQ EXCEPT ![c] = Rest(@)]
      BY <1>7, <2>2 DEF WakeAll, ScanWake
    <3> QED
      BY <1>d, <2>1, <2>2, <3>1
  <2>3. CASE condQ[c] = <<>>
    BY <1>7, <1>b, <2>1, <2>3 DEF WakeAll, ScanWake
  <2> QED
    BY <2>2, <2>3
<1>8. CASE SleepClock
  <2>1. at = "sleep_clock" /\ curr' = curr
    BY <1>8 DEF SleepClock
  <2>2. CASE sleepList # <<>> /\ Due(Head(sleepList))
    <3> DEFINE x == Head(sleepList)
    <3>1. /\ x \in Proc /\ status[x] = "TIMED_WAIT"
          /\ status' = [status EXCEPT ![x] = "AVAIL"]
          /\ needResched' = (needResched \/ Prio[x] > Prio[curr])
      BY <1>0, <1>8, <2>2, TimeoutEffect
    <3> HIDE DEF x
    <3>2. x # curr
      BY <1>0, <2>1, <3>1 DEF CurrRuns
    <3> QED
      BY <1>0, <2>1, <3>1, <3>2, ReadyRanked
  <2>3. CASE ~(sleepList # <<>> /\ Due(Head(sleepList)))
    BY <1>8, <1>b, <2>1, <2>3 DEF SleepClock
  <2> QED
    BY <2>2, <2>3
<1>9. CASE CondClock \/ Scan
  <2>1. UNCHANGED <<status, needResched, curr>> /\ at # "sched"
    BY <1>9 DEF CondClock, Scan
  <2> QED
    BY <1>b, <2>1
<1>10. CASE Sched
  <2>1. /\ status'[curr'] = "CURR"
        /\ \A p \in Proc : status'[p] = "AVAIL" => Prio[p] <= Prio[curr']
    BY <1>0, <1>10, SchedEffect
  <2> QED
    BY <2>1 DEF Ranked
<1>11. CASE UNCHANGED vars
  BY <1>11, <1>b DEF vars
<1> QED
  BY <1>1, <1>2, <1>3, <1>4, <1>5, <1>6, <1>7, <1>8, <1>9, <1>10, <1>11
  DEF Next, Process, Masked, Interrupt

LEMMA InitOwed == Init => Owed
BY ProcAssumption DEF Init, Owed, Booting

(* No step comes back to user code with a reschedule asked for: calls and   *)
(* handlers go through ReschedOrReturn, the tick through Sched.             *)
LEMMA NextOwed == TypeOK /\ Owed /\ [Next]_vars => Owed'
<1> SUFFICES ASSUME TypeOK, Owed, [Next]_vars PROVE Owed'
  OBVIOUS
<1> USE DEF sched_, sync, conds, time, client
<1>a. ASSUME at' = IF needResched' THEN "sched" ELSE "user" PROVE Owed'
  BY <1>a DEF Owed
<1>b. ASSUME at' \notin {"user", "wait_clear"} PROVE Owed'
  BY <1>b DEF Owed
<1>c. ASSUME UNCHANGED <<status, needResched, curr>>, at \in {"user", "wait_clear"} PROVE Owed'
  BY <1>c DEF Owed, Booting
<1>d. ASSUME UNCHANGED <<status, needResched, curr, at>> PROVE Owed'
  BY <1>d DEF Owed, Booting
<1>1. ASSUME NEW s \in Semaphore, SemWait(s) PROVE Owed'
  <2>1. CASE count[s] - 1 < 0
    BY <1>1, <1>b, <2>1 DEF SemWait
  <2>2. CASE ~(count[s] - 1 < 0)
    BY <1>1, <1>d, <2>2 DEF SemWait
  <2> QED
    BY <2>1, <2>2
<1>2. CASE \/ \E s \in Counting : SemSignal(s)
           \/ \E m \in Mutex : MutexUnlock(m)
           \/ \E c \in Cond : CondSignal(c)
  BY <1>2, <1>a DEF SemSignal, MutexUnlock, CondSignal, ReschedOrReturn
<1>3. CASE \/ SemWaitReturn \/ WaitReturn \/ SleepReturn \/ WaitClear
           \/ \E c \in Cond, m \in Mutex \cup {MutexNone}, d \in Delay \cup {Forever} :
                 CondWait(c, m, d)
  <2>1. UNCHANGED <<status, needResched, curr>> /\ at \in {"user", "wait_clear"}
    BY <1>3 DEF SemWaitReturn, WaitReturn, SleepReturn, WaitClear, CondWait, Running
  <2> QED
    BY <1>c, <2>1
<1>4. CASE \E c \in NmiCond : CondSignalNmi(c)
  BY <1>4, <1>d DEF CondSignalNmi
<1>5. CASE \/ WaitPark \/ TimerIntr
           \/ \E d \in Delay : Sleep(d)
           \/ \E c \in Cond : CondBroadcast(c)
           \/ \E c \in IsrCond : CondSignalIsr(c)
  BY <1>5, <1>b DEF WaitPark, TimerIntr, Sleep, CondBroadcast, CondSignalIsr
<1>6. CASE SleepClock \/ CondClock \/ Scan \/ ScanWake
  BY <1>6, <1>b DEF SleepClock, CondClock, Scan, ScanWake, NextCond
<1>7. CASE WakeAll
  <2>1. CASE condQ[call.cond] # <<>>
    BY <1>7, <1>b, <2>1 DEF WakeAll
  <2>2. CASE condQ[call.cond] = <<>>
    BY <1>7, <1>a, <2>2 DEF WakeAll, ReschedOrReturn
  <2> QED
    BY <2>1, <2>2
<1>8. CASE Sched
  BY <1>8 DEF Sched, Owed
<1>9. CASE UNCHANGED vars
  BY <1>9, <1>d DEF vars
<1> QED
  BY <1>1, <1>2, <1>3, <1>4, <1>5, <1>6, <1>7, <1>8, <1>9
  DEF Next, Process, Masked, Interrupt

(* In user code no process that could run outranks the one that does and no *)
(* reschedule is owed, once the boot thread has given way.                  *)
THEOREM HighestPriorityRuns == Spec => []HighestRuns
<1>1. Init => RankInv
  BY InitQueues, InitRanked, InitOwed DEF RankInv
<1>2. RankInv /\ [Next]_vars => RankInv'
  <2> SUFFICES ASSUME RankInv, [Next]_vars PROVE RankInv'
    OBVIOUS
  <2>1. TypeOK /\ QueueInv /\ Owed
    BY DEF RankInv, QueueInv
  <2> QED
    BY <2>1, NextQueues, NextRanked, NextOwed DEF RankInv
<1>3. RankInv => HighestRuns
  BY DEF RankInv, Ranked, Owed, Booting, HighestRuns
<1> QED
  BY <1>1, <1>2, <1>3, PTL DEF Spec
-----------------------------------------------------------------------------
(* Mutual exclusion.  A mutex's count is 1 exactly while nobody owns it;    *)
(* the owner is whoever holds it or was handed it while it still waited.    *)

Owns(p, m) == m \in holds[p] \/ Granted(p, m)

OneOwner(m) ==
    /\ count[m] <= 1
    /\ count[m] = 1 <=> \A p \in Proc : ~Owns(p, m)
    /\ \A p, q \in Proc : Owns(p, m) /\ Owns(q, m) => p = q

OwnerInv == QueueInv /\ \A m \in Mutex : OneOwner(m)

LEMMA SameOwners ==
    ASSUME NEW m, OneOwner(m), count'[m] = count[m],
           \A p \in Proc : Owns(p, m)' <=> Owns(p, m)
    PROVE  OneOwner(m)'
BY DEF OneOwner

(* A step that changes no mutex's queue, and no op or lockOf but of calls   *)
(* that are not sem_wait's, leaves every mutex its owner.                   *)
LEMMA OwnersKept ==
    ASSUME \A m \in Mutex : OneOwner(m),
           \A m \in Mutex : count'[m] = count[m] /\ semQ'[m] = semQ[m],
           \A p \in Proc :
              /\ holds'[p] = holds[p]
              /\ \/ op'[p] = op[p] /\ lockOf'[p] = lockOf[p]
                 \/ op[p] # "sem_wait" /\ op'[p] # "sem_wait"
    PROVE  \A m \in Mutex : OneOwner(m)'
<1> SUFFICES ASSUME NEW m \in Mutex PROVE OneOwner(m)'
  OBVIOUS
<1>1. \A p \in Proc : Owns(p, m)' <=> Owns(p, m)
  BY DEF Owns, Granted
<1> QED
  BY <1>1, SameOwners

(* The owner gives a mutex up: to its first waiter, or to nobody.           *)
LEMMA OwnerUnlocks ==
    ASSUME TypeOK, OneQueue, WaitersCounted, NEW m \in Mutex, OneOwner(m),
           m \in holds[curr], op[curr] # "sem_wait", op'[curr] # "sem_wait",
           NEW st, Unlock(m, st), status[curr] = "CURR",
           holds' = [holds EXCEPT ![curr] = @ \ {m}], curr' = curr,
           \A p \in Proc \ {curr} : op'[p] = op[p] /\ lockOf'[p] = lockOf[p]
    PROVE  OneOwner(m)' /\ \A t \in Semaphore \ {m} : count'[t] = count[t] /\ semQ'[t] = semQ[t]
<1>1. /\ curr \in Proc /\ m \in Semaphore /\ count \in [Semaphore -> Int]
      /\ count[m] \in Int
      /\ \A t \in Semaphore : Ordered(semQ[t])
  BY DEF TypeOK, OneQueue, Ordered, Semaphore
<1>2. Owns(curr, m) /\ count[m] <= 1 /\ count[m] # 1
  BY <1>1 DEF OneOwner, Owns
<1>3. \A p \in Proc \ {curr} : ~Owns(p, m)
  BY <1>1, <1>2 DEF OneOwner
<1>4. count[m] < 1 /\ Post(m, st)
  BY <1>1, <1>2 DEF Unlock
<1>5. /\ count' = [count EXCEPT ![m] = @ + 1]
      /\ \A t \in Semaphore \ {m} : semQ'[t] = semQ[t]
  BY <1>1, <1>4, PostEffect
<1>6. /\ count'[m] = count[m] + 1
      /\ \A t \in Semaphore \ {m} : count'[t] = count[t]
  BY <1>1, <1>5
<1>7. /\ m \notin holds'[curr]
      /\ \A p \in Proc \ {curr} : m \in holds'[p] <=> m \in holds[p]
  BY <1>1 DEF TypeOK
<1>8. ~Owns(curr, m)'
  BY <1>7 DEF Owns, Granted
<1>9. CASE count[m] < 0
  <2>1. PICK x \in Range(semQ[m]) :
             x \in Proc /\ Range(semQ'[m]) = Range(semQ[m]) \ {x}
    BY <1>1, <1>4, <1>9, PostEffect
  <2>2. op[x] = "sem_wait" /\ lockOf[x] = m /\ x # curr
    BY <1>1, <2>1 DEF OneQueue
  <2>3. Owns(x, m)'
    BY <2>1, <2>2 DEF Owns, Granted
  <2>4. \A p \in Proc \ {x} : ~Owns(p, m)'
    BY <1>3, <1>7, <1>8, <2>1 DEF Owns, Granted
  <2>5. count'[m] <= 1 /\ count'[m] # 1
    BY <1>1, <1>6, <1>9
  <2>6. OneOwner(m)'
    BY <2>1, <2>3, <2>4, <2>5 DEF OneOwner
  <2> QED
    BY <1>5, <1>6, <2>6
<1>10. CASE ~(count[m] < 0)
  <2>1. semQ'[m] = semQ[m]
    BY <1>1, <1>4, <1>10, PostEffect
  <2>2. \A p \in Proc : ~Owns(p, m)'
    BY <1>3, <1>7, <1>8, <2>1 DEF Owns, Granted
  <2>3. count'[m] = 1
    BY <1>1, <1>4, <1>6, <1>10
  <2>4. OneOwner(m)'
    BY <2>2, <2>3 DEF OneOwner
  <2> QED
    BY <1>5, <1>6, <2>4
<1> QED
  BY <1>9, <1>10

(* mutex_lock by a process that has not got it: it queues, or there was no  *)
(* owner and it is the one from now on.                                     *)
LEMMA OwnerLocks ==
    ASSUME TypeOK, OneQueue, OneQueue', \A m \in Mutex : OneOwner(m), CurrRuns,
           NEW s \in Semaphore, SemWait(s)
    PROVE  \A m \in Mutex : OneOwner(m)'
<1> USE DEF conds, time
<1>1. /\ curr \in Proc /\ status[curr] = "CURR" /\ op[curr] # "sem_wait"
      /\ curr' = curr
      /\ count' = [count EXCEPT ![s] = @ - 1]
      /\ count \in [Semaphore -> Int] /\ count[s] \in Int
  BY DEF SemWait, Running, CurrRuns, TypeOK
<1>2. \A t \in Semaphore : curr \notin Range(semQ[t])
  BY <1>1 DEF OneQueue
<1>3. /\ count'[s] = count[s] - 1
      /\ \A t \in Semaphore \ {s} : count'[t] = count[t]
  BY <1>1
<1>4. CASE count[s] - 1 < 0
  <2>1. /\ status' = [status EXCEPT ![curr] = "SEM_WAIT"]
        /\ semQ' = [semQ EXCEPT ![s] = proc_enqueue(@, curr)]
        /\ op' = [op EXCEPT ![curr] = "sem_wait"]
        /\ lockOf' = [lockOf EXCEPT ![curr] = s]
        /\ holds' = holds
    BY <1>4 DEF SemWait
  <2>2. /\ semQ[s] \in Seq(Proc)
        /\ Range(semQ'[s]) = Range(semQ[s]) \cup {curr}
        /\ \A t \in Semaphore \ {s} : semQ'[t] = semQ[t]
    BY <1>1, <2>1, EnqueueProperties DEF TypeOK
  <2>3. /\ op'[curr] = "sem_wait" /\ lockOf'[curr] = s
        /\ \A p \in Proc \ {curr} : op'[p] = op[p] /\ lockOf'[p] = lockOf[p]
    BY <1>1, <2>1 DEF TypeOK
  <2>4. ASSUME NEW m \in Mutex, NEW p \in Proc PROVE Owns(p, m)' <=> Owns(p, m)
    <3>1. m \in Semaphore
      BY DEF Semaphore
    <3>2. CASE p = curr
      BY <1>1, <2>1, <2>2, <2>3, <3>2 DEF Owns, Granted
    <3>3. CASE p # curr
      BY <2>1, <2>2, <2>3, <3>1, <3>3 DEF Owns, Granted
    <3> QED
      BY <3>2, <3>3
  <2>5. ASSUME NEW m \in Mutex, m # s PROVE OneOwner(m)'
    <3>1. count'[m] = count[m]
      BY <1>3, <2>5 DEF Semaphore
    <3> QED
      BY <2>4, <3>1, SameOwners
  <2>6. ASSUME s \in Mutex PROVE OneOwner(s)'
    <3>1. count[s] # 1 /\ count'[s] # 1 /\ count'[s] <= 1
      BY <1>1, <1>3, <1>4
    <3> QED
      BY <2>4, <2>6, <3>1 DEF OneOwner
  <2> QED
    BY <2>5, <2>6
<1>5. CASE ~(count[s] - 1 < 0)
  <2>1. /\ op' = [op EXCEPT ![curr] = "run"]
        /\ lockOf' = [lockOf EXCEPT ![curr] = MutexNone]
        /\ holds' = [holds EXCEPT ![curr] = @ \cup ({s} \cap Mutex)]
        /\ semQ' = semQ
    BY <1>5 DEF SemWait
  <2>2. /\ op'[curr] = "run" /\ holds'[curr] = holds[curr] \cup ({s} \cap Mutex)
        /\ \A p \in Proc \ {curr} : /\ op'[p] = op[p] /\ lockOf'[p] = lockOf[p]
                                    /\ holds'[p] = holds[p]
    BY <1>1, <2>1 DEF TypeOK
  <2>3. ASSUME NEW m \in Mutex, m # s PROVE OneOwner(m)'
    <3>1. count'[m] = count[m]
      BY <1>3, <2>3 DEF Semaphore
    <3>2. \A p \in Proc : Owns(p, m)' <=> Owns(p, m)
      BY <1>1, <2>1, <2>2, <2>3 DEF Owns, Granted
    <3> QED
      BY <3>1, <3>2, SameOwners
  <2>4. ASSUME s \in Mutex PROVE OneOwner(s)'
    <3>0. OneOwner(s)
      BY <2>4
    <3>1. count[s] = 1 /\ count'[s] = 0
      BY <1>1, <1>3, <1>5, <3>0 DEF OneOwner
    <3>2. \A p \in Proc : ~Owns(p, s)
      BY <3>0, <3>1 DEF OneOwner
    <3>3. Owns(curr, s)'
      BY <1>1, <2>2, <2>4 DEF Owns
    <3>4. \A p \in Proc \ {curr} : ~Owns(p, s)'
      BY <2>1, <2>2, <3>2 DEF Owns, Granted
    <3> QED
      BY <1>1, <3>1, <3>3, <3>4 DEF OneOwner
  <2> QED
    BY <2>3, <2>4
<1> QED
  BY <1>4, <1>5

(* ... and the other mutexes keep theirs.                                   *)
LEMMA UnlockOwners ==
    ASSUME TypeOK, OneQueue, WaitersCounted, \A n \in Mutex : OneOwner(n),
           NEW m \in Mutex, m \in holds[curr], op[curr] # "sem_wait",
           op'[curr] # "sem_wait", status[curr] = "CURR", NEW st, Unlock(m, st),
           holds' = [holds EXCEPT ![curr] = @ \ {m}], curr' = curr,
           \A p \in Proc \ {curr} : op'[p] = op[p] /\ lockOf'[p] = lockOf[p]
    PROVE  \A n \in Mutex : OneOwner(n)'
<1>1. OneOwner(m)
  OBVIOUS
<1>2. /\ OneOwner(m)'
      /\ \A t \in Semaphore \ {m} : count'[t] = count[t] /\ semQ'[t] = semQ[t]
  BY <1>1, OwnerUnlocks
<1>3. curr \in Proc /\ holds \in [Proc -> SUBSET Mutex]
  BY DEF TypeOK
<1>4. ASSUME NEW n \in Mutex, n # m PROVE OneOwner(n)'
  <2>1. n \in Semaphore \ {m}
    BY <1>4 DEF Semaphore
  <2>2. count'[n] = count[n] /\ semQ'[n] = semQ[n]
    BY <1>2, <2>1
  <2>3. \A p \in Proc : n \in holds'[p] <=> n \in holds[p]
    BY <1>3, <1>4
  <2>4. \A p \in Proc : Granted(p, n)' <=> Granted(p, n)
    BY <2>2 DEF Granted
  <2>5. \A p \in Proc : Owns(p, n)' <=> Owns(p, n)
    BY <2>3, <2>4 DEF Owns
  <2>6. OneOwner(n)
    OBVIOUS
  <2> QED
    BY <2>2, <2>5, <2>6, SameOwners
<1> QED
  BY <1>2, <1>4

LEMMA InitOwners == Init => \A m \in Mutex : OneOwner(m)
<1> SUFFICES ASSUME Init, NEW m \in Mutex PROVE OneOwner(m)
  OBVIOUS
<1>1. m \in Semaphore /\ count[m] = 1
  BY DEF Init, Semaphore
<1>2. \A p \in Proc : ~Owns(p, m)
  BY DEF Init, Owns, Granted
<1> QED
  BY <1>1, <1>2 DEF OneOwner

LEMMA NextOwners == OwnerInv /\ [Next]_vars => \A m \in Mutex : OneOwner(m)'
<1> SUFFICES ASSUME OwnerInv, [Next]_vars PROVE \A m \in Mutex : OneOwner(m)'
  OBVIOUS
<1> USE DEF sched_, sync, conds, time, client
<1>0. /\ TypeOK /\ OneQueue /\ WaitersCounted /\ CurrRuns /\ CallerRuns
      /\ \A m \in Mutex : OneOwner(m)
  BY DEF OwnerInv, QueueInv, Rows
<1>a. QueueInv' /\ OneQueue'
  BY NextQueues DEF OwnerInv, QueueInv
<1> HIDE DEF OwnerInv
<1>b. /\ curr \in Proc /\ op \in [Proc -> Op] /\ holds \in [Proc -> SUBSET Mutex]
      /\ lockOf \in [Proc -> Semaphore \cup {MutexNone}]
  BY <1>0 DEF TypeOK
<1>c. at = "user" /\ curr # NullProc => status[curr] = "CURR"
  BY <1>0 DEF CurrRuns
<1>1. CASE \E s \in Semaphore : SemWait(s)
  BY <1>0, <1>1, <1>a, OwnerLocks
<1>2. CASE SemWaitReturn
  <2> DEFINE l == lockOf[curr]
  <2>1. /\ op[curr] = "sem_wait" /\ status[curr] = "CURR"
        /\ op' = [op EXCEPT ![curr] = "run"]
        /\ holds' = [holds EXCEPT ![curr] = @ \cup ({l} \cap Mutex)]
        /\ lockOf' = [lockOf EXCEPT ![curr] = MutexNone]
        /\ UNCHANGED <<count, semQ>>
    BY <1>2, <1>c DEF SemWaitReturn, Running
  <2>2. /\ op'[curr] = "run" /\ holds'[curr] = holds[curr] \cup ({l} \cap Mutex)
        /\ \A p \in Proc \ {curr} : /\ op'[p] = op[p] /\ holds'[p] = holds[p]
                                    /\ lockOf'[p] = lockOf[p]
    BY <1>b, <2>1
  <2>3. \A t \in Semaphore : curr \notin Range(semQ[t])
    BY <1>0, <1>b, <2>1 DEF OneQueue
  <2>4. ASSUME NEW m \in Mutex, NEW p \in Proc PROVE Owns(p, m)' <=> Owns(p, m)
    <3>1. CASE p = curr
      <4>1. m \in Semaphore
        BY DEF Semaphore
      <4>2. Granted(curr, m) <=> l = m
        BY <2>1, <2>3, <4>1 DEF Granted
      <4>3. m \in holds'[curr] <=> m \in holds[curr] \/ l = m
        BY <2>2
      <4> QED
        BY <2>2, <3>1, <4>2, <4>3 DEF Owns, Granted
    <3>2. CASE p # curr
      BY <2>1, <2>2, <3>2 DEF Owns, Granted
    <3> QED
      BY <3>1, <3>2
  <2> QED
    BY <1>0, <2>1, <2>4, SameOwners
<1>3. ASSUME NEW s \in Counting, SemSignal(s) PROVE \A m \in Mutex : OneOwner(m)'
  <2>1. Post(s, status) /\ UNCHANGED <<op, lockOf, holds>> /\ s \in Semaphore
    BY <1>3 DEF SemSignal, Semaphore
  <2>2. \A t \in Semaphore : Ordered(semQ[t])
    BY <1>0 DEF OneQueue, Ordered
  <2>3. /\ count' = [count EXCEPT ![s] = @ + 1]
        /\ \A t \in Semaphore \ {s} : semQ'[t] = semQ[t]
    BY <1>0, <2>1, <2>2, PostEffect
  <2>4. \A m \in Mutex : m \in Semaphore \ {s}
    BY SyncAssumption DEF Semaphore
  <2>5. \A t \in Semaphore \ {s} : count'[t] = count[t]
    BY <1>0, <2>3 DEF TypeOK
  <2> QED
    BY <1>0, <2>1, <2>3, <2>4, <2>5, OwnersKept
<1>4. ASSUME NEW m \in Mutex, MutexUnlock(m) PROVE \A n \in Mutex : OneOwner(n)'
  <2>1. /\ op[curr] = "run" /\ status[curr] = "CURR" /\ m \in holds[curr]
        /\ Unlock(m, status) /\ UNCHANGED <<op, lockOf, curr>>
        /\ holds' = [holds EXCEPT ![curr] = @ \ {m}]
    BY <1>4, <1>c DEF MutexUnlock, Running
  <2> QED
    BY <1>0, <2>1, UnlockOwners
<1>5. CASE WaitPark
  <2> DEFINE m == call.mutex
             st == [status EXCEPT ![curr] =
                       IF call.delay # Forever THEN "TIMED_WAIT" ELSE "COND_WAIT"]
  <2>1. /\ op[curr] = "run" /\ curr # NullProc
        /\ m \in holds[curr] \cup {MutexNone}
        /\ status[curr] = "CURR"
    BY <1>0, <1>5 DEF WaitPark, CurrRuns, CallerRuns
  <2>2. /\ op' = [op EXCEPT ![curr] = "cond_wait"] /\ curr' = curr
        /\ lockOf' = [lockOf EXCEPT ![curr] = m]
        /\ holds' = [holds EXCEPT ![curr] = @ \ {m}]
        /\ IF m # MutexNone THEN Unlock(m, st) ELSE UNCHANGED <<count, semQ>>
    BY <1>5 DEF WaitPark
  <2> HIDE DEF m, st
  <2>3. /\ op'[curr] = "cond_wait"
        /\ \A p \in Proc \ {curr} : op'[p] = op[p] /\ lockOf'[p] = lockOf[p]
    BY <1>b, <2>2
  <2>4. CASE m # MutexNone
    <3>1. m \in Mutex /\ m \in holds[curr]
      BY <1>b, <2>1, <2>4
    <3> QED
      BY <1>0, <2>1, <2>2, <2>3, <2>4, <3>1, UnlockOwners
  <2>5. CASE m = MutexNone
    <3>1. MutexNone \notin Mutex
      BY SyncAssumption DEF Semaphore
    <3>2. holds' = holds
      BY <1>b, <2>2, <2>5, <3>1
    <3>3. \A p \in Proc : \/ op'[p] = op[p] /\ lockOf'[p] = lockOf[p]
                          \/ op[p] # "sem_wait" /\ op'[p] # "sem_wait"
      BY <2>1, <2>3
    <3> QED
      BY <1>0, <2>2, <2>5, <3>2, <3>3, OwnersKept
  <2> QED
    BY <2>4, <2>5
<1>6. CASE \/ WaitReturn \/ SleepReturn \/ \E d \in Delay : Sleep(d)
  <2>1. /\ UNCHANGED <<count, semQ, holds, lockOf>>
        /\ op[curr] # "sem_wait"
        /\ \E o \in {"run", "relock", "sleep"} : op' = [op EXCEPT ![curr] = o]
    BY <1>6 DEF WaitReturn, SleepReturn, Sleep, Running
  <2>2. \A p \in Proc : op'[p] = op[p] \/ (op[p] # "sem_wait" /\ op'[p] # "sem_wait")
    BY <1>b, <2>1
  <2> QED
    BY <1>0, <2>1, <2>2, OwnersKept
<1>7. CASE SleepClock
  <2>1. /\ UNCHANGED <<count, op, lockOf, holds>>
        /\ \A t \in Semaphore : semQ'[t] = semQ[t]
    <3>1. CASE sleepList # <<>> /\ Due(Head(sleepList))
      BY <1>0, <1>7, <3>1, TimeoutEffect
    <3>2. CASE ~(sleepList # <<>> /\ Due(Head(sleepList)))
      BY <1>7, <3>2 DEF SleepClock
    <3> QED
      BY <3>1, <3>2
  <2>2. \A n \in Mutex : n \in Semaphore
    BY DEF Semaphore
  <2> QED
    BY <1>0, <2>1, <2>2, OwnersKept
<1>8. CASE \/ \E c \in Cond : CondSignal(c) \/ CondBroadcast(c)
           \/ \E c \in Cond, n \in Mutex \cup {MutexNone}, d \in Delay \cup {Forever} :
                 CondWait(c, n, d)
           \/ \E c \in IsrCond : CondSignalIsr(c)
           \/ \E c \in NmiCond : CondSignalNmi(c)
           \/ TimerIntr \/ UNCHANGED vars
  <2>1. UNCHANGED <<count, semQ, op, lockOf, holds>>
    BY <1>8 DEF CondSignal, CondBroadcast, CondWait, CondSignalIsr,
                CondSignalNmi, TimerIntr, vars
  <2> QED
    BY <1>0, <2>1, OwnersKept
<1>9. CASE WaitClear \/ WakeAll \/ CondClock \/ Scan \/ ScanWake \/ Sched
  <2>1. UNCHANGED <<count, semQ, op, lockOf, holds>>
    BY <1>9 DEF WaitClear, WakeAll, CondClock, Scan, ScanWake, Sched
  <2> QED
    BY <1>0, <2>1, OwnersKept
<1> QED
  BY <1>1, <1>2, <1>3, <1>4, <1>5, <1>6, <1>7, <1>8, <1>9
  DEF Next, Process, Masked, Interrupt

(* A mutex has one owner from the moment one is handed it until it unlocks, *)
(* whoever is woken, times out or waits with it in between; its count and   *)
(* its queue account for everybody who wants it.                            *)
THEOREM MutualExclusion == Spec => []MutexExcludes
<1>1. Init => OwnerInv
  BY InitQueues, InitOwners DEF OwnerInv
<1>2. OwnerInv /\ [Next]_vars => OwnerInv'
  BY NextQueues, NextOwners DEF OwnerInv
<1>3. OwnerInv => MutexExcludes
  <2> SUFFICES ASSUME OwnerInv, NEW m \in Mutex
               PROVE  LET owners == {p \in Proc : Owns(p, m)}
                      IN  /\ Cardinality(owners) <= 1
                          /\ count[m] = 1 - Cardinality(owners) - Len(semQ[m])
                          /\ semQ[m] # <<>> => owners # {}
    BY DEF MutexExcludes, Owns
  <2> DEFINE owners == {p \in Proc : Owns(p, m)}
  <2>1. OneOwner(m) /\ WaitersCounted /\ TypeOK
    BY DEF OwnerInv, QueueInv
  <2>2. /\ m \in Semaphore /\ count[m] \in Int /\ semQ[m] \in Seq(Proc)
        /\ Len(semQ[m]) = IF count[m] < 0 THEN - count[m] ELSE 0
    BY <2>1 DEF WaitersCounted, TypeOK, Semaphore
  <2>3. CASE count[m] = 1
    <3>1. owners = {} /\ Len(semQ[m]) = 0
      BY <2>1, <2>2, <2>3 DEF OneOwner
    <3>2. Cardinality(owners) = 0
      BY <3>1, FS_EmptySet
    <3>3. semQ[m] = <<>>
      BY <2>2, <3>1, EmptySeq
    <3> QED
      BY <2>3, <3>1, <3>2, <3>3
  <2>4. CASE count[m] # 1
    <3>1. PICK p \in Proc : Owns(p, m)
      BY <2>1, <2>4 DEF OneOwner
    <3>2. owners = {p}
      BY <2>1, <3>1 DEF OneOwner
    <3>3. Cardinality(owners) = 1
      BY <3>2, FS_Singleton
    <3>4. count[m] <= 0
      BY <2>1, <2>2, <2>4 DEF OneOwner
    <3>5. count[m] = 1 - Cardinality(owners) - Len(semQ[m])
      BY <2>2, <3>3, <3>4
    <3> QED
      BY <3>2, <3>3, <3>5
  <2> QED
    BY <2>3, <2>4
<1> QED
  BY <1>1, <1>2, <1>3, PTL DEF Spec
-----------------------------------------------------------------------------
(* The one end of a timed wait.                                             *)

NotLate == \A c \in Cond : \A p \in Range(condQ[c]) : ~timedOut[p]
LateInv == QueueInv /\ NotLate

\* What SignalXorTimeout says of one step and one process.
EndsOneWay(p) ==
    /\ timedOut'[p] /\ ~timedOut[p] =>
          /\ p \in Range(sleepList) /\ Due(p)
          /\ \A c \in Cond : p \notin Range(condQ'[c])
    /\ \A c \in Cond :
          p \in Range(condQ[c]) \ Range(condQ'[c]) /\ at # "sleep_clock" =>
              ~timedOut'[p] /\ p \notin Range(sleepList')

LEMMA SignalTakesOne ==
    ASSUME TypeOK, OneQueue, NotLate, NEW c \in Cond, condQ[c] # <<>>,
           wake(Head(condQ[c])), condQ' = [condQ EXCEPT ![c] = Rest(@)],
           timedOut' = timedOut
    PROVE  NotLate' /\ \A p \in Proc : EndsOneWay(p)
<1> DEFINE x == Head(condQ[c])
<1>1. /\ Left(x, Cond, condQ, condQ')
      /\ LeftSleep(x, sleepList, sleepList')
  BY WakeEffect
<1> HIDE DEF x
<1>2. /\ \A e \in Cond : Range(condQ'[e]) = Range(condQ[e]) \ {x}
      /\ x \notin Range(sleepList')
  BY <1>1 DEF Left, LeftSleep
<1>3. NotLate'
  BY <1>2 DEF NotLate
<1>4. ASSUME NEW p \in Proc, NEW e \in Cond, p \in Range(condQ[e]) \ Range(condQ'[e])
      PROVE  ~timedOut'[p] /\ p \notin Range(sleepList')
  <2>1. p = x
    BY <1>2, <1>4
  <2> QED
    BY <1>2, <1>4, <2>1 DEF NotLate
<1> QED
  BY <1>3, <1>4 DEF EndsOneWay

LEMMA NobodyLeaves ==
    ASSUME NotLate, UNCHANGED <<condQ, timedOut>>
    PROVE  NotLate' /\ \A p \in Proc : EndsOneWay(p)
BY DEF NotLate, EndsOneWay

LEMMA NextOneWay ==
    LateInv /\ [Next]_vars => NotLate' /\ \A p \in Proc : EndsOneWay(p)
<1> SUFFICES ASSUME LateInv, [Next]_vars
             PROVE  NotLate' /\ \A p \in Proc : EndsOneWay(p)
  OBVIOUS
<1> USE DEF sched_, sync, conds, time, client
<1>0. TypeOK /\ OneQueue /\ NotLate
  BY DEF LateInv, QueueInv
<1>1. ASSUME NEW c \in Cond, CondSignal(c)
      PROVE  NotLate' /\ \A p \in Proc : EndsOneWay(p)
  <2>1. CASE condQ[c] # <<>>
    <3>1. /\ wake(Head(condQ[c])) /\ timedOut' = timedOut
          /\ condQ' = [condQ EXCEPT ![c] = Rest(@)]
      BY <1>1, <2>1 DEF CondSignal
    <3> QED
      BY <1>0, <2>1, <3>1, SignalTakesOne
  <2>2. CASE condQ[c] = <<>>
    <3>1. condQ' = condQ /\ timedOut' = timedOut
      BY <1>0, <1>1, <2>2 DEF CondSignal, Rest, TypeOK
    <3> QED
      BY <1>0, <3>1, NobodyLeaves
  <2> QED
    BY <2>1, <2>2
<1>2. CASE WakeAll \/ ScanWake
  <2> DEFINE c == call.cond
  <2>1. c \in Cond /\ timedOut' = timedOut
    BY <1>0, <1>2 DEF WakeAll, ScanWake, TypeOK
  <2>2. CASE condQ[c] # <<>>
    <3>1. wake(Head(condQ[c])) /\ condQ' = [condQ EXCEPT ![c] = Rest(@)]
      BY <1>2, <2>2 DEF WakeAll, ScanWake
    <3> QED
      BY <1>0, <2>1, <2>2, <3>1, SignalTakesOne
  <2>3. CASE condQ[c] = <<>>
    <3>1. condQ' = condQ
      BY <1>2, <2>3 DEF WakeAll, ScanWake
    <3> QED
      BY <1>0, <2>1, <3>1, NobodyLeaves
  <2> QED
    BY <2>2, <2>3
<1>3. CASE WaitPark
  <2> DEFINE c == call.cond
  <2>1. /\ c \in Cond /\ curr \in Proc /\ condQ \in [Cond -> Seq(Proc)]
        /\ timedOut \in [Proc -> BOOLEAN] /\ condQ[c] \in Seq(Proc)
    BY <1>0 DEF TypeOK
  <2>2. /\ condQ' = [condQ EXCEPT ![c] = proc_enqueue(@, curr)]
        /\ timedOut' = [timedOut EXCEPT ![curr] = FALSE]
    BY <1>3 DEF WaitPark
  <2> HIDE DEF c
  <2>3. \A e \in Cond : \/ Range(condQ'[e]) = Range(condQ[e])
                        \/ Range(condQ'[e]) = Range(condQ[e]) \cup {curr}
    BY <2>1, <2>2, EnqueueProperties
  <2>4. /\ ~timedOut'[curr]
        /\ \A p \in Proc \ {curr} : timedOut'[p] = timedOut[p]
        /\ \A e \in Cond : \A p \in Range(condQ[e]) : p \in Proc
    BY <2>1, <2>2 DEF Range
  <2>5. ASSUME NEW e \in Cond, NEW p \in Range(condQ'[e]) PROVE ~timedOut'[p]
    <3>1. p = curr \/ p \in Range(condQ[e])
      BY <2>3
    <3>2. p = curr \/ (p \in Proc \ {curr} /\ ~timedOut[p])
      BY <1>0, <2>4, <3>1 DEF NotLate
    <3> QED
      BY <2>4, <3>2
  <2>6. \A p \in Proc : EndsOneWay(p)
    BY <2>3, <2>4 DEF EndsOneWay
  <2> QED
    BY <2>5, <2>6 DEF NotLate
<1>4. CASE SleepClock
  <2>1. CASE sleepList # <<>> /\ Due(Head(sleepList))
    <3> DEFINE x == Head(sleepList)
    <3>1. /\ x \in Range(sleepList) /\ Due(x) /\ at = "sleep_clock"
          /\ Left(x, Cond, condQ, condQ')
          /\ timedOut' = [timedOut EXCEPT ![x] = TRUE]
      BY <1>0, <1>4, <2>1, TimeoutEffect DEF SleepClock
    <3> HIDE DEF x
    <3>2. /\ \A e \in Cond : Range(condQ'[e]) = Range(condQ[e]) \ {x}
          /\ \A p \in Proc \ {x} : timedOut'[p] = timedOut[p]
      BY <1>0, <3>1 DEF Left, TypeOK
    <3>a. \A e \in Cond : \A p \in Range(condQ[e]) : p \in Proc
      <4>1. \A e \in Cond : condQ[e] \in Seq(Proc)
        BY <1>0 DEF TypeOK
      <4> QED
        BY <4>1 DEF Range
    <3>3. NotLate'
      BY <1>0, <3>2, <3>a DEF NotLate
    <3>4. ASSUME NEW p \in Proc, timedOut'[p] /\ ~timedOut[p] PROVE p = x
      BY <3>2, <3>4
    <3>5. \A p \in Proc : EndsOneWay(p)
      BY <3>1, <3>2, <3>4 DEF EndsOneWay
    <3> QED
      BY <3>3, <3>5
  <2>2. CASE ~(sleepList # <<>> /\ Due(Head(sleepList)))
    BY <1>0, <1>4, <2>2, NobodyLeaves DEF SleepClock
  <2> QED
    BY <2>1, <2>2
<1>5. CASE \/ \E s \in Semaphore : SemWait(s)
           \/ SemWaitReturn
           \/ \E s \in Counting : SemSignal(s)
           \/ \E m \in Mutex : MutexUnlock(m)
           \/ \E c \in Cond, m \in Mutex \cup {MutexNone}, d \in Delay \cup {Forever} :
                 CondWait(c, m, d)
           \/ WaitReturn
           \/ \E d \in Delay : Sleep(d)
           \/ SleepReturn
           \/ \E c \in Cond : CondBroadcast(c)
  <2>1. UNCHANGED <<condQ, timedOut>>
    BY <1>5 DEF SemWait, SemWaitReturn, SemSignal, MutexUnlock, CondWait,
                WaitReturn, Sleep, SleepReturn, CondBroadcast
  <2> QED
    BY <1>0, <2>1, NobodyLeaves
<1>6. CASE \/ WaitClear \/ CondClock \/ Scan \/ Sched \/ Interrupt \/ UNCHANGED vars
  <2>1. UNCHANGED <<condQ, timedOut>>
    BY <1>6 DEF WaitClear, CondClock, Scan, Sched, Interrupt, CondSignalIsr,
                CondSignalNmi, TimerIntr, vars
  <2> QED
    BY <1>0, <2>1, NobodyLeaves
<1> QED
  BY <1>1, <1>2, <1>3, <1>4, <1>5, <1>6 DEF Next, Process, Masked

(* A wait with a time limit ends once: by its tick, and it has then left    *)
(* its condition's queue; or by a signal, and it is then off the sleep list *)
(* and reports no timeout, whatever the tick does before it runs.           *)
THEOREM OneEndToAWait == Spec => SignalXorTimeout
<1>1. Init => LateInv
  <2> SUFFICES ASSUME Init PROVE NotLate
    BY InitQueues DEF LateInv
  <2>1. \A c \in Cond : Range(condQ[c]) = {}
    BY EmptyKeeps DEF Init
  <2> QED
    BY <2>1 DEF NotLate
<1>2. LateInv /\ [Next]_vars => LateInv'
  BY NextQueues, NextOneWay DEF LateInv
<1>3. LateInv /\ [Next]_vars =>
      [\A p \in Proc :
        /\ timedOut'[p] /\ ~timedOut[p] =>
              /\ p \in Range(sleepList) /\ Due(p)
              /\ \A c \in Cond : p \notin Range(condQ'[c])
        /\ \A c \in Cond :
              p \in Range(condQ[c]) \ Range(condQ'[c]) /\ at # "sleep_clock" =>
                  ~timedOut'[p] /\ p \notin Range(sleepList')]_vars
  BY NextOneWay DEF EndsOneWay
<1> QED
  BY <1>1, <1>2, <1>3, PTL DEF Spec, SignalXorTimeout
-----------------------------------------------------------------------------
(* The sleep list.  A sleeper is known by how many ticks it has left, a     *)
(* number that no wrap disturbs: half the range is never exceeded, and one  *)
(* tick takes one from everybody.                                           *)

LEMMA ModValue ==
    ASSUME NEW w \in Nat \ {0}, NEW d \in Int
    PROVE  /\ 0 <= d /\ d < w => d % w = d
           /\ -w <= d /\ d < 0 => d % w = d + w
           /\ w <= d /\ d < 2 * w => d % w = d - w
BY SMTT(60)

\* A tick count and a delay, without the %.
LEMMA ModTick ==
    ASSUME NEW e \in Int, 0 <= e, e < 2 * Wrap
    PROVE  e % Wrap = IF e >= Wrap THEN e - Wrap ELSE e
<1>1. Wrap \in Nat \ {0}
  BY TickAssumption
<1>2. e < Wrap => e % Wrap = e
  BY <1>1, ModValue
<1>3. e >= Wrap => e % Wrap = e - Wrap
  BY <1>1, ModValue
<1> QED
  BY <1>1, <1>2, <1>3

\* (int)(a - b) without the %.
LEMMA DiffValue ==
    ASSUME NEW a \in Tick, NEW b \in Tick
    PROVE  /\ SignedDiff(a, b) \in {a - b, a - b + Wrap, a - b - Wrap}
           /\ -Wrap <= 2 * SignedDiff(a, b) /\ 2 * SignedDiff(a, b) < Wrap
<1> DEFINE d == a - b
<1>1. /\ Wrap \in Nat \ {0} /\ d \in Int /\ -Wrap <= d /\ d < Wrap
  BY TickAssumption DEF Tick
<1>2. SignedDiff(a, b) = IF 2 * (d % Wrap) >= Wrap THEN (d % Wrap) - Wrap ELSE d % Wrap
  BY DEF SignedDiff
<1> HIDE DEF d
<1>3. /\ 0 <= d => d % Wrap = d
      /\ d < 0 => d % Wrap = d + Wrap
  BY <1>1, ModValue
<1>4. /\ SignedDiff(a, b) \in {d, d + Wrap, d - Wrap}
      /\ -Wrap <= 2 * SignedDiff(a, b) /\ 2 * SignedDiff(a, b) < Wrap
  BY <1>1, <1>2, <1>3
<1> QED
  BY <1>4 DEF d

\* Two values at half the range or nearer that differ by turns are the same.
LEMMA SameTurn ==
    ASSUME NEW w \in Nat \ {0}, NEW x \in Int, NEW y \in Int,
           -w <= 2 * x, 2 * x < w, -w <= 2 * y, 2 * y < w,
           x \in {y, y + w, y - w, y + 2 * w, y - 2 * w, y + 3 * w, y - 3 * w}
    PROVE  x = y
OBVIOUS

\* The order of two ticks is that of what is left until each.
LEMMA DiffOfDues ==
    ASSUME NEW a \in Tick, NEW b \in Tick, NEW t \in Tick,
           -Wrap <= 2 * (SignedDiff(a, t) - SignedDiff(b, t)),
           2 * (SignedDiff(a, t) - SignedDiff(b, t)) < Wrap
    PROVE  SignedDiff(a, b) = SignedDiff(a, t) - SignedDiff(b, t)
<1> DEFINE x == SignedDiff(a, t)
           y == SignedDiff(b, t)
           z == SignedDiff(a, b)
<1>1. Wrap \in Nat \ {0} /\ a \in Int /\ b \in Int /\ t \in Int
  BY TickAssumption DEF Tick
<1>2. /\ x \in {a - t, a - t + Wrap, a - t - Wrap}
      /\ y \in {b - t, b - t + Wrap, b - t - Wrap}
      /\ z \in {a - b, a - b + Wrap, a - b - Wrap}
      /\ -Wrap <= 2 * z /\ 2 * z < Wrap
  BY DiffValue
<1>3. -Wrap <= 2 * (x - y) /\ 2 * (x - y) < Wrap
  OBVIOUS
<1> HIDE DEF x, y, z
<1>4. x \in Int /\ y \in Int /\ z \in Int /\ x - y \in Int
  BY <1>1, <1>2
<1>5. z = x - y
  BY <1>1, <1>2, <1>3, <1>4
<1> QED
  BY <1>5 DEF x, y, z

\* One tick leaves everybody one tick less, or everything is the same tick.
LEMMA TickDue ==
    ASSUME NEW a \in Tick, NEW t \in Tick, SignedDiff(a, t) >= 0
    PROVE  /\ (t + 1) % Wrap \in Tick
           /\ SignedDiff(a, (t + 1) % Wrap) =
                 IF Wrap = 1 THEN SignedDiff(a, t) ELSE SignedDiff(a, t) - 1
<1> DEFINE u == (t + 1) % Wrap
           x == SignedDiff(a, t)
           y == SignedDiff(a, u)
<1>1. Wrap \in Nat \ {0} /\ a \in 0 .. Wrap - 1 /\ t \in 0 .. Wrap - 1
  BY TickAssumption DEF Tick
<1>2. u = IF t + 1 >= Wrap THEN t + 1 - Wrap ELSE t + 1
  <2>1. t + 1 \in Int /\ 0 <= t + 1 /\ t + 1 < 2 * Wrap
    BY <1>1
  <2> QED
    BY <1>1, <2>1, ModTick
<1>3. u \in Tick
  BY <1>1, <1>2 DEF Tick
<1> HIDE DEF u
<1>4. /\ x \in {a - t, a - t + Wrap, a - t - Wrap}
      /\ -Wrap <= 2 * x /\ 2 * x < Wrap
      /\ y \in {a - u, a - u + Wrap, a - u - Wrap}
      /\ -Wrap <= 2 * y /\ 2 * y < Wrap
      /\ x >= 0
  BY <1>3, DiffValue
<1> HIDE DEF x, y
<1>5. y = IF Wrap = 1 THEN x ELSE x - 1
  <2>1. x \in Int /\ y \in Int /\ u \in Int
    BY <1>1, <1>2, <1>4
  <2>2. CASE Wrap = 1
    BY <1>1, <1>2, <1>4, <2>1, <2>2
  <2>3. CASE Wrap # 1
    BY <1>1, <1>2, <1>4, <2>1, <2>3
  <2> QED
    BY <2>2, <2>3
<1> QED
  BY <1>3, <1>5 DEF u, x, y

\* What is left at first is the delay.
LEMMA EnqueueDue ==
    ASSUME NEW t \in Tick, NEW d \in Delay
    PROVE  /\ (t + d) % Wrap \in Tick
           /\ SignedDiff((t + d) % Wrap, t) = d
<1> DEFINE u == (t + d) % Wrap
           x == SignedDiff(u, t)
<1>1. Wrap \in Nat \ {0} /\ t \in 0 .. Wrap - 1 /\ d \in Nat /\ 2 * d < Wrap
  BY TickAssumption DEF Tick
<1>2. u = IF t + d >= Wrap THEN t + d - Wrap ELSE t + d
  <2>1. t + d \in Int /\ 0 <= t + d /\ t + d < 2 * Wrap
    BY <1>1
  <2> QED
    BY <1>1, <2>1, ModTick
<1>3. u \in Tick
  BY <1>1, <1>2 DEF Tick
<1> HIDE DEF u
<1>4. /\ x \in {u - t, u - t + Wrap, u - t - Wrap}
      /\ -Wrap <= 2 * x /\ 2 * x < Wrap
  BY <1>3, DiffValue
<1> HIDE DEF x
<1>5. x = d
  <2>1. x \in Int /\ u \in Int
    BY <1>1, <1>2, <1>4
  <2> QED
    BY <1>1, <1>2, <1>4, <2>1
<1> QED
  BY <1>3, <1>5 DEF u, x

\* The ticks p has left, and all processes'.
DueIn(p) == SignedDiff(wakeAt[p], tickCount)
Dues == [p \in Proc |-> DueIn(p)]

(* The one about to sleep is as near as the last, or nearer: nobody is      *)
(* overdue but while the tick is being handled, by one tick at most, and no *)
(* two sleepers are half the range apart.                                   *)
InTime ==
    /\ SortedBy(sleepList, Dues)
    /\ \A p \in Range(sleepList) :
          /\ IF at = "sleep_clock" THEN DueIn(p) >= -1 ELSE DueIn(p) >= 0
          /\ \A q \in Range(sleepList) : 2 * (DueIn(p) - DueIn(q)) < Wrap

ClockInv == QueueInv /\ InTime

LEMMA DueBounds ==
    ASSUME TypeOK
    PROVE  /\ Dues \in [Proc -> Int]
           /\ \A p \in Proc : /\ Dues[p] = DueIn(p) /\ DueIn(p) \in Int
                              /\ -Wrap <= 2 * DueIn(p) /\ 2 * DueIn(p) < Wrap
<1>1. Wrap \in Nat \ {0} /\ tickCount \in Tick /\ \A p \in Proc : wakeAt[p] \in Tick
  BY TickAssumption DEF TypeOK
<1>2. \A p \in Proc :
        /\ DueIn(p) \in {wakeAt[p] - tickCount, wakeAt[p] - tickCount + Wrap,
                         wakeAt[p] - tickCount - Wrap}
        /\ -Wrap <= 2 * DueIn(p) /\ 2 * DueIn(p) < Wrap
  BY <1>1, DiffValue DEF DueIn
<1>3. \A p \in Proc : DueIn(p) \in Int
  BY <1>1, <1>2 DEF Tick
<1> QED
  BY <1>2, <1>3 DEF Dues

\* The order of a queue depends on the keys of who is in it only.
LEMMA SameOrder ==
    ASSUME NEW q, NEW key, NEW key2, SortedBy(q, key),
           \A p \in Range(q) : key2[p] = key[p]
    PROVE  SortedBy(q, key2)
BY DEF SortedBy, Range

\* The place for a newcomer depends on who of the queue goes ahead only.
LEMMA SamePlace ==
    ASSUME NEW q \in Seq(Proc), NEW p, NEW A, NEW B,
           \A x \in Range(q) : x \in A <=> x \in B
    PROVE  InsertBehind(q, p, A) = InsertBehind(q, p, B)
<1>a. /\ Len(q) \in Nat
      /\ \A i \in 1 .. Len(q) : q[i] \in A <=> q[i] \in B
  BY DEF Range
<1>1. ASSUME NEW k \in 1 .. Len(q) + 1
      PROVE  /\ (\A i \in 1 .. k - 1 : q[i] \in A) <=> (\A i \in 1 .. k - 1 : q[i] \in B)
             /\ (k <= Len(q) => q[k] \notin A) <=> (k <= Len(q) => q[k] \notin B)
  BY <1>a
<1> QED
  BY <1>1 DEF InsertBehind, PlaceBehind

\* While the tick stands, whoever stays on the list in order stays in time.
LEMMA TimeKept ==
    ASSUME TypeOK, TypeOK', InTime, tickCount' = tickCount,
           at = "sleep_clock" => at' = "sleep_clock",
           SortedBy(sleepList', Dues),
           \A p \in Range(sleepList') : p \in Range(sleepList) /\ wakeAt'[p] = wakeAt[p]
    PROVE  InTime'
<1>1. \A p \in Proc : Dues[p] = DueIn(p) /\ Dues'[p] = DueIn(p)'
  BY DEF Dues
<1>2. \A p \in Range(sleepList') : p \in Proc /\ DueIn(p)' = DueIn(p)
  <2>1. sleepList' \in Seq(Proc)
    BY DEF TypeOK
  <2>2. \A p \in Range(sleepList') : p \in Proc
    BY <2>1 DEF Range
  <2> QED
    BY <2>2 DEF DueIn
<1>3. \A p \in Range(sleepList') : Dues'[p] = Dues[p]
  BY <1>1, <1>2
<1>4. SortedBy(sleepList', Dues')
  BY <1>3, SameOrder
<1>5. \A p \in Range(sleepList') : DueIn(p) \in Int
  BY <1>2, DueBounds
<1>6. \A p \in Range(sleepList') :
         IF at' = "sleep_clock" THEN DueIn(p) >= -1 ELSE DueIn(p) >= 0
  BY <1>5 DEF InTime
<1> QED
  BY <1>2, <1>4, <1>6 DEF InTime

\* A new sleeper goes where its ticks put it, whatever is left in wakeAt of
\* those that are not on the list.
LEMMA SleepInTime ==
    ASSUME TypeOK, OneQueue, InTime, NEW c \in Proc, status[c] = "CURR",
           NEW d \in Delay, sleep_enqueue(c, d), tickCount' = tickCount,
           at # "sleep_clock", at' # "sleep_clock"
    PROVE  InTime'
<1> DEFINE w == (tickCount + d) % Wrap
           ahead == {x \in Proc : SignedDiff(wakeAt[x], w) <= 0}
           left == [p \in Proc |-> IF p = c THEN d ELSE DueIn(p)]
           nearer == {x \in Proc : left[x] <= left[c]}
<1>1. /\ sleepList \in Seq(Proc) /\ tickCount \in Tick
      /\ wakeAt \in [Proc -> Tick] /\ c \notin Range(sleepList)
      /\ NoDup(sleepList)
      /\ Wrap \in Nat \ {0} /\ d \in Nat /\ 2 * d < Wrap
  BY TickAssumption DEF TypeOK, OneQueue
<1>2. \A p \in Range(sleepList) : p \in Proc \ {c}
  BY <1>1 DEF Range
<1>3. /\ wakeAt' = [wakeAt EXCEPT ![c] = w]
      /\ sleepList' = InsertBehind(sleepList, c, ahead)
  BY DEF sleep_enqueue
<1>4. w \in Tick /\ SignedDiff(w, tickCount) = d
  BY <1>1, EnqueueDue
<1> HIDE DEF w
<1>5. \A p \in Proc : DueIn(p)' = left[p]
  <2>1. /\ wakeAt'[c] = w
        /\ \A p \in Proc \ {c} : wakeAt'[p] = wakeAt[p]
    BY <1>1, <1>3
  <2>2. DueIn(c)' = d
    BY <1>4, <2>1 DEF DueIn
  <2>3. \A p \in Proc \ {c} : DueIn(p)' = DueIn(p)
    BY <2>1 DEF DueIn
  <2> QED
    BY <2>2, <2>3
<1>6. \A p \in Proc : DueIn(p) \in Int /\ 2 * DueIn(p) < Wrap /\ Dues[p] = DueIn(p)
  BY DueBounds
<1>7. \A p \in Range(sleepList) : DueIn(p) >= 0
  BY DEF InTime
<1>8. left \in [Proc -> Int] /\ left[c] = d
  BY <1>1, <1>6
<1>9. \A x \in Range(sleepList) : x \in ahead <=> x \in nearer
  <2> SUFFICES ASSUME NEW x \in Range(sleepList)
               PROVE  SignedDiff(wakeAt[x], w) <= 0 <=> left[x] <= d
    BY <1>2, <1>8
  <2>1. /\ x \in Proc /\ left[x] = DueIn(x) /\ wakeAt[x] \in Tick
        /\ DueIn(x) \in Int /\ DueIn(x) >= 0 /\ 2 * DueIn(x) < Wrap
    BY <1>1, <1>2, <1>6, <1>7
  <2>2. -Wrap <= 2 * (DueIn(x) - d) /\ 2 * (DueIn(x) - d) < Wrap
    BY <1>1, <2>1
  <2>3. SignedDiff(wakeAt[x], w) = DueIn(x) - d
    BY <1>1, <1>4, <2>1, <2>2, DiffOfDues DEF DueIn
  <2> QED
    BY <1>1, <2>1, <2>3
<1> HIDE DEF ahead, left
<1>10. sleepList' = InsertBehind(sleepList, c, nearer)
  BY <1>1, <1>3, <1>9, SamePlace
<1>11. SortedBy(sleepList, left)
  <2>1. \A p \in Range(sleepList) : left[p] = Dues[p]
    BY <1>2, <1>6 DEF left
  <2> QED
    BY <2>1, SameOrder DEF InTime
<1>12. SortedBy(sleepList', left)
  BY <1>1, <1>8, <1>10, <1>11, InsertBehindOrder
<1>13. Range(sleepList') = Range(sleepList) \cup {c}
  BY <1>1, <1>3, InsertBehindProperties
<1>14. SortedBy(sleepList', Dues')
  <2>1. \A p \in Range(sleepList') : Dues'[p] = left[p]
    BY <1>2, <1>5, <1>13 DEF Dues
  <2> QED
    BY <1>12, <2>1, SameOrder
<1>15. ASSUME NEW p \in Range(sleepList')
       PROVE  /\ DueIn(p)' \in Int /\ DueIn(p)' >= 0 /\ 2 * DueIn(p)' < Wrap
  <2>1. CASE p = c
    BY <1>1, <1>5, <1>8, <2>1
  <2>2. CASE p # c
    <3>1. p \in Range(sleepList) /\ p \in Proc /\ DueIn(p)' = DueIn(p)
      BY <1>2, <1>5, <1>13, <2>2 DEF left
    <3> QED
      BY <1>6, <1>7, <3>1
  <2> QED
    BY <2>1, <2>2
<1>16. \A p, q \in Range(sleepList') : 2 * (DueIn(p)' - DueIn(q)') < Wrap
  BY <1>1, <1>15
<1> QED
  BY <1>14, <1>15, <1>16 DEF InTime

\* A process taken off the list leaves it in order.
LEMMA WokenInTime ==
    ASSUME TypeOK, TypeOK', OneQueue, InTime, tickCount' = tickCount,
           at = "sleep_clock" => at' = "sleep_clock", NEW x,
           \/ sleepList' = proc_remove(sleepList, x)
           \/ sleepList # <<>> /\ x = Head(sleepList) /\ sleepList' = Rest(sleepList),
           wakeAt' = [wakeAt EXCEPT ![x] = 0] \/ wakeAt' = wakeAt
    PROVE  InTime'
<1>1. /\ sleepList \in Seq(Proc) /\ NoDup(sleepList) /\ SortedBy(sleepList, Dues)
      /\ wakeAt \in [Proc -> Tick]
  BY DEF TypeOK, OneQueue, InTime
<1>2. SortedBy(sleepList', Dues) /\ Range(sleepList') = Range(sleepList) \ {x}
  BY <1>1, RemoveOnce, RestOnce
<1>3. \A p \in Range(sleepList') : p \in Range(sleepList) /\ p # x /\ p \in Proc
  BY <1>1, <1>2 DEF Range
<1>4. \A p \in Range(sleepList') : wakeAt'[p] = wakeAt[p]
  BY <1>1, <1>3
<1> QED
  BY <1>2, <1>3, <1>4, TimeKept

LEMMA NobodySleepsOrWakes ==
    ASSUME TypeOK, TypeOK', InTime, UNCHANGED <<sleepList, wakeAt, tickCount>>,
           at = "sleep_clock" => at' = "sleep_clock"
    PROVE  InTime'
<1>1. SortedBy(sleepList', Dues)
  BY DEF InTime
<1> QED
  BY <1>1, TimeKept

LEMMA NextInTime == ClockInv /\ [Next]_vars => InTime'
<1> SUFFICES ASSUME ClockInv, [Next]_vars PROVE InTime'
  OBVIOUS
<1> USE DEF sched_, sync, conds, time, client
<1>0. TypeOK /\ TypeOK' /\ OneQueue /\ CurrRuns /\ CallerRuns /\ InTime
  BY NextType DEF ClockInv, QueueInv, Rows
<1>a. curr \in Proc /\ call.cond \in Cond /\ call.delay \in Delay \cup {Forever}
  BY <1>0 DEF TypeOK
<1>1. ASSUME NEW d \in Delay, Sleep(d) PROVE InTime'
  <2>1. /\ status[curr] = "CURR" /\ at # "sleep_clock" /\ at' # "sleep_clock"
        /\ sleep_enqueue(curr, d) /\ tickCount' = tickCount
    BY <1>0, <1>1 DEF Sleep, Running, CurrRuns
  <2> QED
    BY <1>0, <1>a, <2>1, SleepInTime
<1>2. CASE WaitPark
  <2>1. /\ status[curr] = "CURR" /\ at # "sleep_clock" /\ at' # "sleep_clock"
        /\ tickCount' = tickCount
        /\ IF call.delay # Forever THEN sleep_enqueue(curr, call.delay)
                                   ELSE UNCHANGED <<sleepList, wakeAt>>
    BY <1>0, <1>2 DEF WaitPark, CurrRuns, CallerRuns
  <2>2. CASE call.delay # Forever
    BY <1>0, <1>a, <2>1, <2>2, SleepInTime
  <2>3. CASE call.delay = Forever
    BY <1>0, <2>1, <2>3, NobodySleepsOrWakes
  <2> QED
    BY <2>2, <2>3
<1>3. ASSUME NEW c \in Cond, condQ[c] # <<>>, wake(Head(condQ[c])),
             condQ' = [condQ EXCEPT ![c] = Rest(@)], tickCount' = tickCount,
             at # "sleep_clock"
      PROVE  InTime'
  <2> DEFINE x == Head(condQ[c])
  <2>1. /\ sleepList' = proc_remove(sleepList, x)
        /\ wakeAt' = [wakeAt EXCEPT ![x] = 0] \/ wakeAt' = wakeAt
    BY <1>0, <1>3, WakeEffect
  <2> HIDE DEF x
  <2> QED
    BY <1>0, <1>3, <2>1, WokenInTime
<1>4. ASSUME NEW c \in Cond, CondSignal(c) PROVE InTime'
  <2>1. CASE condQ[c] # <<>>
    BY <1>3, <1>4, <2>1 DEF CondSignal, Running
  <2>2. CASE condQ[c] = <<>>
    BY <1>0, <1>4, <2>2, NobodySleepsOrWakes DEF CondSignal, Running
  <2> QED
    BY <2>1, <2>2
<1>5. CASE WakeAll \/ ScanWake
  <2>1. tickCount' = tickCount /\ at # "sleep_clock"
    BY <1>5 DEF WakeAll, ScanWake
  <2>2. CASE condQ[call.cond] # <<>>
    <3>1. /\ wake(Head(condQ[call.cond]))
          /\ condQ' = [condQ EXCEPT ![call.cond] = Rest(@)]
      BY <1>5, <2>2 DEF WakeAll, ScanWake
    <3> QED
      BY <1>a, <1>3, <2>1, <2>2, <3>1
  <2>3. CASE condQ[call.cond] = <<>>
    <3>1. UNCHANGED <<sleepList, wakeAt>>
      BY <1>5, <2>3 DEF WakeAll, ScanWake
    <3> QED
      BY <1>0, <2>1, <3>1, NobodySleepsOrWakes
  <2> QED
    BY <2>2, <2>3
<1>6. CASE SleepClock
  <2>1. CASE sleepList # <<>> /\ Due(Head(sleepList))
    <3> DEFINE x == Head(sleepList)
    <3>1. /\ sleepList' = Rest(sleepList) /\ wakeAt' = [wakeAt EXCEPT ![x] = 0]
          /\ tickCount' = tickCount /\ at' = at
      BY <1>0, <1>6, <2>1, TimeoutEffect
    <3> HIDE DEF x
    <3>2. x = Head(sleepList) /\ sleepList # <<>>
      BY <2>1 DEF x
    <3> QED
      BY <1>0, <3>1, <3>2, WokenInTime
  <2>2. CASE ~(sleepList # <<>> /\ Due(Head(sleepList)))
    <3>1. UNCHANGED <<sleepList, wakeAt, tickCount>> /\ at' # "sleep_clock"
      BY <1>6, <2>2 DEF SleepClock
    <3>2. \A p \in Proc : DueIn(p)' = DueIn(p) /\ Dues'[p] = Dues[p]
      BY <3>1 DEF DueIn, Dues
    <3>3. \A p \in Range(sleepList) : p \in Proc
      BY <1>0 DEF TypeOK, Range
    <3>4. ASSUME NEW p \in Range(sleepList) PROVE DueIn(p) >= 0
      <4>1. /\ sleepList \in Seq(Proc) /\ sleepList # <<>> /\ Len(sleepList) \in Nat
            /\ 1 \in DOMAIN sleepList /\ Head(sleepList) = sleepList[1]
        BY <1>0, <3>4 DEF TypeOK, Range
      <4>2. PICK j \in DOMAIN sleepList : sleepList[j] = p
        BY DEF Range
      <4>3. Dues[sleepList[1]] <= Dues[p]
        <5>1. CASE j = 1
          BY <1>0, <3>3, <4>2, <5>1, DueBounds
        <5>2. CASE j # 1
          BY <1>0, <4>1, <4>2, <5>2 DEF InTime, SortedBy
        <5> QED
          BY <5>1, <5>2
      <4>4. sleepList[1] \in Proc /\ p \in Proc
        BY <3>3, <4>1
      <4>5. ~(DueIn(sleepList[1]) <= 0)
        BY <2>2, <4>1 DEF Due, DueIn
      <4>6. /\ DueIn(p) \in Int /\ DueIn(sleepList[1]) \in Int
            /\ DueIn(sleepList[1]) <= DueIn(p)
        BY <1>0, <4>3, <4>4, DueBounds
      <4> QED
        BY <4>5, <4>6
    <3>5. SortedBy(sleepList', Dues')
      BY <1>0, <3>1, <3>2, <3>3, SameOrder DEF InTime
    <3> QED
      BY <1>0, <3>1, <3>2, <3>3, <3>4, <3>5 DEF InTime
  <2> QED
    BY <2>1, <2>2
<1>7. CASE TimerIntr
  <2>1. /\ at = "user" /\ at' = "sleep_clock" /\ UNCHANGED <<sleepList, wakeAt>>
        /\ tickCount' = (tickCount + 1) % Wrap
    BY <1>7 DEF TimerIntr
  <2>2. /\ tickCount \in Tick /\ Wrap \in Nat \ {0}
        /\ \A p \in Range(sleepList) : p \in Proc
    <3>1. \A p \in Range(sleepList) : p \in Proc
      BY <1>0 DEF TypeOK, Range
    <3> QED
      BY <1>0, <3>1, TickAssumption DEF TypeOK
  <2>3. \A p \in Range(sleepList) :
          /\ DueIn(p) \in Int /\ DueIn(p) >= 0
          /\ DueIn(p)' = IF Wrap = 1 THEN DueIn(p) ELSE DueIn(p) - 1
          /\ Dues[p] = DueIn(p) /\ Dues'[p] = DueIn(p)'
    <3> SUFFICES ASSUME NEW p \in Range(sleepList)
                 PROVE  /\ DueIn(p) \in Int /\ DueIn(p) >= 0
                        /\ DueIn(p)' = IF Wrap = 1 THEN DueIn(p) ELSE DueIn(p) - 1
                        /\ Dues[p] = DueIn(p) /\ Dues'[p] = DueIn(p)'
      OBVIOUS
    <3>1. p \in Proc /\ wakeAt[p] \in Tick /\ wakeAt'[p] = wakeAt[p]
      BY <1>0, <2>1, <2>2 DEF TypeOK
    <3>2. DueIn(p) \in Int /\ DueIn(p) >= 0
      BY <1>0, <2>1, <3>1, DueBounds DEF InTime
    <3>3. SignedDiff(wakeAt[p], (tickCount + 1) % Wrap) =
             IF Wrap = 1 THEN SignedDiff(wakeAt[p], tickCount)
             ELSE SignedDiff(wakeAt[p], tickCount) - 1
      BY <2>2, <3>1, <3>2, TickDue DEF DueIn
    <3>4. DueIn(p)' = IF Wrap = 1 THEN DueIn(p) ELSE DueIn(p) - 1
      BY <2>1, <3>1, <3>3 DEF DueIn
    <3> QED
      BY <3>1, <3>2, <3>4 DEF Dues
  <2>4. SortedBy(sleepList', Dues')
    <3> SUFFICES ASSUME NEW i \in DOMAIN sleepList, NEW j \in DOMAIN sleepList, i < j
                 PROVE  Dues'[sleepList[i]] <= Dues'[sleepList[j]]
      BY <2>1 DEF SortedBy
    <3>1. sleepList[i] \in Range(sleepList) /\ sleepList[j] \in Range(sleepList)
      BY DEF Range
    <3>2. Dues[sleepList[i]] <= Dues[sleepList[j]]
      BY <1>0 DEF InTime, SortedBy
    <3> QED
      BY <2>3, <3>1, <3>2
  <2>5. \A p \in Range(sleepList) : DueIn(p)' >= -1
    BY <2>3
  <2>6. \A p, q \in Range(sleepList) : 2 * (DueIn(p)' - DueIn(q)') < Wrap
    <3> SUFFICES ASSUME NEW p \in Range(sleepList), NEW q \in Range(sleepList)
                 PROVE  2 * (DueIn(p)' - DueIn(q)') < Wrap
      OBVIOUS
    <3>1. 2 * (DueIn(p) - DueIn(q)) < Wrap
      BY <1>0 DEF InTime
    <3>2. DueIn(p)' - DueIn(q)' = DueIn(p) - DueIn(q)
      BY <2>2, <2>3
    <3> QED
      BY <3>1, <3>2
  <2> QED
    BY <2>1, <2>4, <2>5, <2>6 DEF InTime
<1>8. CASE \/ \E s \in Semaphore : SemWait(s)
           \/ SemWaitReturn
           \/ \E s \in Counting : SemSignal(s)
           \/ \E m \in Mutex : MutexUnlock(m)
           \/ \E c \in Cond, m \in Mutex \cup {MutexNone}, d \in Delay \cup {Forever} :
                 CondWait(c, m, d)
           \/ WaitReturn \/ SleepReturn
           \/ \E c \in Cond : CondBroadcast(c)
  <2>1. UNCHANGED <<sleepList, wakeAt, tickCount>> /\ at = "user"
    BY <1>8 DEF SemWait, SemWaitReturn, SemSignal, MutexUnlock, CondWait,
                WaitReturn, SleepReturn, CondBroadcast, Running
  <2> QED
    BY <1>0, <2>1, NobodySleepsOrWakes
<1>9. CASE \/ WaitClear \/ CondClock \/ Scan \/ Sched
           \/ \E c \in IsrCond : CondSignalIsr(c)
           \/ \E c \in NmiCond : CondSignalNmi(c)
           \/ UNCHANGED vars
  <2>1. /\ UNCHANGED <<sleepList, wakeAt, tickCount>>
        /\ at = "sleep_clock" => at' = at
    BY <1>9 DEF WaitClear, CondClock, Scan, Sched, CondSignalIsr, CondSignalNmi, vars
  <2> QED
    BY <1>0, <2>1, NobodySleepsOrWakes
<1> QED
  BY <1>1, <1>2, <1>4, <1>5, <1>6, <1>7, <1>8, <1>9
  DEF Next, Process, Masked, Interrupt

(* The sleep list is in wake order, compared as sleep_clock and             *)
(* sleep_enqueue compare it, however often tick_count wraps, and nobody on  *)
(* it is overdue once the tick has been handled.                            *)
THEOREM SleepListInOrder == Spec => []SleepOrdered
<1>1. Init => ClockInv
  <2> SUFFICES ASSUME Init PROVE InTime
    BY InitQueues DEF ClockInv
  <2>1. sleepList = <<>> /\ Range(sleepList) = {}
    BY EmptyKeeps DEF Init
  <2> QED
    BY <2>1 DEF InTime, SortedBy
<1>2. ClockInv /\ [Next]_vars => ClockInv'
  BY NextQueues, NextInTime DEF ClockInv
<1>3. ClockInv => SleepOrdered
  <2> SUFFICES ASSUME ClockInv PROVE SleepOrdered
    OBVIOUS
  <2>1. TypeOK /\ InTime
    BY DEF ClockInv, QueueInv
  <2>2. /\ \A i \in DOMAIN sleepList : sleepList[i] \in Proc
        /\ tickCount \in Tick /\ \A p \in Proc : wakeAt[p] \in Tick
        /\ Wrap \in Nat \ {0}
    BY <2>1, TickAssumption DEF TypeOK
  <2>3. ASSUME NEW i \in DOMAIN sleepList, NEW j \in DOMAIN sleepList, i < j
        PROVE  SignedDiff(wakeAt[sleepList[i]], wakeAt[sleepList[j]]) <= 0
    <3> DEFINE x == sleepList[i]
               y == sleepList[j]
    <3>1. x \in Range(sleepList) /\ y \in Range(sleepList) /\ x \in Proc /\ y \in Proc
      BY <2>2 DEF Range
    <3>2. Dues[x] <= Dues[y]
      BY <2>1, <2>3 DEF InTime, SortedBy
    <3> HIDE DEF x, y
    <3>3. /\ DueIn(x) \in Int /\ DueIn(y) \in Int /\ DueIn(x) <= DueIn(y)
          /\ 2 * (DueIn(y) - DueIn(x)) < Wrap
      BY <2>1, <3>1, <3>2, DueBounds DEF InTime
    <3>4. -Wrap <= 2 * (DueIn(x) - DueIn(y)) /\ 2 * (DueIn(x) - DueIn(y)) < Wrap
      BY <2>2, <3>3
    <3>5. SignedDiff(wakeAt[x], wakeAt[y]) = DueIn(x) - DueIn(y)
      BY <2>2, <3>1, <3>4, DiffOfDues DEF DueIn
    <3>6. SignedDiff(wakeAt[x], wakeAt[y]) <= 0
      BY <3>3, <3>5
    <3> QED
      BY <3>6 DEF x, y
  <2>4. ASSUME at = "user", NEW p \in Range(sleepList)
        PROVE  SignedDiff(wakeAt[p], tickCount) >= 0
    BY <2>1, <2>4 DEF InTime, DueIn
  <2> QED
    BY <2>3, <2>4 DEF SleepOrdered
<1> QED
  BY <1>1, <1>2, <1>3, PTL DEF Spec
=============================================================================
