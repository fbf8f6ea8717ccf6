------------------------------ MODULE ProcLife ------------------------------
(***************************************************************************)
(* The life of a process (get_pid.c, create.c, start_proc.c) on the heap   *)
(* its stack comes from, under the sweep of sched.c that reboots the       *)
(* machine when a stack's lowest word no longer holds its canary.          *)
(*                                                                         *)
(* create() runs with interrupts open, so a tick - and with it a sweep and *)
(* a switch to any other ready process - falls between any two of its      *)
(* steps.  Which ready process runs is left open here (module Kernel       *)
(* decides it by priority).                                                *)
(***************************************************************************)
EXTENDS Heap

CONSTANTS
    NumProc,     \* NUM_PROC
    Spawners,    \* the processes that call spawn()
    Lasting,     \* the processes whose function never returns
    StackSizes,  \* the stack_size arguments
    DataSizes    \* the sizes other code passes to alloc()

Pid == 0 .. NumProc - 1
NullProc == 0
Main == 1
Junk == NumProc   \* a word that is no process's canary

ASSUME LifeAssumption ==
    /\ NumProc \in Nat /\ NumProc > 1
    /\ Main \in Lasting /\ NullProc \in Lasting
    /\ Spawners \subseteq Pid \ {NullProc}
    /\ StackSizes \subseteq Nat /\ DataSizes \subseteq Nat

VARIABLES
    status,      \* proctab[p].status; what a process blocks on is not told apart
    stk_base,    \* proctab[p].stk_base, the address of a block (0: NULL)
    ready,       \* the processes linked on avail_list
    curr,        \* curr_pid
    rebooted,    \* the sweep has found a smashed canary
    freelist,    \* the free list
    used,        \* the blocks handed out
    word,        \* by block address: the pid whose canary the word holds
    data,        \* blocks held by other code
    pc, row, stk \* a spawner's place in create(), its pid and its new stack

table == <<status, stk_base>>
run == <<ready, curr, rebooted>>
heap == <<freelist, used, word, data>>
local == <<pc, row, stk>>
vars == <<status, stk_base, ready, curr, rebooted, freelist, used, word, data,
          pc, row, stk>>

Step == {"run", "scan", "claim", "alloc", "unclaim", "publish", "base",
         "canary", "ready"}

-----------------------------------------------------------------------------
(* sched().                                                                *)

\* The sweep's test, on the table and the memory as they are in st and w.
Smashed(st, w) ==
    \E p \in Pid : st[p] # "UNUSED" /\ stk_base[p] # 0 /\ w[stk_base[p]] # p

\* sched() with the rows in st, the memory in w and `others' on the list.
sched(st, w, others) ==
    IF Smashed(st, w)
    THEN rebooted' = TRUE /\ status' = st /\ ready' = others /\ UNCHANGED curr
    ELSE /\ UNCHANGED rebooted
         /\ LET back == IF st[curr] = "CURR" THEN others \cup {curr} ELSE others
                old == IF st[curr] = "CURR" THEN [st EXCEPT ![curr] = "AVAIL"]
                                            ELSE st
            IN  \E next \in IF back = {} THEN {NullProc} ELSE back :
                    /\ curr' = next
                    /\ ready' = back \ {next}
                    /\ status' = [old EXCEPT ![next] = "CURR"]

\* The tick, or any other way the current process loses the processor.
Preempt ==
    /\ ~rebooted
    /\ sched(status, word, ready)
    /\ UNCHANGED <<stk_base, heap, local>>

-----------------------------------------------------------------------------
(* create() and spawn(), one step where the code may be preempted.         *)

Running(p, s) == ~rebooted /\ curr = p /\ pc[p] = s

Goto(p, s) == pc' = [pc EXCEPT ![p] = s]

Spawn(p) ==
    /\ p \in Spawners /\ Running(p, "run")
    /\ Goto(p, "scan") /\ row' = [row EXCEPT ![p] = 1]
    /\ UNCHANGED <<table, run, heap, stk>>

\* get_pid's test of one row; -1 when there is none left.
ScanRow(p) ==
    /\ Running(p, "scan")
    /\ IF row[p] = NumProc
       THEN Goto(p, "run") /\ row' = [row EXCEPT ![p] = 0]
       ELSE IF status[row[p]] = "UNUSED"
       THEN Goto(p, "claim") /\ UNCHANGED row
       ELSE row' = [row EXCEPT ![p] = @ + 1] /\ UNCHANGED pc
    /\ UNCHANGED <<table, run, heap, stk>>

ClaimRow(p) ==
    /\ Running(p, "claim")
    /\ status' = [status EXCEPT ![row[p]] = "UNAVAIL"]
    /\ Goto(p, "alloc")
    /\ UNCHANGED <<stk_base, run, heap, row, stk>>

AllocStack(p, n) ==
    /\ Running(p, "alloc")
    /\ LET got == last_fit(freelist, BlockSize(n))
       IN  IF got.block = NoBlock
           THEN Goto(p, "unclaim") /\ UNCHANGED <<heap, stk>>
           ELSE /\ freelist' = got.free
                /\ used' = used \cup {got.block}
                /\ stk' = [stk EXCEPT ![p] = got.block.addr]
                /\ Goto(p, "publish")
                /\ UNCHANGED <<word, data>>
    /\ UNCHANGED <<table, run, row>>

\* Wrong: create() gives up without giving the row back.
UnclaimRow_Lost(p) ==
    /\ Running(p, "unclaim")
    /\ Goto(p, "run") /\ row' = [row EXCEPT ![p] = 0]
    /\ UNCHANGED <<table, run, heap, stk>>

UnclaimRow(p) ==
    /\ Running(p, "unclaim")
    /\ status' = [status EXCEPT ![row[p]] = "UNUSED"]
    /\ Goto(p, "run") /\ row' = [row EXCEPT ![p] = 0]
    /\ UNCHANGED <<stk_base, run, heap, stk>>

Publish(p) ==
    /\ Running(p, "publish")
    /\ status' = [status EXCEPT ![row[p]] = "AVAIL"]
    /\ Goto(p, "base")
    /\ UNCHANGED <<stk_base, run, heap, row, stk>>

SetBase(p) ==
    /\ Running(p, "base")
    /\ stk_base' = [stk_base EXCEPT ![row[p]] = stk[p]]
    /\ Goto(p, "canary")
    /\ UNCHANGED <<status, run, heap, row, stk>>

\* Wrong: the word is left as the allocator handed it out.
SetCanary_Left(p) ==
    /\ Running(p, "canary")
    /\ Goto(p, "ready")
    /\ UNCHANGED <<table, run, heap, row, stk>>

SetCanary(p) ==
    /\ Running(p, "canary")
    /\ word' = [word EXCEPT ![stk_base[row[p]]] = row[p]]
    /\ Goto(p, "ready")
    /\ UNCHANGED <<table, run, freelist, used, data, row, stk>>

\* spawn's make_avail.
MakeAvail(p) ==
    /\ Running(p, "ready")
    /\ status' = [status EXCEPT ![row[p]] = "AVAIL"]
    /\ ready' = ready \cup {row[p]}
    /\ Goto(p, "run")
    /\ row' = [row EXCEPT ![p] = 0] /\ stk' = [stk EXCEPT ![p] = 0]
    /\ UNCHANGED <<stk_base, curr, rebooted, heap>>

-----------------------------------------------------------------------------
(* start_proc: the function has returned.                                  *)

\* free() puts the block on the list, its first word now a list pointer.
Freed(b, w) == [w EXCEPT ![b.addr] = Junk]

BlockAt(a) == CHOOSE b \in used : b.addr = a

\* Wrong: the stack is not given back.
Exit_Leak(p) ==
    /\ p \notin Lasting /\ Running(p, "run")
    /\ UNCHANGED heap
    /\ sched([status EXCEPT ![p] = "UNUSED"], word, ready)
    /\ UNCHANGED <<stk_base, local>>

Exit(p) ==
    /\ p \notin Lasting /\ Running(p, "run")
    /\ LET b == BlockAt(stk_base[p])
           w == Freed(b, word)
       IN  /\ freelist' = insert_free(freelist, b)
           /\ used' = used \ {b}
           /\ word' = w
           /\ sched([status EXCEPT ![p] = "UNUSED"], w, ready)
    /\ UNCHANGED <<stk_base, data, local>>

\* Another block of the heap comes and goes (alloc and free); its owner
\* writes over its first word.
AllocData(n) ==
    /\ ~rebooted
    /\ LET got == first_fit(freelist, BlockSize(n))
       IN  /\ got.block # NoBlock
           /\ freelist' = got.free
           /\ used' = used \cup {got.block}
           /\ data' = data \cup {got.block}
           /\ word' = Freed(got.block, word)
    /\ UNCHANGED <<table, run, local>>

FreeData(b) ==
    /\ ~rebooted
    /\ freelist' = insert_free(freelist, b)
    /\ used' = used \ {b} /\ data' = data \ {b}
    /\ word' = Freed(b, word)
    /\ UNCHANGED <<table, run, local>>

-----------------------------------------------------------------------------
\* The first tick comes: main has been spawned on a stack from the high end.
\* HeapEnd stands for where the null process's stack begins, which start()
\* takes there first and nobody frees.  The servicer, the tcp timer and the
\* other processes that start() spawns before the tick are among main's spawns.
MainStack(n) == last_fit(initmem, BlockSize(n))

Init ==
    \E n \in StackSizes :
        /\ MainStack(n).block # NoBlock
        /\ status = [p \in Pid |-> CASE p = NullProc -> "CURR"
                                     [] p = Main -> "AVAIL"
                                     [] OTHER -> "UNUSED"]
        /\ stk_base = [p \in Pid |-> IF p = Main THEN MainStack(n).block.addr ELSE 0]
        /\ ready = {Main} /\ curr = NullProc /\ rebooted = FALSE
        /\ freelist = MainStack(n).free
        /\ used = {MainStack(n).block}
        /\ word = [a \in HeapStart .. HeapEnd |->
                      IF a = MainStack(n).block.addr THEN Main ELSE Junk]
        /\ data = {}
        /\ pc = [p \in Pid |-> "run"]
        /\ row = [p \in Pid |-> 0]
        /\ stk = [p \in Pid |-> 0]

Create(p) ==
    \/ Spawn(p) \/ ScanRow(p) \/ ClaimRow(p)
    \/ \E n \in StackSizes : AllocStack(p, n)
    \/ UnclaimRow(p) \/ Publish(p) \/ SetBase(p) \/ SetCanary(p) \/ MakeAvail(p)

Next ==
    \/ Preempt
    \/ \E p \in Pid : Create(p) \/ Exit(p)
    \/ \E n \in DataSizes : AllocData(n)
    \/ \E b \in data : FreeData(b)

Spec == Init /\ [][Next]_vars

-----------------------------------------------------------------------------
(* Properties.                                                             *)

\* The process table, the lists and the spawners' locals have their types.
TypeOK ==
    /\ status \in [Pid -> {"UNUSED", "UNAVAIL", "AVAIL", "CURR"}]
    /\ stk_base \in [Pid -> {0} \cup HeapStart .. HeapEnd]
    /\ ready \subseteq Pid /\ curr \in Pid /\ rebooted \in BOOLEAN
    /\ freelist \in Seq(Block) /\ used \subseteq Block /\ data \subseteq used
    /\ word \in [HeapStart .. HeapEnd -> Pid \cup {Junk}]
    /\ pc \in [Pid -> Step] /\ row \in [Pid -> 0 .. NumProc]
    /\ stk \in [Pid -> {0} \cup HeapStart .. HeapEnd]

\* The free list is in address order with no two neighbours touching, and
\* the free and the used blocks tile the heap, every byte of it in exactly one
\* of them: nothing is lost, nothing is handed out twice, through any order of
\* spawns, exits and allocations.
HeapTiled ==
    LET blocks == Range(freelist) \cup used
    IN  /\ \A i \in DOMAIN freelist : i + 1 \in DOMAIN freelist =>
              EndOf(freelist[i]) < freelist[i + 1].addr
        /\ \A a \in blocks : a.size >= MinAlloc /\ a.size % Granule = 0
        /\ \A a, b \in blocks : a = b \/ EndOf(a) <= b.addr \/ EndOf(b) <= a.addr
        /\ \A i \in DOMAIN freelist : freelist[i] \notin used
        /\ \A x \in HeapStart .. HeapEnd - 1 :
              \E b \in blocks : b.addr <= x /\ x < EndOf(b)

\* A process that may run has a stack block of its own with its canary in
\* it, so the processor never switches to a row create() has not finished.
RunsOnOwnStack ==
    \A p \in (ready \cup {curr}) \ {NullProc} : ~rebooted /\ status[p] # "UNUSED" =>
        /\ \E b \in used \ data : b.addr = stk_base[p]
        /\ word[stk_base[p]] = p
        /\ \A q \in (ready \cup {curr}) \ {NullProc, p} : stk_base[q] # stk_base[p]

\* No stack is leaked: a block that is not some code's data belongs to a
\* live row or to a create() still to record it.
StacksAccounted ==
    ~rebooted => \A b \in used \ data :
        \/ \E p \in Pid : status[p] # "UNUSED" /\ stk_base[p] = b.addr
        \/ \E p \in Spawners : pc[p] \in {"publish", "base"} /\ stk[p] = b.addr

\* sched.c's sweep reboots for a smashed canary only: no process of this
\* model overruns its stack, so the machine never reboots.
NoFalseReboot == ~rebooted

\* A row create() has claimed is in nobody's hands until spawn() makes it
\* available: not on the ready list and not running, whatever tick falls
\* between two of create()'s stores.  And a row is UNAVAIL only for a create()
\* under way, so one whose stack could not be had comes back.
RowExclusive ==
    /\ \A p \in Spawners :
          pc[p] \in {"alloc", "unclaim", "publish", "base", "canary", "ready"} =>
              row[p] \notin ready \cup {curr}
    /\ \A q \in Pid : status[q] = "UNAVAIL" =>
          \E p \in Spawners : row[p] = q /\ pc[p] \in {"alloc", "unclaim", "publish"}
=============================================================================
