------------------------------ MODULE MCKernel ------------------------------
(* A small kernel for TLC: the null process, two processes of one priority *)
(* and one above them.                                                     *)
EXTENDS Kernel, TLC

CONSTANTS idle, lo1, lo2, hi, mtx, sem

MCProc == {idle, lo1, lo2, hi}
MCPrio == idle :> 0 @@ lo1 :> 1 @@ lo2 :> 1 @@ hi :> 2
\* Liveness is checked with two equal processes and no symmetry.
MCPair == {idle, lo1, lo2}
MCPairPrio == idle :> 0 @@ lo1 :> 1 @@ lo2 :> 1
MCAnyWaiters == [c \in Cond |-> Proc]
\* Condition 1 is the NMI's, with the one waiter that wifi_rx and wifi_tx
\* give theirs.
MCOneWaiter == 0 :> Proc @@ 1 :> {lo1}
MCSymmetry == Permutations({lo1, lo2})
\* timed_out is cleared when wait() parks and read when it returns: what an
\* earlier wait or a sleep has left in it decides nothing.
MCView == <<status, curr, needResched, avail, count, semQ, condQ, pending,
            nmiPending, sleepList, wakeAt, tickCount,
            [p \in Proc |-> timedOut[p] /\ op[p] = "cond_wait"],
            at, call, op, lockOf, holds>>
=============================================================================
