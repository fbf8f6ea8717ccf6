-------------------------------- MODULE Uart --------------------------------
(***************************************************************************)
(* The uart0 device (src/device/uart): the interrupt handler that moves    *)
(* received bytes from the hardware fifo into rx_ring, uart_read and       *)
(* uart_write, and the one condition, uart_dev->cond, that the handler     *)
(* signals for both directions.                                            *)
(*                                                                         *)
(* The condition is the kernel's (module Kernel): cond_wait takes a        *)
(* pending signal or parks and releases the mutex in one masked step,      *)
(* cond_signal_isr sets pending and wakes everybody parked.  Processes are *)
(* preemptive, so any of them may take the next step whenever the handler  *)
(* is not running; the hardware moves at any time, inside the handler too. *)
(* Received bytes are numbered in the order of their arrival.              *)
(***************************************************************************)
EXTENDS Integers, SequencesExt

CONSTANTS
    Readers,     \* processes that call read() on the descriptor
    Writers,     \* processes that call write() on it
    RingSize,    \* RX_RING_SIZE, a power of two
    CounterWrap, \* rx_head and rx_tail are unsigneds of this many values
    RxFifoSize,  \* the receive fifo of the hardware
    TxFifoSize,  \* TX_FIFO_SIZE
    TxEmptyAt,   \* TX_EMPTY_THRESHOLD
    ReadMax,     \* n of a read()
    WriteLen,    \* n of a write()
    MaxBytes,    \* bound on the bytes received in a run
    Nobody       \* no process: the mutex is free

Users == Readers \cup Writers
Slot == 0 .. RingSize - 1
Counter == 0 .. CounterWrap - 1

ASSUME UartAssumption ==
    /\ RingSize \in Nat \ {0}
    /\ CounterWrap \in Nat /\ CounterWrap > RingSize
    /\ CounterWrap % RingSize = 0
    /\ {RxFifoSize, TxFifoSize, ReadMax, WriteLen} \subseteq Nat \ {0}
    /\ TxEmptyAt \in 0 .. TxFifoSize - 1
    /\ MaxBytes \in Nat
    /\ Nobody \notin Users

VARIABLES
    arrived,     \* bytes the line has delivered so far
    rxFifo,      \* the receive fifo, a sequence of byte numbers
    rxEvent,     \* an rx interrupt (full, timeout, overflow) is latched
    txFifo,      \* bytes in the transmit fifo
    txArmed,     \* int_enable.txfifo_empty
    isr,         \* where uart_intr stands, or "none"
    txDrained,   \* tx_drained of uart_intr
    received,    \* received of uart_intr
    rx_ring, rx_head, rx_tail,
    rx_mutex, tx_mutex,   \* the holder, or Nobody
    pending,     \* condtab[uart_dev->cond].pending
    pc,          \* where a process stands
    left,        \* bytes its read() may still copy, or its write() must send
    out,         \* the byte copied last by a read still to advance rx_tail
    lastRead     \* number of the last byte a read() returned

hw == <<arrived, rxFifo, rxEvent, txFifo>>
handler == <<isr, txDrained, received>>
ring == <<rx_ring, rx_head, rx_tail>>
locks == <<rx_mutex, tx_mutex>>
local == <<pc, left, out, lastRead>>
vars == <<arrived, rxFifo, rxEvent, txFifo, txArmed, isr, txDrained, received,
          rx_ring, rx_head, rx_tail, rx_mutex, tx_mutex, pending, pc, left,
          out, lastRead>>

Queued(h, t) == (h - t) % CounterWrap

\* Wrong: the index is computed in a wider type.
Next1_Wide(c) == c + 1

Next1(c) == (c + 1) % CounterWrap

-----------------------------------------------------------------------------
(* The condition.                                                          *)

Parked == {"rx_parked", "tx_parked"}
Woken(s) == CASE s = "rx_parked" -> "rx_lock"
              [] s = "tx_parked" -> "tx_lock"
              [] OTHER -> s

\* Wrong: the signal is not remembered.
cond_signal_isr_Unlatched ==
    /\ pending' = pending
    /\ pc' = [p \in Users |-> Woken(pc[p])]

cond_signal_isr ==
    /\ pending' = TRUE
    /\ pc' = [p \in Users |-> Woken(pc[p])]

\* cond_wait: p goes back to `again' with its mutex, or parks without it.
cond_wait(p, again, parked, mutex) ==
    IF pending
    THEN pending' = FALSE /\ pc' = [pc EXCEPT ![p] = again] /\ mutex' = mutex
    ELSE pending' = FALSE /\ pc' = [pc EXCEPT ![p] = parked] /\ mutex' = Nobody

-----------------------------------------------------------------------------
(* The hardware.                                                           *)

RxByte ==
    /\ arrived < MaxBytes
    /\ arrived' = arrived + 1
    /\ IF Len(rxFifo) < RxFifoSize
       THEN rxFifo' = Append(rxFifo, arrived + 1) /\ UNCHANGED rxEvent
       ELSE rxEvent' = TRUE /\ UNCHANGED rxFifo
    /\ UNCHANGED <<txFifo, txArmed, handler, ring, locks, pending, local>>

\* Bytes in the fifo reach the threshold or wait for the timeout.
RxEvent ==
    /\ rxFifo # <<>> /\ ~rxEvent
    /\ rxEvent' = TRUE
    /\ UNCHANGED <<arrived, rxFifo, txFifo, txArmed, handler, ring, locks,
                   pending, local>>

TxByte ==
    /\ txFifo > 0
    /\ txFifo' = txFifo - 1
    /\ UNCHANGED <<arrived, rxFifo, rxEvent, txArmed, handler, ring, locks,
                   pending, local>>

-----------------------------------------------------------------------------
(* uart_intr.                                                              *)

TxEmptyStatus == txArmed /\ txFifo <= TxEmptyAt

IsrEnter ==
    /\ isr = "none" /\ (rxEvent \/ TxEmptyStatus)
    /\ txDrained' = TxEmptyStatus
    /\ rxEvent' = FALSE
    /\ isr' = "tx"
    /\ UNCHANGED <<arrived, rxFifo, txFifo, txArmed, received, ring, locks,
                   pending, local>>

IsrTx ==
    /\ isr = "tx"
    /\ IF txDrained
       THEN txArmed' = FALSE /\ cond_signal_isr
       ELSE UNCHANGED <<txArmed, pending, pc>>
    /\ isr' = "sample"
    /\ UNCHANGED <<hw, txDrained, received, ring, locks, left, out, lastRead>>

IsrSample ==
    /\ isr = "sample"
    /\ received' = (rxFifo # <<>>)
    /\ isr' = "drain"
    /\ UNCHANGED <<hw, txArmed, txDrained, ring, locks, pending, local>>

\* Wrong: the ring takes one byte more than it has room for.
IsrDrain_Overfull ==
    /\ isr = "drain"
    /\ IF rxFifo # <<>>
       THEN /\ rxFifo' = Tail(rxFifo)
            /\ IF Queued(rx_head, rx_tail) <= RingSize
               THEN /\ rx_ring' = [rx_ring EXCEPT ![rx_head % RingSize] = Head(rxFifo)]
                    /\ rx_head' = Next1(rx_head)
               ELSE UNCHANGED <<rx_ring, rx_head>>
            /\ UNCHANGED isr
       ELSE isr' = "signal" /\ UNCHANGED <<rxFifo, rx_ring, rx_head>>
    /\ UNCHANGED <<arrived, rxEvent, txFifo, txArmed, txDrained, received,
                   rx_tail, locks, pending, local>>

\* One turn of the drain loop; a byte that finds the ring full is dropped.
IsrDrain ==
    /\ isr = "drain"
    /\ IF rxFifo # <<>>
       THEN /\ rxFifo' = Tail(rxFifo)
            /\ IF Queued(rx_head, rx_tail) < RingSize
               THEN /\ rx_ring' = [rx_ring EXCEPT ![rx_head % RingSize] = Head(rxFifo)]
                    /\ rx_head' = Next1(rx_head)
               ELSE UNCHANGED <<rx_ring, rx_head>>
            /\ UNCHANGED isr
       ELSE isr' = "signal" /\ UNCHANGED <<rxFifo, rx_ring, rx_head>>
    /\ UNCHANGED <<arrived, rxEvent, txFifo, txArmed, txDrained, received,
                   rx_tail, locks, pending, local>>

IsrSignal ==
    /\ isr = "signal"
    /\ IF received THEN cond_signal_isr ELSE UNCHANGED <<pending, pc>>
    /\ isr' = "none" /\ txDrained' = FALSE /\ received' = FALSE
    /\ UNCHANGED <<hw, txArmed, ring, locks, left, out, lastRead>>

-----------------------------------------------------------------------------
(* uart_read.                                                              *)

At(p, place) == isr = "none" /\ pc[p] = place
Goto(p, place) == pc' = [pc EXCEPT ![p] = place]

Read(p) ==
    /\ p \in Readers /\ At(p, "idle")
    /\ Goto(p, "rx_lock")
    /\ left' = [left EXCEPT ![p] = ReadMax]
    /\ UNCHANGED <<hw, txArmed, handler, ring, locks, pending, out, lastRead>>

RxLock(p) ==
    /\ At(p, "rx_lock") /\ rx_mutex = Nobody
    /\ rx_mutex' = p /\ Goto(p, "rx_check")
    /\ UNCHANGED <<hw, txArmed, handler, ring, tx_mutex, pending, left, out,
                   lastRead>>

\* while (rx_head == rx_tail)
RxCheck(p) ==
    /\ At(p, "rx_check")
    /\ Goto(p, IF rx_head = rx_tail THEN "rx_wait" ELSE "rx_copy")
    /\ UNCHANGED <<hw, txArmed, handler, ring, locks, pending, left, out,
                   lastRead>>

RxWait(p) ==
    /\ At(p, "rx_wait")
    /\ cond_wait(p, "rx_check", "rx_parked", rx_mutex)
    /\ UNCHANGED <<hw, txArmed, handler, ring, tx_mutex, left, out, lastRead>>

\* The copy loop: fetch a byte, or unlock and return.
RxCopy(p) ==
    /\ At(p, "rx_copy")
    /\ IF left[p] > 0 /\ rx_head # rx_tail
       THEN /\ out' = [out EXCEPT ![p] = rx_ring[rx_tail % RingSize]]
            /\ Goto(p, "rx_advance")
            /\ UNCHANGED <<rx_mutex, left>>
       ELSE /\ rx_mutex' = Nobody /\ Goto(p, "idle")
            /\ left' = [left EXCEPT ![p] = 0]
            /\ UNCHANGED out
    /\ UNCHANGED <<hw, txArmed, handler, ring, tx_mutex, pending, lastRead>>

RxAdvance(p) ==
    /\ At(p, "rx_advance")
    /\ rx_tail' = Next1(rx_tail)
    /\ left' = [left EXCEPT ![p] = @ - 1]
    /\ lastRead' = out[p]
    /\ out' = [out EXCEPT ![p] = 0]
    /\ Goto(p, "rx_copy")
    /\ UNCHANGED <<hw, txArmed, handler, rx_ring, rx_head, locks, pending>>

-----------------------------------------------------------------------------
(* uart_write.                                                             *)

Write(p) ==
    /\ p \in Writers /\ At(p, "idle")
    /\ Goto(p, "tx_lock")
    /\ left' = [left EXCEPT ![p] = WriteLen]
    /\ UNCHANGED <<hw, txArmed, handler, ring, locks, pending, out, lastRead>>

TxLock(p) ==
    /\ At(p, "tx_lock") /\ tx_mutex = Nobody
    /\ tx_mutex' = p /\ Goto(p, "tx_fill")
    /\ UNCHANGED <<hw, txArmed, handler, ring, rx_mutex, pending, left, out,
                   lastRead>>

\* The fill loop; then return, or arm the interrupt.
TxFill(p) ==
    /\ At(p, "tx_fill")
    /\ IF left[p] > 0 /\ txFifo < TxFifoSize
       THEN /\ txFifo' = txFifo + 1
            /\ left' = [left EXCEPT ![p] = @ - 1]
            /\ UNCHANGED <<tx_mutex, pc>>
       ELSE /\ IF left[p] = 0
               THEN tx_mutex' = Nobody /\ Goto(p, "idle")
               ELSE Goto(p, "tx_arm") /\ UNCHANGED tx_mutex
            /\ UNCHANGED <<txFifo, left>>
    /\ UNCHANGED <<arrived, rxFifo, rxEvent, txArmed, handler, ring, rx_mutex,
                   pending, out, lastRead>>

\* Wrong: the writer waits for an interrupt it has not enabled.
TxArm_Unarmed(p) ==
    /\ At(p, "tx_arm")
    /\ Goto(p, "tx_wait")
    /\ UNCHANGED <<hw, txArmed, handler, ring, locks, pending, left, out,
                   lastRead>>

TxArm(p) ==
    /\ At(p, "tx_arm")
    /\ txArmed' = TRUE
    /\ Goto(p, "tx_wait")
    /\ UNCHANGED <<hw, handler, ring, locks, pending, left, out, lastRead>>

TxWait(p) ==
    /\ At(p, "tx_wait")
    /\ cond_wait(p, "tx_fill", "tx_parked", tx_mutex)
    /\ UNCHANGED <<hw, txArmed, handler, ring, rx_mutex, left, out, lastRead>>

-----------------------------------------------------------------------------
Init ==
    /\ arrived = 0 /\ rxFifo = <<>> /\ rxEvent = FALSE
    /\ txFifo = 0 /\ txArmed = FALSE
    /\ isr = "none" /\ txDrained = FALSE /\ received = FALSE
    /\ rx_ring = [i \in Slot |-> 0] /\ rx_head = 0 /\ rx_tail = 0
    /\ rx_mutex = Nobody /\ tx_mutex = Nobody
    /\ pending = FALSE
    /\ pc = [p \in Users |-> "idle"]
    /\ left = [p \in Users |-> 0]
    /\ out = [p \in Users |-> 0]
    /\ lastRead = 0

Hardware == RxByte \/ RxEvent \/ TxByte
Handler == IsrEnter \/ IsrTx \/ IsrSample \/ IsrDrain \/ IsrSignal
Resume(p) ==
    \/ RxLock(p) \/ RxCheck(p) \/ RxWait(p) \/ RxCopy(p) \/ RxAdvance(p)
    \/ TxLock(p) \/ TxFill(p) \/ TxArm(p) \/ TxWait(p)
Process == \E p \in Users : Read(p) \/ Write(p) \/ Resume(p)

Next == Hardware \/ Handler \/ Process
Spec == Init /\ [][Next]_vars

\* The fifo drains, latched interrupts are taken and finish, and a process
\* inside a call keeps running (round robin, see Kernel!TopPriorityRuns).
Fairness ==
    /\ WF_vars(TxByte) /\ WF_vars(RxEvent) /\ WF_vars(Handler)
    /\ \A p \in Users : SF_vars(Resume(p))
FairSpec == Spec /\ Fairness

-----------------------------------------------------------------------------
(* Properties.                                                             *)

\* Every variable of the driver and the hardware has its type.
TypeOK ==
    /\ arrived \in 0 .. MaxBytes
    /\ rxFifo \in Seq(1 .. MaxBytes) /\ Len(rxFifo) <= RxFifoSize
    /\ txFifo \in 0 .. TxFifoSize
    /\ {rxEvent, txArmed, txDrained, received, pending} \subseteq BOOLEAN
    /\ isr \in {"none", "tx", "sample", "drain", "signal"}
    /\ rx_ring \in [Slot -> 0 .. MaxBytes]
    /\ rx_head \in Counter /\ rx_tail \in Counter
    /\ rx_mutex \in Users \cup {Nobody} /\ tx_mutex \in Users \cup {Nobody}
    /\ pc \in [Users -> {"idle", "rx_lock", "rx_check", "rx_wait", "rx_parked",
                         "rx_copy", "rx_advance", "tx_lock", "tx_fill",
                         "tx_arm", "tx_wait", "tx_parked"}]
    /\ left \in [Users -> 0 .. ReadMax + WriteLen]
    /\ out \in [Users -> 0 .. MaxBytes]
    /\ lastRead \in 0 .. MaxBytes

\* What waits in the ring, oldest first, then what waits in the fifo.
InTransit ==
    [k \in 1 .. Queued(rx_head, rx_tail) |->
        rx_ring[(rx_tail + k - 1) % RingSize]] \o rxFifo

\* Bytes reach the reader in the order they arrived, none twice and none
\* overwritten in the ring, with the counters wrapping at any point of a read
\* that the handler interrupts.
BytesInOrder ==
    /\ Queued(rx_head, rx_tail) <= RingSize
    /\ \A i, j \in DOMAIN InTransit : i < j => InTransit[i] < InTransit[j]
    /\ \A i \in DOMAIN InTransit : InTransit[i] > lastRead
    /\ \A p \in Users : pc[p] = "rx_advance" =>
          rx_head # rx_tail /\ out[p] = InTransit[1]

\* A parked writer has the interrupt that will wake it enabled, or the
\* handler is about to signal: it is never left behind a drained fifo.
WriterArmed ==
    \A p \in Users : pc[p] = "tx_parked" => txArmed

\* A write() that has started returns, whatever arrives meanwhile.
WriteReturns ==
    \A p \in Writers : pc[p] = "tx_lock" ~> pc[p] = "idle"

\* dev.h: read() "blocks until at least one byte" - outside the handler no
\* reader is parked while the ring holds one.
ReaderHears ==
    isr = "none" /\ rx_head # rx_tail => \A p \in Users : pc[p] # "rx_parked"
=============================================================================
