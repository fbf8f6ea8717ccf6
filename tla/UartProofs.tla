----------------------------- MODULE UartProofs ------------------------------
(***************************************************************************)
(* uart0 for every size of its ring and fifos: type correctness, the order *)
(* of the bytes a reader gets, and WriterArmed when one process uses it,   *)
(* as in this system.                                                      *)
(***************************************************************************)
EXTENDS Uart, SequenceTheorems, TLAPS

\* A byte is on its way to the reader's buffer only if there is room for it.
ReadLeft == \A p \in Users : pc[p] = "rx_advance" => left[p] > 0

Place == {"idle", "rx_lock", "rx_check", "rx_wait", "rx_parked", "rx_copy",
          "rx_advance", "tx_lock", "tx_fill", "tx_arm", "tx_wait", "tx_parked"}

\* The sizes, one by one.
LEMMA Sizes ==
    /\ RxFifoSize \in Nat \ {0} /\ TxFifoSize \in Nat \ {0}
    /\ ReadMax \in Nat \ {0} /\ WriteLen \in Nat \ {0}
    /\ RingSize \in Nat \ {0} /\ MaxBytes \in Nat
BY UartAssumption

\* The free-running counters stay in their width when they wrap.
LEMMA Next1Type ==
    ASSUME NEW c \in Counter PROVE Next1(c) \in Counter
BY UartAssumption DEF Next1, Counter

\* An index made from a counter is one of the ring.
LEMMA SlotType ==
    ASSUME NEW c \in Counter PROVE c % RingSize \in Slot
BY UartAssumption DEF Slot, Counter

\* Waking everybody leaves a process where it was or at the lock it waits for.
LEMMA WokenPlaces ==
    ASSUME NEW f \in [Users -> Place]
    PROVE  [p \in Users |-> Woken(f[p])] \in [Users -> Place]
BY DEF Place, Woken

\* What cond_signal_isr does to the two variables of the condition.
LEMMA SignalType ==
    ASSUME pc \in [Users -> Place], ReadLeft, cond_signal_isr, left' = left
    PROVE  pending' \in BOOLEAN /\ pc' \in [Users -> Place] /\ ReadLeft'
<1>1. pc' \in [Users -> Place]
    BY WokenPlaces DEF cond_signal_isr
<1>2. ReadLeft'
    BY DEF cond_signal_isr, ReadLeft, Woken
<1> QED
    BY <1>1, <1>2 DEF cond_signal_isr

\* The types as separate facts, and back.
LEMMA TypeParts ==
    TypeOK <=>
    /\ arrived \in 0 .. MaxBytes
    /\ rxFifo \in Seq(1 .. MaxBytes) /\ Len(rxFifo) <= RxFifoSize
    /\ txFifo \in 0 .. TxFifoSize
    /\ rxEvent \in BOOLEAN /\ txArmed \in BOOLEAN /\ txDrained \in BOOLEAN
    /\ received \in BOOLEAN /\ pending \in BOOLEAN
    /\ isr \in {"none", "tx", "sample", "drain", "signal"}
    /\ rx_ring \in [Slot -> 0 .. MaxBytes]
    /\ rx_head \in Counter /\ rx_tail \in Counter
    /\ rx_mutex \in Users \cup {Nobody} /\ tx_mutex \in Users \cup {Nobody}
    /\ pc \in [Users -> Place]
    /\ left \in [Users -> 0 .. ReadMax + WriteLen]
    /\ out \in [Users -> 0 .. MaxBytes]
    /\ lastRead \in 0 .. MaxBytes
BY DEF TypeOK, Place

\* Every variable has its type at the beginning.
LEMMA UartInit == Init => TypeOK /\ ReadLeft
<1> SUFFICES ASSUME Init PROVE TypeOK /\ ReadLeft
    OBVIOUS
<1> USE UartAssumption DEF Init
<1>1. rx_ring \in [Slot -> 0 .. MaxBytes] /\ rx_head \in Counter /\ rx_tail \in Counter
    BY DEF Slot, Counter
<1>2. rxFifo \in Seq(1 .. MaxBytes) /\ Len(rxFifo) <= RxFifoSize
    BY Sizes
<1>3. pc \in [Users -> Place] /\ ReadLeft
    BY DEF Place, ReadLeft
<1>4. /\ left \in [Users -> 0 .. ReadMax + WriteLen] /\ out \in [Users -> 0 .. MaxBytes]
      /\ arrived \in 0 .. MaxBytes /\ lastRead \in 0 .. MaxBytes /\ txFifo \in 0 .. TxFifoSize
    BY Sizes
<1>5. /\ rxEvent \in BOOLEAN /\ txArmed \in BOOLEAN /\ txDrained \in BOOLEAN
      /\ received \in BOOLEAN /\ pending \in BOOLEAN
      /\ isr \in {"none", "tx", "sample", "drain", "signal"}
      /\ rx_mutex \in Users \cup {Nobody} /\ tx_mutex \in Users \cup {Nobody}
    OBVIOUS
<1> QED
    BY <1>1, <1>2, <1>3, <1>4, <1>5, TypeParts, Zenon

\* What the hardware and the handler do keeps the types.
LEMMA HardwareType ==
    ASSUME TypeOK, ReadLeft, Hardware PROVE TypeOK' /\ ReadLeft'
<1> USE UartAssumption DEF hw, handler, ring, locks, local
<1>0. pc' = pc /\ left' = left
    BY DEF Hardware, RxByte, RxEvent, TxByte
<1>1. CASE RxByte
    <2>1. arrived' \in 1 .. MaxBytes
        BY <1>1, TypeParts, Sizes DEF RxByte
    <2>2. rxFifo' \in Seq(1 .. MaxBytes) /\ Len(rxFifo') <= RxFifoSize
        <3>1. CASE Len(rxFifo) < RxFifoSize
            <4> DEFINE f == Append(rxFifo, arrived + 1)
            <4>1. rxFifo' = f /\ arrived + 1 \in 1 .. MaxBytes
                BY <1>1, <2>1, <3>1 DEF RxByte
            <4>2. f \in Seq(1 .. MaxBytes) /\ Len(f) = Len(rxFifo) + 1
                BY <4>1, TypeParts
            <4>3. Len(f) <= RxFifoSize
                BY <3>1, <4>2, TypeParts, LenProperties, Sizes
            <4> QED BY <4>1, <4>2, <4>3
        <3>2. CASE ~(Len(rxFifo) < RxFifoSize)
            BY <1>1, <3>2, TypeParts DEF RxByte
        <3> QED BY <3>1, <3>2
    <2>3. rxEvent' \in BOOLEAN
        BY <1>1, TypeParts DEF RxByte
    <2>4. /\ UNCHANGED <<txFifo, txArmed, isr, txDrained, received, rx_ring, rx_head, rx_tail>>
          /\ UNCHANGED <<rx_mutex, tx_mutex, pending, pc, left, out, lastRead>>
        BY <1>1 DEF RxByte
    <2>5. arrived' \in 0 .. MaxBytes
        BY <2>1, Sizes
    <2> QED BY <2>2, <2>3, <2>4, <2>5 DEF TypeOK, ReadLeft
<1>2. CASE RxEvent
    BY <1>0, <1>2 DEF RxEvent, TypeOK, ReadLeft
<1>3. CASE TxByte
    BY <1>0, <1>3 DEF TxByte, TypeOK, ReadLeft
<1> QED
    BY <1>1, <1>2, <1>3 DEF Hardware

LEMMA HandlerType ==
    ASSUME TypeOK, ReadLeft, Handler PROVE TypeOK' /\ ReadLeft'
<1> USE UartAssumption DEF hw, handler, ring, locks, local
<1>1. CASE IsrEnter
    <2>1. TxEmptyStatus \in BOOLEAN
        BY DEF TxEmptyStatus, TypeOK
    <2> QED BY <1>1, <2>1, TypeParts, Zenon DEF IsrEnter, TypeOK, ReadLeft, Place
<1>2. CASE IsrTx
    <2>1. pending' \in BOOLEAN /\ pc' \in [Users -> Place] /\ ReadLeft'
        BY <1>2, TypeParts, SignalType DEF IsrTx, ReadLeft
    <2>2. txArmed' \in BOOLEAN
        BY <1>2, TypeParts DEF IsrTx
    <2> QED BY <1>2, <2>1, <2>2 DEF IsrTx, TypeOK, Place
<1>3. CASE IsrSample
    BY <1>3 DEF IsrSample, TypeOK, ReadLeft
<1>4. CASE IsrDrain
    <2>0. rxFifo # <<>> => /\ Head(rxFifo) \in 1 .. MaxBytes
                           /\ Tail(rxFifo) \in Seq(1 .. MaxBytes)
                           /\ Len(Tail(rxFifo)) <= RxFifoSize
        <3> SUFFICES ASSUME rxFifo # <<>>
                     PROVE  /\ Head(rxFifo) \in 1 .. MaxBytes
                            /\ Tail(rxFifo) \in Seq(1 .. MaxBytes)
                            /\ Len(Tail(rxFifo)) <= RxFifoSize
            OBVIOUS
        <3> DEFINE n == Len(Tail(rxFifo))
        <3>1. /\ rxFifo \in Seq(1 .. MaxBytes) /\ Len(rxFifo) <= RxFifoSize /\ Len(rxFifo) \in Nat
            BY TypeParts
        <3>2. /\ Head(rxFifo) \in 1 .. MaxBytes /\ Tail(rxFifo) \in Seq(1 .. MaxBytes)
              /\ n = Len(rxFifo) - 1
            BY <3>1, HeadTailProperties
        <3> HIDE DEF n
        <3>3. n <= RxFifoSize
            BY <3>1, <3>2, Sizes
        <3> QED BY <3>2, <3>3 DEF n
    <2>1. rxFifo' \in Seq(1 .. MaxBytes) /\ Len(rxFifo') <= RxFifoSize
        <3>1. CASE rxFifo # <<>>
            BY <1>4, <2>0, <3>1 DEF IsrDrain
        <3>2. CASE rxFifo = <<>>
            BY <1>4, <3>2, TypeParts DEF IsrDrain
        <3> QED BY <3>1, <3>2
    <2>2. rx_ring' \in [Slot -> 0 .. MaxBytes] /\ rx_head' \in Counter
        <3>1. CASE UNCHANGED <<rx_ring, rx_head>>
            BY <3>1, TypeParts
        <3>2. CASE /\ rxFifo # <<>>
                   /\ rx_ring' = [rx_ring EXCEPT ![rx_head % RingSize] = Head(rxFifo)]
                   /\ rx_head' = Next1(rx_head)
            <4>1. Head(rxFifo) \in 0 .. MaxBytes
                BY <2>0, <3>2
            <4> QED BY <3>2, <4>1, TypeParts, Next1Type, SlotType
        <3> QED BY <1>4, <3>1, <3>2 DEF IsrDrain
    <2>3. isr' \in {"none", "tx", "sample", "drain", "signal"}
        BY <1>4, TypeParts DEF IsrDrain
    <2> QED BY <1>4, <2>1, <2>2, <2>3 DEF IsrDrain, TypeOK, ReadLeft
<1>5. CASE IsrSignal
    <2>1. pending' \in BOOLEAN /\ pc' \in [Users -> Place] /\ ReadLeft'
        BY <1>5, TypeParts, SignalType DEF IsrSignal, ReadLeft
    <2> QED BY <1>5, <2>1 DEF IsrSignal, TypeOK, Place
<1> QED
    BY <1>1, <1>2, <1>3, <1>4, <1>5 DEF Handler

\* A process moved to a known place keeps the types, and needs room for a byte
\* at one place only.
LEMMA GotoType ==
    ASSUME TypeOK, NEW p \in Users, NEW place \in Place, Goto(p, place)
    PROVE  pc' \in [Users -> Place]
BY DEF Goto, TypeOK, Place

LEMMA StaysReadLeft ==
    ASSUME TypeOK, ReadLeft, NEW p \in Users,
           \A q \in Users \ {p} : pc'[q] = pc[q] /\ left'[q] = left[q],
           pc'[p] # "rx_advance" \/ left'[p] > 0
    PROVE  ReadLeft'
BY DEF ReadLeft

LEMMA ReaderType ==
    ASSUME TypeOK, ReadLeft, NEW p \in Users,
           Read(p) \/ RxLock(p) \/ RxCheck(p) \/ RxWait(p) \/ RxCopy(p) \/ RxAdvance(p)
    PROVE  TypeOK' /\ ReadLeft'
<1> USE UartAssumption DEF hw, handler, ring, locks, local
<1>1. CASE Read(p)
    <2>1. pc' \in [Users -> Place]
        BY <1>1, GotoType DEF Read, Place
    <2>2. left' \in [Users -> 0 .. ReadMax + WriteLen]
        BY <1>1 DEF Read, TypeOK
    <2> QED BY <1>1, <2>1, <2>2, StaysReadLeft DEF Read, At, Goto, TypeOK, Place
<1>2. CASE RxLock(p)
    <2>1. pc' \in [Users -> Place]
        BY <1>2, GotoType DEF RxLock, Place
    <2>2. ReadLeft'
        BY <1>2, StaysReadLeft DEF RxLock, Goto, TypeOK
    <2> QED BY <1>2, <2>1, <2>2 DEF RxLock, TypeOK, Place
<1>3. CASE RxCheck(p)
    <2>1. pc' \in [Users -> Place]
        BY <1>3, GotoType DEF RxCheck, Place
    <2>2. ReadLeft'
        BY <1>3, StaysReadLeft DEF RxCheck, Goto, TypeOK
    <2> QED BY <1>3, <2>1, <2>2 DEF RxCheck, TypeOK, Place
<1>4. CASE RxWait(p)
    <2>1. pc' \in [Users -> Place] /\ pending' \in BOOLEAN /\ rx_mutex' \in Users \cup {Nobody}
        BY <1>4, TypeParts DEF RxWait, cond_wait, Place
    <2>2. ReadLeft'
        BY <1>4, StaysReadLeft DEF RxWait, cond_wait, TypeOK
    <2> QED BY <1>4, <2>1, <2>2 DEF RxWait, TypeOK, Place
<1>5. CASE RxCopy(p)
    <2>1. pc' \in [Users -> Place]
        BY <1>5, GotoType DEF RxCopy, Place
    <2>2. /\ out' \in [Users -> 0 .. MaxBytes] /\ left' \in [Users -> 0 .. ReadMax + WriteLen]
          /\ rx_mutex' \in Users \cup {Nobody}
        <3>1. rx_ring[rx_tail % RingSize] \in 0 .. MaxBytes
            BY TypeParts, SlotType
        <3>2. CASE left[p] > 0 /\ rx_head # rx_tail
            BY <1>5, <3>1, <3>2, TypeParts DEF RxCopy
        <3>3. CASE ~(left[p] > 0 /\ rx_head # rx_tail)
            <4>1. 0 \in 0 .. ReadMax + WriteLen
                BY Sizes
            <4>2. left' = [left EXCEPT ![p] = 0] /\ rx_mutex' = Nobody /\ out' = out
                BY <1>5, <3>3 DEF RxCopy
            <4> QED BY <4>1, <4>2, TypeParts
        <3> QED BY <3>2, <3>3
    <2>3. ReadLeft'
        BY <1>5, StaysReadLeft DEF RxCopy, Goto, TypeOK
    <2> QED BY <1>5, <2>1, <2>2, <2>3 DEF RxCopy, TypeOK, Place
<1>6. CASE RxAdvance(p)
    <2>1. pc' \in [Users -> Place]
        BY <1>6, GotoType DEF RxAdvance, Place
    <2>2. left[p] \in 1 .. ReadMax + WriteLen
        BY <1>6 DEF RxAdvance, At, ReadLeft, TypeOK
    <2>3. /\ out' \in [Users -> 0 .. MaxBytes] /\ left' \in [Users -> 0 .. ReadMax + WriteLen]
          /\ lastRead' \in 0 .. MaxBytes /\ rx_tail' \in Counter
        <3>1. left[p] - 1 \in 0 .. ReadMax + WriteLen
            BY <2>2, Sizes
        <3>2. rx_tail' \in Counter
            BY <1>6, TypeParts, Next1Type DEF RxAdvance
        <3>3. 0 \in 0 .. MaxBytes /\ out[p] \in 0 .. MaxBytes
            BY TypeParts, Sizes
        <3> QED BY <1>6, <3>1, <3>2, <3>3, TypeParts DEF RxAdvance
    <2>4. ReadLeft'
        BY <1>6, StaysReadLeft DEF RxAdvance, Goto, TypeOK
    <2> QED BY <1>6, <2>1, <2>3, <2>4 DEF RxAdvance, TypeOK, Place
<1> QED
    BY <1>1, <1>2, <1>3, <1>4, <1>5, <1>6

LEMMA WriterType ==
    ASSUME TypeOK, ReadLeft, NEW p \in Users,
           Write(p) \/ TxLock(p) \/ TxFill(p) \/ TxArm(p) \/ TxWait(p)
    PROVE  TypeOK' /\ ReadLeft'
<1> USE UartAssumption DEF hw, handler, ring, locks, local
<1>1. CASE Write(p)
    <2>1. pc' \in [Users -> Place]
        BY <1>1, GotoType DEF Write, Place
    <2>2. left' \in [Users -> 0 .. ReadMax + WriteLen]
        <3>1. WriteLen \in 0 .. ReadMax + WriteLen
            OBVIOUS
        <3> QED BY <1>1, <3>1 DEF Write, TypeOK
    <2> QED BY <1>1, <2>1, <2>2, StaysReadLeft DEF Write, At, Goto, TypeOK, Place
<1>2. CASE TxLock(p)
    <2>1. pc' \in [Users -> Place]
        BY <1>2, GotoType DEF TxLock, Place
    <2>2. ReadLeft'
        BY <1>2, StaysReadLeft DEF TxLock, Goto, TypeOK
    <2> QED BY <1>2, <2>1, <2>2 DEF TxLock, TypeOK, Place
<1>3. CASE TxFill(p)
    <2>1. pc' \in [Users -> Place]
        BY <1>3, GotoType, TypeParts DEF TxFill, Place
    <2>2. /\ txFifo' \in 0 .. TxFifoSize /\ left' \in [Users -> 0 .. ReadMax + WriteLen]
          /\ tx_mutex' \in Users \cup {Nobody}
        <3>1. CASE left[p] > 0 /\ txFifo < TxFifoSize
            <4>1. left[p] \in 0 .. ReadMax + WriteLen /\ txFifo \in 0 .. TxFifoSize
                BY TypeParts
            <4>2. left[p] - 1 \in 0 .. ReadMax + WriteLen /\ txFifo + 1 \in 0 .. TxFifoSize
                BY <3>1, <4>1, Sizes
            <4>3. /\ txFifo' = txFifo + 1 /\ left' = [left EXCEPT ![p] = left[p] - 1]
                  /\ tx_mutex' = tx_mutex
                BY <1>3, <3>1 DEF TxFill
            <4>4. left' \in [Users -> 0 .. ReadMax + WriteLen]
                BY <4>2, <4>3, TypeParts
            <4> QED BY <4>2, <4>3, <4>4, TypeParts
        <3>2. CASE ~(left[p] > 0 /\ txFifo < TxFifoSize)
            BY <1>3, <3>2, TypeParts DEF TxFill
        <3> QED BY <3>1, <3>2
    <2>3. ReadLeft'
        BY <1>3, StaysReadLeft DEF TxFill, At, Goto, TypeOK
    <2> QED BY <1>3, <2>1, <2>2, <2>3 DEF TxFill, TypeOK, Place
<1>4. CASE TxArm(p)
    <2>1. pc' \in [Users -> Place]
        BY <1>4, GotoType DEF TxArm, Place
    <2>2. ReadLeft'
        BY <1>4, StaysReadLeft DEF TxArm, Goto, TypeOK
    <2> QED BY <1>4, <2>1, <2>2 DEF TxArm, TypeOK, Place
<1>5. CASE TxWait(p)
    <2>1. pc' \in [Users -> Place] /\ pending' \in BOOLEAN /\ tx_mutex' \in Users \cup {Nobody}
        BY <1>5, TypeParts DEF TxWait, cond_wait, Place
    <2>2. ReadLeft'
        BY <1>5, StaysReadLeft DEF TxWait, cond_wait, TypeOK
    <2> QED BY <1>5, <2>1, <2>2 DEF TxWait, TypeOK, Place
<1> QED
    BY <1>1, <1>2, <1>3, <1>4, <1>5

LEMMA UartNext == TypeOK /\ ReadLeft /\ [Next]_vars => TypeOK' /\ ReadLeft'
<1> SUFFICES ASSUME TypeOK, ReadLeft, [Next]_vars PROVE TypeOK' /\ ReadLeft'
    OBVIOUS
<1>1. CASE Hardware
    BY <1>1, HardwareType
<1>2. CASE Handler
    BY <1>2, HandlerType
<1>3. CASE Process
    BY <1>3, ReaderType, WriterType DEF Process, Resume
<1>4. CASE UNCHANGED vars
    BY <1>4 DEF vars, TypeOK, ReadLeft
<1> QED
    BY <1>1, <1>2, <1>3, <1>4 DEF Next

\* Every variable of the driver keeps its type, for any users, sizes and
\* counter width: ring and fifos are never over-full, and a read() that the
\* handler interrupts never copies more than it was asked for.
THEOREM UartTypes == Spec => []TypeOK
<1>1. Init => TypeOK /\ ReadLeft
    BY UartInit
<1>2. TypeOK /\ ReadLeft /\ [Next]_vars => (TypeOK /\ ReadLeft)'
    BY UartNext
<1> QED
    BY <1>1, <1>2, PTL DEF Spec

-----------------------------------------------------------------------------
(* A writer is not left behind.                                            *)

\* One process at most uses the device: nobody else can take the signal that
\* is remembered for it.
OneUser == \A p, q \in Users : p = q

\* Between arming the interrupt and parking the handler may have disabled it
\* again, but then it has left its signal.
SignalKept == \A p \in Users : pc[p] = "tx_wait" => txArmed \/ pending

WriterInv == WriterArmed /\ SignalKept

LEMMA WriterStep ==
    ASSUME OneUser, TypeOK, WriterInv, [Next]_vars PROVE WriterInv'
<1> USE DEF WriterInv, WriterArmed, SignalKept, hw, handler, ring, locks, local
<1>0. pc \in [Users -> Place]
    BY TypeParts
<1>1. CASE UNCHANGED <<pc, pending, txArmed>>
    BY <1>1
<1>2. CASE cond_signal_isr
    BY <1>0, <1>2 DEF cond_signal_isr, Woken, Place
<1>3. CASE Hardware \/ IsrEnter \/ IsrSample \/ IsrDrain
    <2>1. UNCHANGED <<pc, pending, txArmed>>
        BY <1>3 DEF Hardware, RxByte, RxEvent, TxByte, IsrEnter, IsrSample, IsrDrain
    <2> QED BY <1>1, <2>1
<1>4. CASE IsrTx \/ IsrSignal
    BY <1>1, <1>2, <1>4 DEF IsrTx, IsrSignal
<1>5. ASSUME NEW p \in Users, NEW place \in Place \ {"tx_wait", "tx_parked"},
             Goto(p, place), UNCHANGED <<pending, txArmed>>
      PROVE  WriterInv'
    BY <1>0, <1>5 DEF Goto
<1>6. ASSUME NEW p \in Users, Read(p) \/ Write(p) \/ RxLock(p) \/ RxCheck(p)
                              \/ RxCopy(p) \/ RxAdvance(p) \/ TxLock(p)
      PROVE  WriterInv'
    BY <1>5, <1>6 DEF Read, Write, RxLock, RxCheck, RxCopy, RxAdvance, TxLock, Place
<1>7. ASSUME NEW p \in Users, TxFill(p) PROVE WriterInv'
    BY <1>1, <1>5, <1>7 DEF TxFill, Place
<1>8. ASSUME NEW p \in Users, TxArm(p) PROVE WriterInv'
    BY <1>0, <1>8 DEF TxArm, Goto
<1>9. ASSUME NEW p \in Users, RxWait(p) PROVE WriterInv'
    \* The one user is here, so that it is not about to park as a writer.
    <2>1. \A q \in Users : q = p
        BY DEF OneUser
    <2>2. pc'[p] \in {"rx_check", "rx_parked"}
        BY <1>0, <1>9 DEF RxWait, cond_wait
    <2> QED BY <2>1, <2>2
<1>10. ASSUME NEW p \in Users, TxWait(p) PROVE WriterInv'
    <2>1. \A q \in Users : q = p
        BY DEF OneUser
    <2>2. CASE pending
        <3>1. pc'[p] = "tx_fill"
            BY <1>0, <1>10, <2>2 DEF TxWait, cond_wait
        <3> QED BY <2>1, <3>1
    <2>3. CASE ~pending
        <3>1. pc'[p] = "tx_parked" /\ txArmed' = txArmed
            BY <1>0, <1>10, <2>3 DEF TxWait, cond_wait
        <3>2. txArmed
            BY <1>10, <2>3 DEF TxWait, At
        <3> QED BY <2>1, <3>1, <3>2
    <2> QED BY <2>2, <2>3
<1>11. CASE UNCHANGED vars
    BY <1>1, <1>11 DEF vars
<1> QED
    BY <1>3, <1>4, <1>6, <1>7, <1>8, <1>9, <1>10, <1>11 DEF Next, Handler, Process, Resume

\* A writer that is parked has the interrupt that will wake it enabled,
\* whatever the sizes of the fifos and wherever the handler runs between its
\* fill, its arming and its wait, as long as one process uses the device.
THEOREM WriterStaysArmed == ASSUME OneUser PROVE Spec => []WriterArmed
<1>1. Init => WriterInv
    BY DEF Init, WriterInv, WriterArmed, SignalKept
<1>2. TypeOK /\ WriterInv /\ [Next]_vars => WriterInv'
    BY WriterStep
<1>3. WriterInv => WriterArmed
    BY DEF WriterInv
<1> QED
    BY <1>1, <1>2, <1>3, UartTypes, PTL DEF Spec

-----------------------------------------------------------------------------
(* Bytes in order.  The index of a counter in the ring, where the counters  *)
(* wrap at a multiple of the ring's size.                                   *)

LEMMA SmallMultiple ==
    ASSUME NEW w \in Nat \ {0}, NEW m \in Int, -w < w * m, w * m < w
    PROVE  m = 0
<1>1. CASE m >= 1
    <2>1. w * m >= w
        BY <1>1, SMTT(60)
    <2> QED BY <2>1
<1>2. CASE m <= -1
    <2>1. w * m <= -w
        BY <1>2, SMTT(60)
    <2> QED BY <2>1
<1> QED
    BY <1>1, <1>2

LEMMA Division ==
    ASSUME NEW w \in Nat \ {0}, NEW a \in Int
    PROVE  a % w \in 0 .. w - 1 /\ a \div w \in Int /\ a = w * (a \div w) + (a % w)
OBVIOUS

\* Numbers that differ by a multiple of w leave the same remainder.
LEMMA SameRemainder ==
    ASSUME NEW w \in Nat \ {0}, NEW a \in Int, NEW b \in Int, NEW k \in Int,
           b = a + w * k
    PROVE  a % w = b % w
<1> DEFINE i == a \div w
           j == b \div w
           r == a % w
           s == b % w
<1>1. i \in Int /\ j \in Int /\ r \in 0 .. w - 1 /\ s \in 0 .. w - 1
    BY Division
<1>2. a = w * i + r /\ b = w * j + s
    BY Division
<1> HIDE DEF i, j, r, s
<1>3. w * (i + k - j) = s - r
    BY <1>1, <1>2
<1> DEFINE m == i + k - j
<1>4. m \in Int /\ -w < w * m /\ w * m < w
    BY <1>1, <1>3
<1> HIDE DEF m
<1>5. m = 0
    BY <1>4, SmallMultiple
<1> USE DEF m
<1>6. s - r = 0
    BY <1>1, <1>3, <1>5
<1> QED
    BY <1>1, <1>6 DEF r, s

\* Numbers less than w apart do not.
LEMMA OtherRemainder ==
    ASSUME NEW w \in Nat \ {0}, NEW a \in Int, NEW b \in Int, a < b, b < a + w
    PROVE  a % w # b % w
<1> DEFINE i == a \div w
           j == b \div w
           r == a % w
           s == b % w
<1>1. i \in Int /\ j \in Int /\ r \in 0 .. w - 1 /\ s \in 0 .. w - 1
    BY Division
<1>2. a = w * i + r /\ b = w * j + s
    BY Division
<1> HIDE DEF i, j, r, s
<1> SUFFICES ASSUME r = s PROVE FALSE
    BY DEF r, s
<1>3. w * (j - i) = b - a
    BY <1>1, <1>2
<1> DEFINE m == j - i
<1>4. m \in Int /\ -w < w * m /\ w * m < w
    BY <1>1, <1>3
<1> HIDE DEF m
<1>5. m = 0
    BY <1>4, SmallMultiple
<1> USE DEF m
<1> QED
    BY <1>1, <1>3, <1>5

\* The counters without their %.
LEMMA Next1Value ==
    ASSUME NEW c \in Counter
    PROVE  Next1(c) = IF c = CounterWrap - 1 THEN 0 ELSE c + 1
BY UartAssumption DEF Next1, Counter

LEMMA QueuedValue ==
    ASSUME NEW h \in Counter, NEW t \in Counter
    PROVE  /\ Queued(h, t) = IF h >= t THEN h - t ELSE h - t + CounterWrap
           /\ Queued(h, t) \in 0 .. CounterWrap - 1
           /\ Queued(h, t) = 0 <=> h = t
<1> DEFINE d == h - t
           w == CounterWrap
<1>1. w \in Nat \ {0} /\ d \in Int /\ -w < d /\ d < w /\ h \in Int /\ t \in Int
    BY UartAssumption DEF Counter
<1>2. Queued(h, t) = d % w
    BY DEF Queued
<1> HIDE DEF d, w
<1>3. (0 <= d => d % w = d) /\ (d < 0 => d % w = d + w)
    BY <1>1, SMTT(60)
<1>4. Queued(h, t) = IF d >= 0 THEN d ELSE d + w
    BY <1>1, <1>2, <1>3
<1> QED
    BY <1>1, <1>4 DEF d, w

LEMMA QueuedMore ==
    ASSUME NEW h \in Counter, NEW t \in Counter, Queued(h, t) < RingSize
    PROVE  Queued(Next1(h), t) = Queued(h, t) + 1
<1>1. CounterWrap \in Nat /\ RingSize \in Nat /\ RingSize < CounterWrap
    BY UartAssumption
<1>2. Next1(h) \in Counter
    BY Next1Type
<1>3. Queued(h, t) = IF h >= t THEN h - t ELSE h - t + CounterWrap
    BY QueuedValue
<1>4. Queued(Next1(h), t) = IF Next1(h) >= t THEN Next1(h) - t ELSE Next1(h) - t + CounterWrap
    BY <1>2, QueuedValue
<1> QED
    BY <1>1, <1>2, <1>3, <1>4, Next1Value DEF Counter

LEMMA QueuedLess ==
    ASSUME NEW h \in Counter, NEW t \in Counter, h # t
    PROVE  Queued(h, Next1(t)) = Queued(h, t) - 1
<1>1. CounterWrap \in Nat
    BY UartAssumption
<1>2. Next1(t) \in Counter
    BY Next1Type
<1>3. Queued(h, t) = IF h >= t THEN h - t ELSE h - t + CounterWrap
    BY QueuedValue
<1>4. Queued(h, Next1(t)) = IF h >= Next1(t) THEN h - Next1(t) ELSE h - Next1(t) + CounterWrap
    BY <1>2, QueuedValue
<1> QED
    BY <1>1, <1>2, <1>3, <1>4, Next1Value DEF Counter

\* The ring's size divides the counters' wrap.
LEMMA WrapsWhole == \E k \in Int : CounterWrap = RingSize * k
<1> DEFINE k == CounterWrap \div RingSize
<1>1. CounterWrap \in Nat /\ RingSize \in Nat \ {0} /\ CounterWrap % RingSize = 0
    BY UartAssumption
<1>2. k \in Int /\ CounterWrap = RingSize * k + 0
    BY <1>1, Division
<1>3. RingSize * k \in Int
    BY <1>1, <1>2
<1>4. CounterWrap = RingSize * k
    BY <1>2, <1>3
<1> HIDE DEF k
<1> QED
    BY <1>2, <1>4

\* Adding the wrap to an index, or not, names the same slot.
LEMMA WrappedSlot ==
    ASSUME NEW a \in Int
    PROVE  (a + CounterWrap) % RingSize = a % RingSize
<1>1. RingSize \in Nat \ {0} /\ CounterWrap \in Nat
    BY UartAssumption
<1>2. PICK k \in Int : CounterWrap = RingSize * k
    BY WrapsWhole
<1> DEFINE b == a + CounterWrap
<1>3. b \in Int /\ b = a + RingSize * k
    BY <1>1, <1>2
<1> QED
    BY <1>1, <1>3, SameRemainder

\* The slot after the last byte queued is the one the handler writes.
LEMMA HeadSlot ==
    ASSUME NEW h \in Counter, NEW t \in Counter
    PROVE  (t + Queued(h, t)) % RingSize = h % RingSize
<1>1. h \in Int /\ t \in Int /\ CounterWrap \in Int
    BY UartAssumption DEF Counter
<1>2. t + Queued(h, t) = h \/ t + Queued(h, t) = h + CounterWrap
    BY <1>1, QueuedValue
<1> QED
    BY <1>1, <1>2, WrappedSlot

\* Counting from the advanced tail.
LEMMA TailSlot ==
    ASSUME NEW t \in Counter, NEW i \in Int
    PROVE  (Next1(t) + i - 1) % RingSize = (t + i) % RingSize
<1>1. t \in Int /\ CounterWrap \in Int /\ Next1(t) \in Int
    BY UartAssumption, Next1Type DEF Counter
<1>2. Next1(t) = t + 1 \/ Next1(t) = t + 1 - CounterWrap
    BY <1>1, Next1Value
<1> DEFINE a == Next1(t) + i - 1
<1>3. a \in Int /\ (t + i = a \/ t + i = a + CounterWrap)
    BY <1>1, <1>2
<1> QED
    BY <1>3, WrappedSlot

-----------------------------------------------------------------------------
(* The ring and the fifo as values: what each move of a byte does to them.  *)

\* The i-th byte of the ring r, counted from its tail t.
Held(r, t, i) == r[(t + i - 1) % RingSize]

\* The ring holds no more than it has room for; its bytes, and those of the
\* fifo f behind them, are in the order of their numbers, all later than the
\* byte `last' and no later than the byte `a'.
RingSorted(r, h, t, last, a) ==
    /\ Queued(h, t) <= RingSize
    /\ \A i, j \in 1 .. Queued(h, t) : i < j => Held(r, t, i) < Held(r, t, j)
    /\ \A i \in 1 .. Queued(h, t) : last < Held(r, t, i) /\ Held(r, t, i) <= a

FifoSorted(f, last, a) ==
    /\ \A i, j \in 1 .. Len(f) : i < j => f[i] < f[j]
    /\ \A i \in 1 .. Len(f) : last < f[i] /\ f[i] <= a

RingFirst(r, h, t, f) ==
    \A i \in 1 .. Queued(h, t), j \in 1 .. Len(f) : Held(r, t, i) < f[j]

\* A slot of the ring is one byte's, as long as there is room.
LEMMA OwnSlot ==
    ASSUME NEW h \in Counter, NEW t \in Counter, NEW i \in 1 .. Queued(h, t),
           Queued(h, t) < RingSize
    PROVE  (t + i - 1) % RingSize # h % RingSize
<1> DEFINE n == Queued(h, t)
           a == t + i - 1
           b == t + n
<1>1. RingSize \in Nat \ {0} /\ t \in Int /\ n \in Int /\ i \in Int
    BY UartAssumption, QueuedValue DEF Counter
<1>2. a \in Int /\ b \in Int /\ a < b /\ b < a + RingSize
    BY <1>1
<1>3. b % RingSize = h % RingSize
    BY HeadSlot
<1> HIDE DEF a, b
<1>4. a % RingSize # b % RingSize
    BY <1>1, <1>2, OtherRemainder
<1> QED
    BY <1>3, <1>4 DEF a

LEMMA HeldType ==
    ASSUME NEW r \in [Slot -> 0 .. MaxBytes], NEW t \in Counter, NEW i \in Int
    PROVE  (t + i - 1) % RingSize \in Slot /\ Held(r, t, i) \in 0 .. MaxBytes
<1> DEFINE a == t + i - 1
<1>1. a \in Int /\ RingSize \in Nat \ {0}
    BY UartAssumption DEF Counter
<1> HIDE DEF a
<1>2. a % RingSize \in Slot
    BY <1>1 DEF Slot
<1> QED
    BY <1>2 DEF Held, a

\* The handler stores a byte behind those of the ring and touches no other.
LEMMA StoredBytes ==
    ASSUME NEW r \in [Slot -> 0 .. MaxBytes], NEW h \in Counter, NEW t \in Counter,
           NEW b \in 0 .. MaxBytes, Queued(h, t) < RingSize
    PROVE  LET q == [r EXCEPT ![h % RingSize] = b]
           IN  /\ \A i \in 1 .. Queued(h, t) : Held(q, t, i) = Held(r, t, i)
               /\ Held(q, t, Queued(h, t) + 1) = b
<1> DEFINE q == [r EXCEPT ![h % RingSize] = b]
           n == Queued(h, t)
<1>1. h % RingSize \in Slot
    BY SlotType
<1>2. ASSUME NEW i \in 1 .. n PROVE Held(q, t, i) = Held(r, t, i)
    <2>1. i \in Int
        BY QueuedValue
    <2>2. (t + i - 1) % RingSize \in Slot
        BY <2>1, HeldType
    <2>3. (t + i - 1) % RingSize # h % RingSize
        BY OwnSlot
    <2> QED BY <1>1, <2>2, <2>3 DEF Held
<1>3. Held(q, t, n + 1) = b
    <2>1. (t + (n + 1) - 1) % RingSize = h % RingSize
        <3>1. t \in Int /\ n \in Int
            BY QueuedValue DEF Counter
        <3>2. t + (n + 1) - 1 = t + n
            BY <3>1
        <3> QED BY <3>2, HeadSlot
    <2> QED BY <1>1, <2>1 DEF Held
<1> QED
    BY <1>2, <1>3

\* The reader advances the tail: the second byte becomes the first.
LEMMA AdvancedBytes ==
    ASSUME NEW r, NEW t \in Counter, NEW i \in Int
    PROVE  Held(r, Next1(t), i) = Held(r, t, i + 1)
<1>1. t \in Int
    BY DEF Counter
<1>2. t + (i + 1) - 1 = t + i
    BY <1>1
<1> QED
    BY <1>2, TailSlot DEF Held

\* The bytes of the fifo, and what is left when the first is taken.
LEMMA FifoBytes ==
    ASSUME NEW f \in Seq(1 .. MaxBytes)
    PROVE  Len(f) \in Nat /\ \A j \in 1 .. Len(f) : f[j] \in 1 .. MaxBytes
BY LenProperties, ElementOfSeq

LEMMA FifoTail ==
    ASSUME NEW f \in Seq(1 .. MaxBytes), f # <<>>
    PROVE  /\ Len(f) >= 1 /\ Head(f) = f[1] /\ f[1] \in 1 .. MaxBytes
           /\ Tail(f) \in Seq(1 .. MaxBytes) /\ Len(Tail(f)) = Len(f) - 1
           /\ \A j \in 1 .. Len(Tail(f)) : Tail(f)[j] = f[j + 1]
<1>1. Len(f) \in Nat /\ Len(f) # 0
    BY LenProperties, EmptySeq
<1>2. Len(f) >= 1 /\ 1 \in 1 .. Len(f)
    BY <1>1
<1>3. Head(f) = f[1] /\ f[1] \in 1 .. MaxBytes
    <2>1. Head(f) = f[1]
        OBVIOUS
    <2>2. f[1] \in 1 .. MaxBytes
        BY <1>2, ElementOfSeq
    <2> QED BY <2>1, <2>2
<1>4. /\ Tail(f) \in Seq(1 .. MaxBytes) /\ Len(Tail(f)) = Len(f) - 1
      /\ \A j \in 1 .. Len(Tail(f)) : Tail(f)[j] = f[j + 1]
    BY HeadTailProperties
<1> QED
    BY <1>2, <1>3, <1>4

\* The bytes of the ring.
LEMMA HeldBytes ==
    ASSUME NEW r \in [Slot -> 0 .. MaxBytes], NEW h, NEW t \in Counter
    PROVE  \A i \in 1 .. Queued(h, t) : Held(r, t, i) \in 0 .. MaxBytes
<1> TAKE i \in 1 .. Queued(h, t)
<1>1. i \in Int
    OBVIOUS
<1> QED
    BY <1>1, HeldType

\* The handler moves the first byte of the fifo into the ring.
LEMMA StoreSorted ==
    ASSUME NEW r \in [Slot -> 0 .. MaxBytes], NEW h \in Counter, NEW t \in Counter,
           NEW f \in Seq(1 .. MaxBytes), f # <<>>, NEW last \in Int, NEW a \in Int,
           Queued(h, t) < RingSize,
           RingSorted(r, h, t, last, a), FifoSorted(f, last, a), RingFirst(r, h, t, f)
    PROVE  LET q == [r EXCEPT ![h % RingSize] = Head(f)]
           IN  /\ RingSorted(q, Next1(h), t, last, a)
               /\ FifoSorted(Tail(f), last, a)
               /\ RingFirst(q, Next1(h), t, Tail(f))
<1> DEFINE q == [r EXCEPT ![h % RingSize] = Head(f)]
           n == Queued(h, t)
           g == Tail(f)
           H(i) == Held(r, t, i)
           K(i) == Held(q, t, i)
<1>1. n \in Nat /\ RingSize \in Nat /\ Queued(Next1(h), t) = n + 1 /\ n < RingSize
    BY UartAssumption, QueuedValue, QueuedMore
<1>2. /\ Len(f) \in Nat /\ Len(f) >= 1 /\ Head(f) = f[1] /\ f[1] \in 1 .. MaxBytes
      /\ g \in Seq(1 .. MaxBytes) /\ Len(g) = Len(f) - 1
      /\ \A j \in 1 .. Len(g) : g[j] = f[j + 1]
    BY FifoTail, FifoBytes
<1>3. (\A i \in 1 .. n : K(i) = H(i)) /\ K(n + 1) = f[1]
    <2>1. f[1] \in 0 .. MaxBytes
        BY <1>2, Sizes
    <2>2. [r EXCEPT ![h % RingSize] = f[1]] = q
        BY <1>2
    <2>3. \A b \in 0 .. MaxBytes :
             LET p == [r EXCEPT ![h % RingSize] = b]
             IN  /\ \A i \in 1 .. Queued(h, t) : Held(p, t, i) = Held(r, t, i)
                 /\ Held(p, t, Queued(h, t) + 1) = b
        BY StoredBytes
    <2>4. (\A i \in 1 .. n : Held(q, t, i) = Held(r, t, i)) /\ Held(q, t, n + 1) = f[1]
        BY <2>1, <2>2, <2>3
    <2> QED BY <2>4
<1>4. /\ \A i \in 1 .. n : H(i) \in 0 .. MaxBytes
      /\ \A j \in 1 .. Len(f) : f[j] \in 1 .. MaxBytes
    BY FifoBytes, HeldBytes
<1>5. /\ \A i, j \in 1 .. n : i < j => H(i) < H(j)
      /\ \A i \in 1 .. n : last < H(i) /\ H(i) <= a
    BY DEF RingSorted
<1>6. /\ \A i, j \in 1 .. Len(f) : i < j => f[i] < f[j]
      /\ \A i \in 1 .. Len(f) : last < f[i] /\ f[i] <= a
    BY DEF FifoSorted
<1>7. \A i \in 1 .. n, j \in 1 .. Len(f) : H(i) < f[j]
    BY DEF RingFirst
<1> HIDE DEF q, n, g, H, K
<1>8. RingSorted(q, Next1(h), t, last, a)
    <2>1. \A i \in 1 .. n + 1 : i \in 1 .. n \/ i = n + 1
        BY <1>1
    <2>2. 1 \in 1 .. Len(f)
        BY <1>2
    <2>3. \A i, j \in 1 .. n + 1 : i < j => K(i) < K(j)
        <3> TAKE i, j \in 1 .. n + 1
        <3> HAVE i < j
        <3>1. i \in 1 .. n
            BY <1>1
        <3>2. CASE j \in 1 .. n
            BY <1>3, <1>5, <3>1, <3>2
        <3>3. CASE j = n + 1
            BY <1>3, <1>7, <2>2, <3>1, <3>3
        <3> QED BY <2>1, <3>2, <3>3
    <2>4. \A i \in 1 .. n + 1 : last < K(i) /\ K(i) <= a
        BY <1>3, <1>5, <1>6, <2>1, <2>2
    <2>5. n + 1 <= RingSize
        BY <1>1
    <2> QED BY <1>1, <2>3, <2>4, <2>5 DEF RingSorted, K
<1>9. FifoSorted(g, last, a)
    <2>1. \A j \in 1 .. Len(g) : j + 1 \in 1 .. Len(f)
        BY <1>2
    <2>2. \A i, j \in 1 .. Len(g) : i < j => g[i] < g[j]
        <3> TAKE i, j \in 1 .. Len(g)
        <3> HAVE i < j
        <3>1. i + 1 < j + 1
            BY <1>2
        <3> QED BY <1>2, <1>6, <2>1, <3>1
    <2>3. \A i \in 1 .. Len(g) : last < g[i] /\ g[i] <= a
        BY <1>2, <1>6, <2>1
    <2> QED BY <2>2, <2>3 DEF FifoSorted
<1>10. RingFirst(q, Next1(h), t, g)
    <2>1. \A i \in 1 .. n + 1 : i \in 1 .. n \/ i = n + 1
        BY <1>1
    <2>2. \A i \in 1 .. n + 1, j \in 1 .. Len(g) : K(i) < g[j]
        <3> TAKE i \in 1 .. n + 1, j \in 1 .. Len(g)
        <3>1. j + 1 \in 1 .. Len(f) /\ 1 \in 1 .. Len(f) /\ 1 < j + 1
            BY <1>2
        <3>2. CASE i \in 1 .. n
            BY <1>2, <1>3, <1>7, <3>1, <3>2
        <3>3. CASE i = n + 1
            BY <1>2, <1>3, <1>6, <3>1, <3>3
        <3> QED BY <2>1, <3>2, <3>3
    <2> QED BY <1>1, <2>2 DEF RingFirst, K
<1> QED
    BY <1>8, <1>9, <1>10 DEF q, g

\* It drops the first byte of the fifo.
LEMMA DropSorted ==
    ASSUME NEW r, NEW h, NEW t, NEW f \in Seq(1 .. MaxBytes), f # <<>>,
           NEW last, NEW a, FifoSorted(f, last, a), RingFirst(r, h, t, f)
    PROVE  FifoSorted(Tail(f), last, a) /\ RingFirst(r, h, t, Tail(f))
<1> DEFINE g == Tail(f)
<1>1. /\ Len(f) \in Nat /\ Len(f) >= 1 /\ Len(g) = Len(f) - 1
      /\ \A j \in 1 .. Len(g) : g[j] = f[j + 1]
    BY HeadTailProperties, LenProperties, EmptySeq
<1>2. \A j \in 1 .. Len(g) : j + 1 \in 1 .. Len(f)
    BY <1>1
<1>3. \A i, j \in 1 .. Len(g) : i < j => i + 1 < j + 1
    BY <1>1
<1> HIDE DEF g
<1>4. FifoSorted(g, last, a)
    BY <1>1, <1>2, <1>3, Zenon DEF FifoSorted
<1>5. RingFirst(r, h, t, g)
    BY <1>1, <1>2, Zenon DEF RingFirst
<1> QED
    BY <1>4, <1>5 DEF g

\* The reader takes the first byte of the ring.
LEMMA TakeSorted ==
    ASSUME NEW r \in [Slot -> 0 .. MaxBytes], NEW h \in Counter, NEW t \in Counter, h # t,
           NEW f \in Seq(1 .. MaxBytes), NEW last \in Int, NEW a \in Int,
           RingSorted(r, h, t, last, a), FifoSorted(f, last, a), RingFirst(r, h, t, f)
    PROVE  LET b == Held(r, t, 1)
           IN  /\ RingSorted(r, h, Next1(t), b, a) /\ FifoSorted(f, b, a)
               /\ RingFirst(r, h, Next1(t), f) /\ b <= a
<1> DEFINE n == Queued(h, t)
           b == Held(r, t, 1)
           H(i) == Held(r, t, i)
           K(i) == Held(r, Next1(t), i)
<1>1. n \in Nat /\ n >= 1 /\ RingSize \in Nat /\ Queued(h, Next1(t)) = n - 1
    <2>1. n \in 0 .. CounterWrap - 1 /\ n # 0
        BY QueuedValue
    <2>2. Queued(h, Next1(t)) = n - 1
        BY QueuedLess
    <2> HIDE DEF n
    <2> QED BY <2>1, <2>2, UartAssumption
<1>2. \A i \in 1 .. n - 1 : K(i) = H(i + 1) /\ i + 1 \in 1 .. n
    BY <1>1, AdvancedBytes
<1>3. /\ \A i \in 1 .. n : H(i) \in 0 .. MaxBytes
      /\ \A j \in 1 .. Len(f) : f[j] \in 1 .. MaxBytes
    BY FifoBytes, HeldBytes
<1>4. /\ \A i, j \in 1 .. n : i < j => H(i) < H(j)
      /\ \A i \in 1 .. n : last < H(i) /\ H(i) <= a
      /\ n <= RingSize
    BY DEF RingSorted
<1>5. \A i, j \in 1 .. Len(f) : i < j => f[i] < f[j]
    BY DEF FifoSorted
<1>6. \A i \in 1 .. n, j \in 1 .. Len(f) : H(i) < f[j]
    BY DEF RingFirst
<1>7. 1 \in 1 .. n /\ b = H(1)
    BY <1>1
<1>8. \A i \in 1 .. Len(f) : f[i] <= a
    BY DEF FifoSorted
<1> HIDE DEF n, b, H, K
<1>9. RingSorted(r, h, Next1(t), b, a)
    <2>1. \A i, j \in 1 .. n - 1 : i < j => K(i) < K(j)
        <3> TAKE i, j \in 1 .. n - 1
        <3> HAVE i < j
        <3>1. i + 1 < j + 1
            BY <1>1
        <3> QED BY <1>2, <1>4, <3>1
    <2>2. \A i \in 1 .. n - 1 : b < K(i) /\ K(i) <= a
        <3> TAKE i \in 1 .. n - 1
        <3>1. 1 < i + 1
            BY <1>1
        <3> QED BY <1>2, <1>4, <1>7, <3>1
    <2>3. n - 1 <= RingSize
        BY <1>1, <1>4
    <2> QED BY <1>1, <2>1, <2>2, <2>3 DEF RingSorted, K
<1>10. FifoSorted(f, b, a)
    BY <1>5, <1>6, <1>7, <1>8 DEF FifoSorted
<1>11. RingFirst(r, h, Next1(t), f)
    BY <1>1, <1>2, <1>6 DEF RingFirst, K
<1> QED
    BY <1>4, <1>7, <1>9, <1>10, <1>11 DEF b

\* A byte arrives behind all the others.
LEMMA ArriveSorted ==
    ASSUME NEW r \in [Slot -> 0 .. MaxBytes], NEW h \in Counter, NEW t \in Counter,
           NEW f \in Seq(1 .. MaxBytes), NEW last \in Int, NEW a \in 0 .. MaxBytes,
           last <= a, a + 1 \in 1 .. MaxBytes,
           RingSorted(r, h, t, last, a), FifoSorted(f, last, a), RingFirst(r, h, t, f)
    PROVE  LET g == Append(f, a + 1)
           IN  /\ RingSorted(r, h, t, last, a + 1) /\ FifoSorted(f, last, a + 1)
               /\ FifoSorted(g, last, a + 1) /\ RingFirst(r, h, t, g)
<1> DEFINE n == Queued(h, t)
           g == Append(f, a + 1)
           H(i) == Held(r, t, i)
           m == Len(f)
<1>1. n \in Nat /\ m \in Nat /\ a \in Int
    BY QueuedValue, LenProperties
<1>2. /\ Len(g) = m + 1 /\ g[m + 1] = a + 1
      /\ \A j \in 1 .. m : g[j] = f[j]
    BY AppendProperties
<1>3. /\ \A i \in 1 .. n : H(i) \in 0 .. MaxBytes
      /\ \A j \in 1 .. m : f[j] \in 1 .. MaxBytes
    BY FifoBytes, HeldBytes
<1>4. /\ \A i, j \in 1 .. n : i < j => H(i) < H(j)
      /\ \A i \in 1 .. n : last < H(i) /\ H(i) <= a
      /\ n <= RingSize
    BY DEF RingSorted
<1>5. /\ \A i, j \in 1 .. m : i < j => f[i] < f[j]
      /\ \A i \in 1 .. m : last < f[i] /\ f[i] <= a
    BY DEF FifoSorted
<1>6. \A i \in 1 .. n, j \in 1 .. m : H(i) < f[j]
    BY DEF RingFirst
<1>7. \A j \in 1 .. m + 1 : j \in 1 .. m \/ j = m + 1
    BY <1>1
<1> HIDE DEF n, g, H, m
<1>8. RingSorted(r, h, t, last, a + 1)
    <2>1. \A i \in 1 .. n : H(i) <= a + 1
        BY <1>1, <1>3, <1>4
    <2> QED BY <1>4, <2>1 DEF RingSorted, H, n
<1>9. FifoSorted(f, last, a + 1)
    <2>1. \A i \in 1 .. m : f[i] <= a + 1
        BY <1>1, <1>3, <1>5
    <2> QED BY <1>5, <2>1 DEF FifoSorted, m
<1>10. FifoSorted(g, last, a + 1)
    <2>1. \A i, j \in 1 .. m + 1 : i < j => g[i] < g[j]
        <3> TAKE i, j \in 1 .. m + 1
        <3> HAVE i < j
        <3>1. i \in 1 .. m
            BY <1>1
        <3>2. CASE j \in 1 .. m
            BY <1>2, <1>5, <3>1, <3>2
        <3>3. CASE j = m + 1
            <4>1. g[i] \in Int /\ g[i] <= a /\ g[j] = a + 1
                BY <1>2, <1>3, <1>5, <3>1, <3>3
            <4> QED BY <1>1, <4>1
        <3> QED BY <1>7, <3>2, <3>3
    <2>2. \A i \in 1 .. m + 1 : last < g[i] /\ g[i] <= a + 1
        BY <1>1, <1>2, <1>3, <1>5, <1>7
    <2> QED BY <1>2, <2>1, <2>2 DEF FifoSorted
<1>11. RingFirst(r, h, t, g)
    <2>1. \A i \in 1 .. n, j \in 1 .. m + 1 : H(i) < g[j]
        <3> TAKE i \in 1 .. n, j \in 1 .. m + 1
        <3>1. CASE j \in 1 .. m
            BY <1>2, <1>6, <3>1
        <3>2. CASE j = m + 1
            BY <1>1, <1>2, <1>3, <1>4, <3>2
        <3> QED BY <1>7, <3>1, <3>2
    <2> QED BY <1>2, <2>1 DEF RingFirst, H, n
<1> QED
    BY <1>8, <1>9, <1>10, <1>11 DEF g

-----------------------------------------------------------------------------
(* The invariant behind BytesInOrder.                                       *)

OrderInv ==
    /\ RingSorted(rx_ring, rx_head, rx_tail, lastRead, arrived)
    /\ FifoSorted(rxFifo, lastRead, arrived)
    /\ RingFirst(rx_ring, rx_head, rx_tail, rxFifo)
    /\ lastRead <= arrived

Inside == {"rx_check", "rx_wait", "rx_copy", "rx_advance"}

\* Whoever is in the reader's loop holds rx_mutex, and the byte it has fetched
\* is still the first of the ring.
ReaderInv ==
    /\ \A p \in Users : pc[p] \in Inside => rx_mutex = p
    /\ \A p \in Users : pc[p] = "rx_advance" =>
          rx_head # rx_tail /\ out[p] = Held(rx_ring, rx_tail, 1)

\* Steps that move no received byte, and steps that move no reader.
LEMMA OrderStays ==
    ASSUME OrderInv,
           UNCHANGED <<rx_ring, rx_head, rx_tail, rxFifo, lastRead, arrived>>
    PROVE  OrderInv'
BY DEF OrderInv

LEMMA ReaderStays ==
    ASSUME ReaderInv, UNCHANGED <<rx_ring, rx_head, rx_tail, out, rx_mutex>>,
           \A q \in Users : pc'[q] \in Inside => pc[q] \in Inside,
           \A q \in Users : pc'[q] = "rx_advance" => pc[q] = "rx_advance"
    PROVE  ReaderInv'
BY DEF ReaderInv

\* A signal wakes readers in front of the lock only.
LEMMA SignalOutside ==
    ASSUME cond_signal_isr
    PROVE  /\ \A q \in Users : pc'[q] \in Inside => pc[q] \in Inside
           /\ \A q \in Users : pc'[q] = "rx_advance" => pc[q] = "rx_advance"
BY DEF cond_signal_isr, Woken, Inside

LEMMA HardwareOrder ==
    ASSUME TypeOK, OrderInv, ReaderInv, Hardware PROVE OrderInv' /\ ReaderInv'
<1> USE DEF hw, handler, ring, locks, local
<1>1. ReaderInv'
    <2>1. UNCHANGED <<rx_ring, rx_head, rx_tail, out, rx_mutex, pc>>
        BY DEF Hardware, RxByte, RxEvent, TxByte
    <2> QED BY <2>1, ReaderStays
<1>2. CASE RxByte
    <2>1. /\ rx_ring \in [Slot -> 0 .. MaxBytes] /\ rx_head \in Counter /\ rx_tail \in Counter
          /\ rxFifo \in Seq(1 .. MaxBytes) /\ lastRead \in Int /\ arrived \in 0 .. MaxBytes
        BY TypeParts, Sizes
    <2>2. /\ arrived' = arrived + 1 /\ arrived + 1 \in 1 .. MaxBytes
          /\ rxFifo' = rxFifo \/ rxFifo' = Append(rxFifo, arrived + 1)
          /\ UNCHANGED <<rx_ring, rx_head, rx_tail, lastRead>>
        BY <1>2, <2>1, Sizes DEF RxByte
    <2>3. LET g == Append(rxFifo, arrived + 1)
          IN  /\ RingSorted(rx_ring, rx_head, rx_tail, lastRead, arrived + 1)
              /\ FifoSorted(rxFifo, lastRead, arrived + 1)
              /\ FifoSorted(g, lastRead, arrived + 1)
              /\ RingFirst(rx_ring, rx_head, rx_tail, g)
        BY <2>1, <2>2, ArriveSorted DEF OrderInv
    <2>4. lastRead <= arrived + 1
        BY <2>1 DEF OrderInv
    <2>5. RingSorted(rx_ring', rx_head', rx_tail', lastRead', arrived')
        BY <2>2, <2>3
    <2>6. FifoSorted(rxFifo', lastRead', arrived')
        BY <2>2, <2>3
    <2>7. RingFirst(rx_ring', rx_head', rx_tail', rxFifo')
        BY <2>2, <2>3 DEF OrderInv
    <2>8. lastRead' <= arrived'
        BY <2>2, <2>4
    <2> QED BY <1>1, <2>5, <2>6, <2>7, <2>8 DEF OrderInv
<1>3. CASE RxEvent \/ TxByte
    <2>1. UNCHANGED <<rx_ring, rx_head, rx_tail, rxFifo, lastRead, arrived>>
        BY <1>3 DEF RxEvent, TxByte
    <2> QED BY <1>1, <2>1, OrderStays
<1> QED
    BY <1>1, <1>2, <1>3 DEF Hardware

LEMMA DrainOrder ==
    ASSUME TypeOK, OrderInv, ReaderInv, IsrDrain PROVE OrderInv' /\ ReaderInv'
<1> USE DEF hw, handler, ring, locks, local
<1>1. /\ rx_ring \in [Slot -> 0 .. MaxBytes] /\ rx_head \in Counter /\ rx_tail \in Counter
      /\ rxFifo \in Seq(1 .. MaxBytes) /\ lastRead \in Int /\ arrived \in Int
    BY TypeParts, Sizes
<1>2. UNCHANGED <<arrived, lastRead, rx_tail, rx_mutex, pc, out>>
    BY DEF IsrDrain
<1>3. CASE rxFifo = <<>>
    <2>1. UNCHANGED <<rx_ring, rx_head, rxFifo>>
        BY <1>3 DEF IsrDrain
    <2> QED BY <1>2, <2>1, OrderStays, ReaderStays
<1>4. CASE rxFifo # <<>> /\ ~(Queued(rx_head, rx_tail) < RingSize)
    <2>1. UNCHANGED <<rx_ring, rx_head>> /\ rxFifo' = Tail(rxFifo)
        BY <1>4 DEF IsrDrain
    <2>2. ReaderInv'
        BY <1>2, <2>1, ReaderStays
    <2>3. /\ FifoSorted(Tail(rxFifo), lastRead, arrived)
          /\ RingFirst(rx_ring, rx_head, rx_tail, Tail(rxFifo))
        BY <1>1, <1>4, DropSorted DEF OrderInv
    <2> QED BY <1>2, <2>1, <2>2, <2>3 DEF OrderInv
<1>5. CASE rxFifo # <<>> /\ Queued(rx_head, rx_tail) < RingSize
    <2> DEFINE q == [rx_ring EXCEPT ![rx_head % RingSize] = Head(rxFifo)]
               n == Queued(rx_head, rx_tail)
    <2>1. rx_ring' = q /\ rx_head' = Next1(rx_head) /\ rxFifo' = Tail(rxFifo)
        BY <1>5 DEF IsrDrain
    <2>2. /\ RingSorted(q, Next1(rx_head), rx_tail, lastRead, arrived)
          /\ FifoSorted(Tail(rxFifo), lastRead, arrived)
          /\ RingFirst(q, Next1(rx_head), rx_tail, Tail(rxFifo))
        BY <1>1, <1>5, StoreSorted DEF OrderInv
    <2>3. \A b \in 0 .. MaxBytes :
             LET f == [rx_ring EXCEPT ![rx_head % RingSize] = b]
             IN  \A i \in 1 .. n : Held(f, rx_tail, i) = Held(rx_ring, rx_tail, i)
        BY <1>1, <1>5, StoredBytes
    <2>4. Head(rxFifo) \in 0 .. MaxBytes
        BY <1>1, <1>5, FifoTail, Sizes
    <2>5. \A i \in 1 .. n : Held(q, rx_tail, i) = Held(rx_ring, rx_tail, i)
        BY <2>3, <2>4
    <2>6. Next1(rx_head) # rx_tail
        <3>1. n \in Nat /\ Queued(Next1(rx_head), rx_tail) = n + 1
            BY <1>1, <1>5, QueuedMore, QueuedValue
        <3>2. Queued(Next1(rx_head), rx_tail) # 0
            BY <3>1
        <3> QED BY <1>1, <3>2, Next1Type, QueuedValue
    <2>7. rx_head # rx_tail => 1 \in 1 .. n
        BY <1>1, QueuedValue
    <2> HIDE DEF q, n
    <2>8. OrderInv'
        BY <1>2, <2>1, <2>2 DEF OrderInv
    <2>9. ReaderInv'
        <3>1. \A p \in Users : pc'[p] \in Inside => rx_mutex' = p
            BY <1>2 DEF ReaderInv
        <3>2. ASSUME NEW p \in Users, pc[p] = "rx_advance"
              PROVE  out[p] = Held(q, rx_tail, 1)
            BY <2>5, <2>7, <3>2 DEF ReaderInv
        <3>3. \A p \in Users : pc'[p] = "rx_advance" =>
                 rx_head' # rx_tail' /\ out'[p] = Held(rx_ring', rx_tail', 1)
            BY <1>2, <2>1, <2>6, <3>2
        <3> QED BY <3>1, <3>3 DEF ReaderInv
    <2> QED BY <2>8, <2>9
<1> QED
    BY <1>3, <1>4, <1>5

LEMMA HandlerOrder ==
    ASSUME TypeOK, OrderInv, ReaderInv, Handler PROVE OrderInv' /\ ReaderInv'
<1> USE DEF hw, handler, ring, locks, local
<1>1. CASE IsrEnter \/ IsrSample
    BY <1>1, OrderStays, ReaderStays DEF IsrEnter, IsrSample
<1>2. CASE IsrTx
    <2>1. UNCHANGED <<rx_ring, rx_head, rx_tail, rxFifo, lastRead, arrived, out, rx_mutex>>
        BY <1>2 DEF IsrTx
    <2>2. cond_signal_isr \/ pc' = pc
        BY <1>2 DEF IsrTx
    <2> QED BY <2>1, <2>2, OrderStays, ReaderStays, SignalOutside
<1>3. CASE IsrSignal
    <2>1. UNCHANGED <<rx_ring, rx_head, rx_tail, rxFifo, lastRead, arrived, out, rx_mutex>>
        BY <1>3 DEF IsrSignal
    <2>2. cond_signal_isr \/ pc' = pc
        BY <1>3 DEF IsrSignal
    <2> QED BY <2>1, <2>2, OrderStays, ReaderStays, SignalOutside
<1>4. CASE IsrDrain
    BY <1>4, DrainOrder
<1> QED
    BY <1>1, <1>2, <1>3, <1>4 DEF Handler

\* A process that goes from p's place to another, when it is alone in the loop.
LEMMA ReaderMoves ==
    ASSUME TypeOK, ReaderInv, NEW p \in Users, NEW place,
           Goto(p, place), place \notin Inside \/ rx_mutex' = p,
           UNCHANGED <<rx_ring, rx_head, rx_tail, out>>, place # "rx_advance",
           rx_mutex' = rx_mutex \/ pc[p] \in Inside \/ rx_mutex = Nobody
    PROVE  ReaderInv'
<1>1. /\ pc'[p] = place
      /\ \A q \in Users \ {p} : pc'[q] = pc[q]
    BY TypeParts DEF Goto
<1>2. \A q \in Users : pc'[q] \in Inside => rx_mutex' = q
    <2> TAKE q \in Users
    <2> HAVE pc'[q] \in Inside
    <2>1. CASE q = p
        BY <1>1, <2>1
    <2>2. CASE q # p
        <3>1. rx_mutex = q /\ q # Nobody
            BY <1>1, <2>2, UartAssumption DEF ReaderInv
        <3>2. ~(pc[p] \in Inside)
            BY <2>2, <3>1 DEF ReaderInv
        <3> QED BY <3>1, <3>2
    <2> QED BY <2>1, <2>2
<1>3. \A q \in Users : pc'[q] = "rx_advance" => pc[q] = "rx_advance"
    BY <1>1
<1> QED
    BY <1>2, <1>3 DEF ReaderInv

LEMMA ReaderOrder ==
    ASSUME TypeOK, OrderInv, ReaderInv, NEW p \in Users,
           RxLock(p) \/ RxCheck(p) \/ RxWait(p) \/ RxCopy(p) \/ RxAdvance(p)
    PROVE  OrderInv' /\ ReaderInv'
<1> USE DEF hw, handler, ring, locks
<1>1. CASE RxLock(p)
    <2>1. /\ UNCHANGED <<rx_ring, rx_head, rx_tail, rxFifo, lastRead, arrived, out>>
          /\ Goto(p, "rx_check") /\ rx_mutex' = p /\ rx_mutex = Nobody
        BY <1>1 DEF RxLock
    <2>2. ReaderInv'
        BY <2>1, ReaderMoves
    <2> QED BY <2>1, <2>2, OrderStays
<1>2. CASE RxCheck(p)
    <2>1. /\ UNCHANGED <<rx_ring, rx_head, rx_tail, rxFifo, lastRead, arrived, out, rx_mutex>>
          /\ Goto(p, "rx_wait") \/ Goto(p, "rx_copy")
          /\ pc[p] = "rx_check"
        BY <1>2 DEF RxCheck, At
    <2>2. rx_mutex' = p
        BY <2>1 DEF ReaderInv, Inside
    <2>3. ReaderInv'
        BY <2>1, <2>2, ReaderMoves
    <2> QED BY <2>1, <2>3, OrderStays
<1>3. CASE RxWait(p)
    <2>1. /\ UNCHANGED <<rx_ring, rx_head, rx_tail, rxFifo, lastRead, arrived, out>>
          /\ \/ Goto(p, "rx_check") /\ rx_mutex' = rx_mutex
             \/ Goto(p, "rx_parked")
          /\ pc[p] = "rx_wait"
        BY <1>3 DEF RxWait, At, cond_wait, Goto
    <2>2. rx_mutex = p /\ pc[p] \in Inside /\ "rx_parked" \notin Inside
        BY <2>1 DEF ReaderInv, Inside
    <2>3. ReaderInv'
        BY <2>1, <2>2, ReaderMoves
    <2> QED BY <2>1, <2>3, OrderStays
<1>4. CASE RxCopy(p) /\ ~(left[p] > 0 /\ rx_head # rx_tail)
    <2>1. /\ UNCHANGED <<rx_ring, rx_head, rx_tail, rxFifo, lastRead, arrived, out>>
          /\ Goto(p, "idle") /\ pc[p] = "rx_copy"
        BY <1>4 DEF RxCopy, At
    <2>2. pc[p] \in Inside /\ "idle" \notin Inside
        BY <2>1 DEF Inside
    <2>3. ReaderInv'
        BY <2>1, <2>2, ReaderMoves
    <2> QED BY <2>1, <2>3, OrderStays
<1>5. CASE RxCopy(p) /\ left[p] > 0 /\ rx_head # rx_tail
    <2>1. /\ UNCHANGED <<rx_ring, rx_head, rx_tail, rxFifo, lastRead, arrived, rx_mutex>>
          /\ Goto(p, "rx_advance") /\ pc[p] = "rx_copy"
          /\ out' = [out EXCEPT ![p] = rx_ring[rx_tail % RingSize]]
        BY <1>5 DEF RxCopy, At
    <2>2. rx_mutex = p
        BY <2>1 DEF ReaderInv, Inside
    <2>3. \A q \in Users \ {p} : pc'[q] = pc[q] /\ ~(pc[q] \in Inside)
        BY <2>1, <2>2, TypeParts DEF Goto, ReaderInv
    <2>4. out'[p] = Held(rx_ring, rx_tail, 1)
        <3>1. rx_tail + 1 - 1 = rx_tail
            BY TypeParts DEF Counter
        <3> QED BY <2>1, <3>1, TypeParts DEF Held
    <2>5. ReaderInv'
        <3>1. "rx_advance" \in Inside
            BY DEF Inside
        <3>2. \A q \in Users : pc'[q] \in Inside => q = p
            BY <2>3
        <3> QED BY <1>5, <2>1, <2>2, <2>4, <3>1, <3>2 DEF ReaderInv
    <2> QED BY <2>1, <2>5, OrderStays
<1>6. CASE RxAdvance(p)
    <2>1. /\ UNCHANGED <<rx_ring, rx_head, rxFifo, arrived, rx_mutex>>
          /\ rx_tail' = Next1(rx_tail) /\ lastRead' = out[p]
          /\ Goto(p, "rx_copy") /\ pc[p] = "rx_advance"
        BY <1>6 DEF RxAdvance, At
    <2>2. rx_mutex = p /\ rx_head # rx_tail /\ out[p] = Held(rx_ring, rx_tail, 1)
        BY <2>1 DEF ReaderInv, Inside
    <2>3. /\ rx_ring \in [Slot -> 0 .. MaxBytes] /\ rx_head \in Counter /\ rx_tail \in Counter
          /\ rxFifo \in Seq(1 .. MaxBytes) /\ lastRead \in Int /\ arrived \in Int
        BY TypeParts, Sizes
    <2>4. LET b == Held(rx_ring, rx_tail, 1)
          IN  /\ RingSorted(rx_ring, rx_head, Next1(rx_tail), b, arrived)
              /\ FifoSorted(rxFifo, b, arrived)
              /\ RingFirst(rx_ring, rx_head, Next1(rx_tail), rxFifo) /\ b <= arrived
        BY <2>2, <2>3, TakeSorted DEF OrderInv
    <2>5. OrderInv'
        BY <2>1, <2>2, <2>4 DEF OrderInv
    <2>6. pc'[p] = "rx_copy" /\ \A q \in Users \ {p} : pc'[q] = pc[q] /\ ~(pc[q] \in Inside)
        BY <2>1, <2>2, TypeParts DEF Goto, ReaderInv
    <2>7. ReaderInv'
        <3>1. \A q \in Users : pc'[q] \in Inside => q = p
            BY <2>6
        <3>2. "rx_advance" \in Inside
            BY DEF Inside
        <3> QED BY <2>1, <2>2, <2>6, <3>1, <3>2 DEF ReaderInv
    <2> QED BY <2>5, <2>7
<1> QED
    BY <1>1, <1>2, <1>3, <1>4, <1>5, <1>6

LEMMA WriterOrder ==
    ASSUME TypeOK, OrderInv, ReaderInv, NEW p \in Users,
           Read(p) \/ Write(p) \/ TxLock(p) \/ TxFill(p) \/ TxArm(p) \/ TxWait(p)
    PROVE  OrderInv' /\ ReaderInv'
<1> USE DEF hw, handler, ring, locks
<1>1. UNCHANGED <<rx_ring, rx_head, rx_tail, rxFifo, lastRead, arrived, out, rx_mutex>>
    BY DEF Read, Write, TxLock, TxFill, TxArm, TxWait
<1>2. \/ pc' = pc
      \/ \E place \in Place \ (Inside \cup {"rx_advance"}) : Goto(p, place)
    BY DEF Read, Write, TxLock, TxFill, TxArm, TxWait, cond_wait, Goto, Inside, Place
<1>3. /\ \A q \in Users : pc'[q] \in Inside => pc[q] \in Inside
      /\ \A q \in Users : pc'[q] = "rx_advance" => pc[q] = "rx_advance"
    BY <1>2, TypeParts DEF Goto
<1> QED
    BY <1>1, <1>3, OrderStays, ReaderStays

\* Every step keeps the order.
LEMMA OrderStep ==
    TypeOK /\ OrderInv /\ ReaderInv /\ [Next]_vars => OrderInv' /\ ReaderInv'
<1> SUFFICES ASSUME TypeOK, OrderInv, ReaderInv, [Next]_vars
             PROVE  OrderInv' /\ ReaderInv'
    OBVIOUS
<1>1. CASE Hardware
    BY <1>1, HardwareOrder
<1>2. CASE Handler
    BY <1>2, HandlerOrder
<1>3. CASE Process
    BY <1>3, ReaderOrder, WriterOrder DEF Process, Resume
<1>4. CASE UNCHANGED vars
    BY <1>4, OrderStays, ReaderStays DEF vars
<1> QED
    BY <1>1, <1>2, <1>3, <1>4 DEF Next

LEMMA OrderInit == Init => OrderInv /\ ReaderInv
<1> SUFFICES ASSUME Init PROVE OrderInv /\ ReaderInv
    OBVIOUS
<1>1. 0 \in Counter /\ RingSize \in Nat
    BY UartAssumption DEF Counter
<1>2. Queued(rx_head, rx_tail) = 0 /\ Len(rxFifo) = 0 /\ lastRead = 0 /\ arrived = 0
    BY <1>1, QueuedValue DEF Init
<1>3. OrderInv
    BY <1>1, <1>2 DEF OrderInv, RingSorted, FifoSorted, RingFirst
<1>4. ReaderInv
    BY DEF Init, ReaderInv, Inside
<1> QED
    BY <1>3, <1>4

\* InTransit is the ring's bytes, then the fifo's.
LEMMA InTransitBytes ==
    ASSUME TypeOK
    PROVE  LET n == Queued(rx_head, rx_tail)
               m == Len(rxFifo)
           IN  /\ n \in Nat /\ m \in Nat
               /\ DOMAIN InTransit = 1 .. n + m
               /\ \A i \in 1 .. n : InTransit[i] = Held(rx_ring, rx_tail, i)
               /\ \A i \in n + 1 .. n + m : InTransit[i] = rxFifo[i - n]
<1> DEFINE n == Queued(rx_head, rx_tail)
           m == Len(rxFifo)
           s == [k \in 1 .. n |-> rx_ring[(rx_tail + k - 1) % RingSize]]
<1>1. /\ rx_ring \in [Slot -> 0 .. MaxBytes] /\ rx_head \in Counter /\ rx_tail \in Counter
      /\ rxFifo \in Seq(1 .. MaxBytes)
    BY TypeParts
<1>2. n \in Nat /\ m \in Nat
    BY <1>1, QueuedValue, LenProperties
<1>3. \A k \in 1 .. n : rx_ring[(rx_tail + k - 1) % RingSize] \in Int
    <2> TAKE k \in 1 .. n
    <2>1. k \in Int
        BY <1>2
    <2> QED BY <1>1, <2>1, HeldType DEF Held
<1> HIDE DEF n
<1>4. s \in Seq(Int) /\ Len(s) = n
    BY <1>2, <1>3
<1>5. rxFifo \in Seq(Int)
    <2>1. 1 .. MaxBytes \subseteq Int
        BY Sizes
    <2> QED BY <1>1, <2>1, SeqMonotonic
<1>6. /\ InTransit \in Seq(Int) /\ Len(InTransit) = n + m
      /\ \A i \in 1 .. n + m :
            InTransit[i] = IF i <= n THEN s[i] ELSE rxFifo[i - n]
    <2>1. InTransit = s \o rxFifo
        BY DEF InTransit, n
    <2> HIDE DEF s
    <2> QED BY <1>4, <1>5, <2>1, ConcatProperties
<1>7. DOMAIN InTransit = 1 .. n + m
    BY <1>6, LenProperties
<1>8. \A i \in 1 .. n : s[i] = Held(rx_ring, rx_tail, i)
    BY DEF Held
<1> HIDE DEF s
<1>9. \A i \in 1 .. n : i \in 1 .. n + m /\ i <= n
    BY <1>2
<1>10. \A i \in n + 1 .. n + m : i \in 1 .. n + m /\ ~(i <= n)
    BY <1>2
<1> QED
    BY <1>2, <1>6, <1>7, <1>8, <1>9, <1>10 DEF n

LEMMA OrderMeans == TypeOK /\ OrderInv /\ ReaderInv => BytesInOrder
<1> SUFFICES ASSUME TypeOK, OrderInv, ReaderInv PROVE BytesInOrder
    OBVIOUS
<1> DEFINE n == Queued(rx_head, rx_tail)
           m == Len(rxFifo)
           B == InTransit
           H(i) == Held(rx_ring, rx_tail, i)
<1>1. /\ n \in Nat /\ m \in Nat /\ DOMAIN B = 1 .. n + m
      /\ \A i \in 1 .. n : B[i] = H(i)
      /\ \A i \in n + 1 .. n + m : B[i] = rxFifo[i - n]
    BY InTransitBytes
<1>2. /\ \A i, j \in 1 .. n : i < j => H(i) < H(j)
      /\ \A i \in 1 .. n : lastRead < H(i)
      /\ n <= RingSize
    BY DEF OrderInv, RingSorted
<1>3. /\ \A i, j \in 1 .. m : i < j => rxFifo[i] < rxFifo[j]
      /\ \A i \in 1 .. m : lastRead < rxFifo[i]
    BY DEF OrderInv, FifoSorted
<1>4. \A i \in 1 .. n, j \in 1 .. m : H(i) < rxFifo[j]
    BY DEF OrderInv, RingFirst
<1>5. \A p \in Users : pc[p] = "rx_advance" => rx_head # rx_tail /\ out[p] = H(1)
    BY DEF ReaderInv
<1>6. rx_head # rx_tail => 1 \in 1 .. n
    BY TypeParts, QueuedValue
<1> HIDE DEF n, m, B, H
<1>7. \A i \in 1 .. n + m : i \in 1 .. n \/ (i \in n + 1 .. n + m /\ i - n \in 1 .. m)
    BY <1>1
<1>8. \A i, j \in DOMAIN B : i < j => B[i] < B[j]
    <2> SUFFICES ASSUME NEW i \in 1 .. n + m, NEW j \in 1 .. n + m, i < j
                 PROVE  B[i] < B[j]
        BY <1>1
    <2>1. CASE i \in 1 .. n /\ j \in 1 .. n
        BY <1>1, <1>2, <2>1
    <2>2. CASE i \in 1 .. n /\ j \in n + 1 .. n + m
        <3>1. j - n \in 1 .. m
            BY <1>1, <2>2
        <3> QED BY <1>1, <1>4, <2>2, <3>1
    <2>3. CASE i \in n + 1 .. n + m /\ j \in n + 1 .. n + m
        <3>1. i - n \in 1 .. m /\ j - n \in 1 .. m /\ i - n < j - n
            BY <1>1, <2>3
        <3> QED BY <1>1, <1>3, <2>3, <3>1
    <2>4. ~(i \in n + 1 .. n + m /\ j \in 1 .. n)
        BY <1>1
    <2> QED BY <1>7, <2>1, <2>2, <2>3, <2>4
<1>9. \A i \in DOMAIN B : B[i] > lastRead
    <2> SUFFICES ASSUME NEW i \in 1 .. n + m PROVE lastRead < B[i]
        <3>1. ASSUME NEW i \in 1 .. n + m, lastRead < B[i] PROVE B[i] > lastRead
            BY <3>1
        <3> QED BY <1>1, <3>1
    <2>1. CASE i \in 1 .. n
        BY <1>1, <1>2, <2>1
    <2>2. CASE i \in n + 1 .. n + m /\ i - n \in 1 .. m
        BY <1>1, <1>3, <2>2
    <2> QED BY <1>7, <2>1, <2>2
<1>10. \A p \in Users : pc[p] = "rx_advance" => rx_head # rx_tail /\ out[p] = B[1]
    BY <1>1, <1>5, <1>6
<1> QED
    BY <1>2, <1>8, <1>9, <1>10 DEF BytesInOrder, B, n

\* Bytes reach the reader in the order they arrived, none twice and none
\* overwritten in the ring: for every size of the ring that divides the range
\* of the two free-running counters, however many processes read, and wherever
\* the handler or a wrap of a counter falls between a fetch and its advance.
THEOREM BytesStayInOrder == Spec => []BytesInOrder
<1>1. Init => OrderInv /\ ReaderInv
    BY OrderInit
<1>2. TypeOK /\ OrderInv /\ ReaderInv /\ [Next]_vars => OrderInv' /\ ReaderInv'
    BY OrderStep
<1>3. TypeOK /\ OrderInv /\ ReaderInv => BytesInOrder
    BY OrderMeans
<1> QED
    BY <1>1, <1>2, <1>3, UartTypes, PTL DEF Spec
=============================================================================
