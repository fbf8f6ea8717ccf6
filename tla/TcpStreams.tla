----------------------------- MODULE TcpStreams -----------------------------
(***************************************************************************)
(* The retransmission timer and the two byte streams of a connection, for  *)
(* any sizes, numbers and clients: whatever becomes outstanding is timed,  *)
(* what is read is what the client sent, what the client takes is what was *)
(* written, and what write() counts as acknowledged has arrived.           *)
(***************************************************************************)
EXTENDS Tcp, SequenceTheorems, TLAPS

-----------------------------------------------------------------------------
(* The timer: whatever becomes outstanding, on whichever path through the  *)
(* receiver and the application, its process is told of it.                *)

IsCtrl(c) ==
    /\ DOMAIN c = {"state", "remote", "snd_una", "snd_nxt", "rcv_nxt", "tx_flags",
                   "tx_data", "retries", "sender", "send_err", "rx_head", "rx_tail",
                   "rx_eof"}
    /\ c.snd_una \in Seqno
IsEffect(e) == DOMAIN e = {"c", "ring", "sent", "woken"} /\ IsCtrl(e.c)

\* From e to f nothing became outstanding and no signal was taken back.
Keeps(e, f) ==
    /\ IsEffect(f)
    /\ f.c.snd_una = e.c.snd_una /\ f.c.snd_nxt = e.c.snd_nxt
    /\ e.woken \subseteq f.woken

\* What is outstanding now and was not before, the timer's process hears of.
Told(e) ==
    /\ IsEffect(e)
    /\ Outstanding(e.c) => Outstanding(ctrl) \/ "rto" \in e.woken

-----------------------------------------------------------------------------
(* Sequence numbers.                                                       *)

LEMMA ModValue ==
    ASSUME NEW w \in Nat \ {0}, NEW d \in Int
    PROVE  /\ 0 <= d /\ d < w => d % w = d
           /\ -w <= d /\ d < 0 => d % w = d + w
BY SMTT(60)

LEMMA DiffValue ==
    ASSUME NEW a \in Seqno, NEW b \in Seqno
    PROVE  (a - b) % SeqWrap = IF a >= b THEN a - b ELSE a - b + SeqWrap
<1>1. SeqWrap \in Nat \ {0} /\ a \in 0 .. SeqWrap - 1 /\ b \in 0 .. SeqWrap - 1
    BY TcpAssumption DEF Seqno
<1> DEFINE d == a - b
<1>2. d \in Int /\ -SeqWrap <= d /\ d < SeqWrap
    BY <1>1
<1>3. /\ 0 <= d => d % SeqWrap = d
      /\ d < 0 => d % SeqWrap = d + SeqWrap
    <2> HIDE DEF d
    <2> QED BY <1>1, <1>2, ModValue
<1> QED
    BY <1>1, <1>3

\* A number cannot be after and not after the same number.
LEMMA AckOnce ==
    ASSUME NEW a \in Seqno, NEW b \in Seqno, 2 * ((a - b) % SeqWrap) # SeqWrap
    PROVE  ~(SEQ_LT(a, b) /\ SEQ_LEQ(b, a))
<1>1. /\ (a - b) % SeqWrap = IF a >= b THEN a - b ELSE a - b + SeqWrap
      /\ (b - a) % SeqWrap = IF b >= a THEN b - a ELSE b - a + SeqWrap
    BY DiffValue
<1>2. SeqWrap \in Nat \ {0} /\ a \in 0 .. SeqWrap - 1 /\ b \in 0 .. SeqWrap - 1
    BY TcpAssumption DEF Seqno
<1> QED
    BY <1>1, <1>2 DEF SEQ_LT, SEQ_LEQ, Diff

-----------------------------------------------------------------------------
(* The calls an effect is built from.                                      *)

LEMMA SignalKeeps ==
    ASSUME NEW e, IsEffect(e), NEW cond
    PROVE  Keeps(e, Signal(e, cond)) /\ Signal(e, cond).c = e.c /\ cond \in Signal(e, cond).woken
BY DEF Keeps, IsEffect, Signal

LEMMA SendKeeps ==
    ASSUME NEW e, IsEffect(e), NEW seq, NEW flags, NEW data
    PROVE  Keeps(e, send(e, seq, flags, data)) /\ send(e, seq, flags, data).c = e.c
BY DEF Keeps, IsEffect, send

LEMMA SendAckKeeps ==
    ASSUME NEW e, IsEffect(e)
    PROVE  Keeps(e, send_ack(e)) /\ send_ack(e).c = e.c
BY SendKeeps DEF send_ack

LEMMA SendUnackedKeeps ==
    ASSUME NEW e, IsEffect(e)
    PROVE  Keeps(e, send_unacked(e)) /\ send_unacked(e).c = e.c
BY SendKeeps DEF send_unacked

LEMMA RxPutKeeps ==
    ASSUME NEW e, IsEffect(e), NEW data
    PROVE  Keeps(e, rx_put(e, data))
BY DEF Keeps, IsEffect, IsCtrl, rx_put

\* A new segment is announced.
LEMMA SendNewTold ==
    ASSUME NEW e, IsEffect(e), NEW flags, NEW data
    PROVE  Told(send_new(e, flags, data)) /\ "rto" \in send_new(e, flags, data).woken
<1> DEFINE f == [e EXCEPT !.c.tx_flags = flags, !.c.tx_data = data, !.c.retries = 0]
<1>1. IsEffect(f)
    BY DEF IsEffect, IsCtrl
<1> HIDE DEF f
<1>2. IsEffect(send_unacked(f))
    BY <1>1, SendUnackedKeeps DEF Keeps
<1>3. send_new(e, flags, data) = Signal(send_unacked(f), "rto")
    BY DEF send_new, f
<1> QED
    BY <1>2, <1>3, SignalKeeps DEF Told, Keeps

\* After disconnect() nothing is outstanding.
LEMMA DisconnectTold ==
    ASSUME NEW e, IsEffect(e)
    PROVE  Told(disconnect(e)) /\ ~Outstanding(disconnect(e).c) /\ disconnect(e).c.state = "CLOSED"
<1> DEFINE c == [Zero EXCEPT !.send_err = IF e.c.sender THEN -1 ELSE 0]
           f == [e EXCEPT !.c = c]
<1>1. IsCtrl(c) /\ c.snd_una = 0 /\ c.snd_nxt = 0 /\ c.state = "CLOSED"
    BY TcpAssumption DEF IsCtrl, Zero, Seqno
<1> HIDE DEF c
<1>2. IsEffect(f) /\ f.c = c
    BY <1>1 DEF IsEffect
<1>3. disconnect(e) = Signal(Signal(f, "conn"), "listen")
    BY DEF disconnect, c
<1> HIDE DEF f
<1>4. IsEffect(Signal(f, "conn")) /\ Signal(f, "conn").c = c
    BY <1>2, SignalKeeps DEF Keeps
<1>5. IsEffect(disconnect(e)) /\ disconnect(e).c = c
    BY <1>3, <1>4, SignalKeeps DEF Keeps
<1> QED
    BY <1>1, <1>5 DEF Told, Outstanding

\* Told survives what makes nothing outstanding.
LEMMA ToldKept ==
    ASSUME NEW e, Told(e), NEW f, Keeps(e, f)
    PROVE  Told(f)
BY DEF Told, Keeps, Outstanding

LEMMA BeginTold == ASSUME IsCtrl(ctrl) PROVE Told(Begin) /\ Begin.c = ctrl
BY DEF Told, IsEffect, Begin

-----------------------------------------------------------------------------
(* tcp_recv.                                                               *)

LEMMA RecvListenTold ==
    ASSUME IsCtrl(ctrl), connects \in Nat, NEW s, Opens(s) => connects < Len(Iss)
    PROVE  Told(RecvListen(s))
<1> DEFINE iss == Iss[connects + 1]
           e == [Begin EXCEPT !.c.remote = s.port, !.c.rcv_nxt = Plus(s.seq, 1),
                              !.c.snd_una = iss, !.c.snd_nxt = Plus(iss, 1),
                              !.c.state = "SYN_RCVD"]
           r == [Begin EXCEPT !.sent = {Segment(s.port, s.ack, 0, {"RST"}, <<>>)}]
<1>1. Opens(s) => IsEffect(e)
    <2> SUFFICES ASSUME Opens(s) PROVE IsEffect(e)
        OBVIOUS
    <2>1. iss \in Seqno
        BY TcpAssumption
    <2> HIDE DEF iss
    <2> QED BY <2>1, BeginTold DEF Told, IsEffect, IsCtrl
<1>2. Told(r)
    BY DEF Begin, Told, IsEffect
<1> HIDE DEF e, r
<1>3. \/ Opens(s) /\ RecvListen(s) = send_new(e, {"SYN", "ACK"}, <<>>)
      \/ RecvListen(s) \in {r, Begin}
    BY DEF RecvListen, e, r
<1> QED
    BY <1>1, <1>2, <1>3, SendNewTold, BeginTold

LEMMA AcknowledgedTold ==
    ASSUME NEW e, IsEffect(e), ~Outstanding(e.c)
    PROVE  Told(Acknowledged(e))
<1> DEFINE f == Signal(e, "rto")
           h == [f EXCEPT !.c.sender = FALSE, !.c.send_err = 0]
           g == IF f.c.sender THEN Signal(h, "conn") ELSE f
           k == [g EXCEPT !.c.state = "ESTABLISHED"]
           m == [g EXCEPT !.c.state = "FIN_WAIT_2"]
<1>1. Keeps(e, f)
    BY SignalKeeps
<1>2. Keeps(f, h)
    BY <1>1 DEF Keeps, IsEffect, IsCtrl
<1>3. Keeps(h, Signal(h, "conn"))
    BY <1>2, SignalKeeps DEF Keeps
<1>4. IsEffect(g) /\ g.c.snd_una = e.c.snd_una /\ g.c.snd_nxt = e.c.snd_nxt
    BY <1>1, <1>2, <1>3 DEF Keeps
<1>5. Acknowledged(e) \in {Signal(k, "listen"), m, disconnect(g), g}
    BY DEF Acknowledged
<1> HIDE DEF f, h, g
<1>6. /\ IsEffect(k) /\ k.c.snd_una = g.c.snd_una /\ k.c.snd_nxt = g.c.snd_nxt
      /\ IsEffect(m) /\ m.c.snd_una = g.c.snd_una /\ m.c.snd_nxt = g.c.snd_nxt
    BY <1>4 DEF IsEffect, IsCtrl
<1> HIDE DEF k, m
<1>7. Told(k) /\ Told(m) /\ Told(g)
    BY <1>4, <1>6 DEF Told, Outstanding
<1> QED
    BY <1>4, <1>5, <1>6, <1>7, SignalKeeps, ToldKept, DisconnectTold

LEMMA TakeAckTold ==
    ASSUME NEW e, Told(e), e.c.snd_una = ctrl.snd_una,
           e.c.snd_nxt = ctrl.snd_nxt, NEW s, s.port = ctrl.remote, AckSane(s)
    PROVE  Told(TakeAck(e, s))
<1> DEFINE f == [e EXCEPT !.c.snd_una = s.ack]
<1>1. NewAck(e.c, s) => IsEffect(f)
    BY DEF Told, IsEffect, IsCtrl, NewAck, AckSane
<1>2. CASE ~NewAck(e.c, s)
    BY <1>2 DEF TakeAck
<1>3. CASE NewAck(e.c, s)
    \* Something was outstanding before, so that the timer's process counts.
    <2>1. Outstanding(ctrl)
        <3> SUFFICES ASSUME ctrl.snd_una = ctrl.snd_nxt, ~Outstanding(ctrl) PROVE FALSE
            BY DEF Outstanding
        <3>1. SEQ_LT(ctrl.snd_una, s.ack) /\ SEQ_LEQ(s.ack, ctrl.snd_una) /\ "ACK" \in s.flags
            BY <1>3 DEF NewAck
        <3>2. ctrl.snd_una \in Seqno
            BY DEF Told, IsEffect, IsCtrl
        <3> QED BY <3>1, <3>2, AckOnce DEF AckSane
    <2>2. TakeAck(e, s) = IF Outstanding(f.c) THEN f ELSE Acknowledged(f)
        BY <1>3 DEF TakeAck
    <2> HIDE DEF f
    <2> QED BY <1>1, <1>3, <2>1, <2>2, AcknowledgedTold DEF Told
<1> QED
    BY <1>2, <1>3

LEMMA TakeDataTold ==
    ASSUME NEW e, Told(e), NEW s
    PROVE  Told(TakeData(e, s))
<1> DEFINE f == [e EXCEPT !.c.rcv_nxt = Plus(@, Len(s.data))]
           g == IF f.c.state = "ESTABLISHED" THEN rx_put(f, s.data) ELSE f
<1>1. Keeps(e, f)
    BY DEF Told, Keeps, IsEffect, IsCtrl
<1>2. TakeData(e, s) \in {send_ack(e), Signal(send_ack(g), "conn")}
    BY DEF TakeData
<1> HIDE DEF f
<1>3. Told(f) /\ IsEffect(f)
    BY <1>1, ToldKept DEF Told
<1>4. Told(g)
    BY <1>3, RxPutKeeps, ToldKept
<1> HIDE DEF g
<1>5. Told(send_ack(g)) /\ Told(send_ack(e))
    BY <1>4, SendAckKeeps, ToldKept DEF Told
<1>6. Told(Signal(send_ack(g), "conn"))
    BY <1>5, SignalKeeps, ToldKept DEF Told
<1> QED
    BY <1>2, <1>5, <1>6

LEMMA TakeFinTold ==
    ASSUME NEW e, Told(e), NEW s
    PROVE  Told(TakeFin(e, s))
<1> DEFINE d == [e EXCEPT !.c.rcv_nxt = Plus(@, 1)]
           f == send_ack(d)
           g == [f EXCEPT !.c.state = "CLOSE_WAIT", !.c.rx_eof = TRUE]
<1>1. Keeps(e, d)
    BY DEF Told, Keeps, IsEffect, IsCtrl
<1>2. TakeFin(e, s) \in {send_ack(e), Signal(g, "conn"), disconnect(f), e}
    BY DEF TakeFin
<1> HIDE DEF d
<1>3. Told(d) /\ IsEffect(d)
    BY <1>1, ToldKept DEF Told
<1>4. Told(f) /\ IsEffect(f)
    BY <1>3, SendAckKeeps, ToldKept DEF Told
<1> HIDE DEF f
<1>5. Keeps(f, g)
    BY <1>4 DEF Keeps, IsEffect, IsCtrl
<1> HIDE DEF g
<1>6. Told(Signal(g, "conn"))
    BY <1>4, <1>5, SignalKeeps, ToldKept DEF Told
<1> QED
    BY <1>2, <1>4, <1>6, SendAckKeeps, DisconnectTold, ToldKept DEF Told

LEMMA RecvTold ==
    ASSUME IsCtrl(ctrl), connects \in Nat, NEW s, AckSane(s),
           Opens(s) => connects < Len(Iss)
    PROVE  Told(recv(s))
<1>1. Told(Begin) /\ Begin.c = ctrl /\ IsEffect(Begin)
    BY BeginTold DEF Told
<1>2. s.port = ctrl.remote => Told(TakeAck(Begin, s))
    BY <1>1, TakeAckTold
<1>3. s.port = ctrl.remote => Told(RecvSegment(s))
    <2> SUFFICES ASSUME s.port = ctrl.remote PROVE Told(RecvSegment(s))
        OBVIOUS
    <2> DEFINE a == TakeAck(Begin, s)
               d == IF s.data # <<>> /\ a.c.state # "CLOSED" THEN TakeData(a, s) ELSE a
    <2>1. RecvSegment(s) \in {d, TakeFin(d, s)}
        BY DEF RecvSegment
    <2>2. Told(d)
        BY <1>2, TakeDataTold
    <2> HIDE DEF d
    <2> QED BY <2>1, <2>2, TakeFinTold
<1>4. \/ recv(s) \in {RecvListen(s), Begin, disconnect(Begin), send_unacked(Begin)}
      \/ s.port = ctrl.remote /\ recv(s) = RecvSegment(s)
    BY DEF recv
<1> QED
    BY <1>1, <1>3, <1>4, RecvListenTold, DisconnectTold, SendUnackedKeeps, ToldKept

-----------------------------------------------------------------------------
(* The steps.                                                              *)

RtoInv == IsCtrl(ctrl) /\ connects \in Nat /\ RtoArmed

\* A stretch of code that signals what it makes outstanding keeps the timer
\* armed.
LEMMA ToldArms ==
    ASSUME RtoInv, NEW e, Told(e), NEW in, Commit(e, in), WakeTimer(e), connects' \in Nat
    PROVE  RtoInv'
BY DEF RtoInv, RtoArmed, Told, IsEffect, Commit, WakeTimer

\* Steps that leave the control block's numbers alone.
LEMMA RtoQuiet ==
    ASSUME RtoInv, IsCtrl(ctrl'), ctrl'.snd_una = ctrl.snd_una,
           ctrl'.snd_nxt = ctrl.snd_nxt, timer' # "idle" \/ timer' = timer, connects' = connects
    PROVE  RtoInv'
BY DEF RtoInv, RtoArmed, Outstanding

LEMMA TimerKeeps == ASSUME RtoInv, Timer PROVE RtoInv'
<1>1. CASE TimerTimeout
    BY <1>1, RtoQuiet DEF TimerTimeout, server, RtoInv
<1>2. CASE TimerRun
    <2> DEFINE e == IF timer = "timed_out" THEN Expired ELSE Begin
               b == [Begin EXCEPT !.c.retries = @ + 1]
    <2>1. IsEffect(Begin) /\ IsEffect(b)
        BY BeginTold DEF RtoInv, Told, IsEffect, IsCtrl
    <2> HIDE DEF b
    <2>2. e \in {disconnect(Begin), send_unacked(b), Begin}
        BY DEF Expired, b
    <2>3. IsEffect(e)
        BY <2>1, <2>2, DisconnectTold, SendUnackedKeeps DEF Told, Keeps
    <2>4. connects' = connects /\ ctrl' = e.c /\ timer' = IF Outstanding(e.c) THEN "rto" ELSE "idle"
        BY <1>2 DEF TimerRun, Commit
    <2> HIDE DEF e
    <2> QED BY <2>3, <2>4 DEF RtoInv, RtoArmed, IsEffect
<1> QED
    BY <1>1, <1>2 DEF Timer

LEMMA SendDataKeeps == ASSUME RtoInv, SendData PROVE RtoInv'
<1>1. CASE ~connected(ctrl) \/ Outstanding(ctrl)
    BY <1>1, RtoQuiet DEF SendData, RtoInv
<1>2. CASE ~(~connected(ctrl) \/ Outstanding(ctrl))
    <2> DEFINE b == [Begin EXCEPT !.c.sender = TRUE, !.c.snd_nxt = Plus(@, Chunk)]
               data == [k \in 1 .. Chunk |-> written + k]
               e == send_new(b, {"PSH", "ACK"}, data)
    <2>1. IsEffect(b)
        BY BeginTold DEF RtoInv, Told, IsEffect, IsCtrl
    <2>2. Commit(e, toServer) /\ WakeTimer(e) /\ connects' \in Nat
        BY <1>2 DEF SendData, RtoInv
    <2> HIDE DEF b, data
    <2>3. Told(e)
        BY <2>1, SendNewTold
    <2> QED BY <2>2, <2>3, ToldArms
<1> QED
    BY <1>1, <1>2

LEMMA CloseKeeps == ASSUME RtoInv, Close \/ CloseResume PROVE RtoInv'
<1>1. Told(Begin) /\ IsEffect(Begin)
    BY BeginTold DEF RtoInv, Told
<1>2. connects' = connects /\ \E e : Told(e) /\ Commit(e, toServer) /\ WakeTimer(e)
    <2>1. CASE Close
        <3> DEFINE b == [Begin EXCEPT !.c.rx_tail = ctrl.rx_head]
                   state == IF ctrl.state = "ESTABLISHED" THEN "FIN_WAIT_1" ELSE "LAST_ACK"
                   f == [b EXCEPT !.c.state = state, !.c.snd_nxt = Plus(@, 1)]
                   n == send_new(f, {"FIN", "ACK"}, <<>>)
                   e == IF connected(ctrl) /\ ~Outstanding(ctrl) THEN n ELSE b
        <3>1. Keeps(Begin, b)
            BY <1>1 DEF Keeps, IsEffect, IsCtrl
        <3>2. CloseLoop(e)
            BY <2>1 DEF Close
        <3> HIDE DEF b
        <3>3. Told(b) /\ IsEffect(b)
            BY <1>1, <3>1, ToldKept DEF Told
        <3>4. IsEffect(f)
            BY <3>3 DEF IsEffect, IsCtrl
        <3> HIDE DEF f
        <3>5. Told(n)
            BY <3>4, SendNewTold
        <3> HIDE DEF n
        <3> QED BY <3>2, <3>3, <3>5 DEF CloseLoop
    <2>2. CASE CloseResume
        <3> DEFINE e == IF appWait = "timed_out" THEN disconnect(Begin) ELSE Begin
        <3>1. CloseLoop(e)
            BY <2>2 DEF CloseResume
        <3>2. Told(e)
            BY <1>1, DisconnectTold
        <3> HIDE DEF e
        <3> QED BY <3>1, <3>2 DEF CloseLoop
    <2> QED BY <2>1, <2>2
<1> QED
    BY <1>2, ToldArms DEF RtoInv

LEMMA ApplicationKeeps ==
    ASSUME RtoInv, Application PROVE RtoInv'
<1> USE DEF server
<1>1. CASE Listen \/ Write \/ SendDone \/ CloseTimeout
    <2>1. UNCHANGED <<ctrl, timer, connects>>
        BY <1>1 DEF Listen, Write, SendDone, CloseTimeout
    <2> QED BY <2>1, RtoQuiet DEF RtoInv
<1>2. CASE Unlisten \/ Accept \/ Read
    <2>1. /\ IsCtrl(ctrl') /\ ctrl'.snd_una = ctrl.snd_una /\ ctrl'.snd_nxt = ctrl.snd_nxt
          /\ timer' = timer /\ connects' = connects
        <3>1. CASE Unlisten
            BY <3>1 DEF Unlisten, RtoInv, IsCtrl
        <3>2. CASE Accept
            BY <3>2 DEF Accept, RtoInv, IsCtrl
        <3>3. CASE Read
            BY <3>3 DEF Read, RtoInv, IsCtrl
        <3> QED BY <1>2, <3>1, <3>2, <3>3
    <2> QED BY <2>1, RtoQuiet
<1> QED
    BY <1>1, <1>2, SendDataKeeps, CloseKeeps DEF Application

LEMMA RtoNext ==
    ASSUME RtoInv, AcksSane, [Next]_vars
    PROVE  RtoInv'
<1>1. ASSUME NEW s \in toServer, tcp_recv(s) PROVE RtoInv'
    <2>1. Told(recv(s))
        BY <1>1, RecvTold DEF RtoInv, AcksSane, tcp_recv
    <2>2. (\E in : Commit(recv(s), in)) /\ WakeTimer(recv(s)) /\ connects' \in Nat
        BY <1>1 DEF tcp_recv, RtoInv
    <2> QED BY <2>1, <2>2, ToldArms
<1>2. CASE Peer \/ Lose
    <2>1. UNCHANGED <<ctrl, timer, connects>>
        BY <1>2 DEF Peer, Lose, PeerSyn, PeerData, PeerAck, PeerFin, PeerAbort,
                    PeerReturns, PeerRecv, server
    <2> QED BY <2>1, RtoQuiet DEF RtoInv
<1>3. CASE UNCHANGED vars
    BY <1>3, RtoQuiet DEF vars, RtoInv
<1> QED
    BY <1>1, <1>2, <1>3, TimerKeeps, ApplicationKeeps DEF Next

\* A segment that is outstanding is being timed, for any sequence numbers,
\* sizes and peers: no order of segments, timeouts, writes and closes leaves
\* the timer's process in its unbounded wait (send_new, TakeAck,
\* tcp_timer_proc), provided that no acknowledgement is exactly half the
\* sequence space away.
THEOREM TimerStaysArmed == Spec /\ []AcksSane => []RtoArmed
<1>1. Init => RtoInv
    <2>1. Zero.snd_una = 0 /\ Zero.snd_nxt = 0 /\ 0 \in Seqno
        BY TcpAssumption DEF Zero, Seqno
    <2>2. IsCtrl(Zero)
        BY <2>1 DEF IsCtrl, Zero
    <2> QED BY <2>1, <2>2 DEF Init, RtoInv, RtoArmed, Outstanding
<1>2. RtoInv /\ AcksSane /\ [Next]_vars => RtoInv'
    BY RtoNext
<1>3. RtoInv => RtoArmed
    BY DEF RtoInv
<1> QED
    BY <1>1, <1>2, <1>3, PTL DEF Spec

-----------------------------------------------------------------------------
(* The streams.                                                            *)

\* The numbers of a connection span less than half of the sequence space, and
\* the initial numbers of two connections lie further apart than the bytes
\* that are written to one: no number of one is the first of another.
Roomy ==
    /\ 2 * (MaxWritten + 4) < SeqWrap /\ PeerBytes + 2 < SeqWrap
    /\ \A i, j \in 1 .. Len(Iss) : i # j =>
          \A n \in 0 .. MaxWritten + 2 : Plus(Iss[i], n) # Iss[j]

-----------------------------------------------------------------------------
(* The world in which the control block lives.                             *)

\* The number of connection k before which n numbers were used.
At(k, n) == Plus(Iss[k], n)

\* The n bytes of a stream after its first i.
Span(i, n) == [x \in 1 .. n |-> i + x]

Open(q) == q.state \in {"open", "gone"}

\* A client, as far as it does not talk.
ClientType ==
    [state : {"new", "syn_sent", "open", "gone"}, sent : 0 .. PeerBytes, fin : BOOLEAN,
     rcv_nxt : Seqno, got : Seq(Nat)]

\* What client q has sent.
Upward(s, q) ==
    /\ s.flags \in {{"SYN"}, {"ACK"}, {"FIN", "ACK"}, {"RST"}}
    /\ s.flags = {"SYN"} => s.seq = Isn /\ s.data = <<>>
    /\ s.flags = {"RST"} => s.data = <<>>
    /\ "ACK" \in s.flags => Open(q)
    /\ "FIN" \in s.flags => q.fin
    /\ "FIN" \in s.flags /\ s.data = <<>> => s.seq = PeerSeq(1 + q.sent)
    /\ s.data \in Seq(Nat)
    /\ s.data # <<>> =>
          \E i \in 0 .. q.sent :
              /\ s.seq = PeerSeq(1 + i) /\ s.data = Span(i, Len(s.data))
              /\ i + Len(s.data) <= q.sent
              /\ "FIN" \in s.flags => i + Len(s.data) = q.sent

\* What the server has sent on connection k, of n bytes and perhaps a FIN.
Downward(s, k, n, fin) ==
    /\ s.data \in Seq(Nat)
    /\ "FIN" \in s.flags =>
          fin /\ s.data = <<>> /\ s.seq \in {At(k, 1 + n), At(k, 2 + n)}
    /\ s.data # <<>> =>
          \E i \in 0 .. n : /\ s.seq = At(k, 1 + i) /\ s.data = Span(i, Len(s.data))
                            /\ i + Len(s.data) <= n

\* What a client has not opened a connection on.
Unopened(s) ==
    /\ s.data = <<>> /\ "FIN" \notin s.flags
    /\ {"SYN", "ACK"} \subseteq s.flags => \E k \in 1 .. connects : s.seq = At(k, 0)

\* What a client acknowledges of connection k.
Acks(s, k, got, fin) ==
    "ACK" \in s.flags => \E m \in 0 .. got + (IF fin THEN 2 ELSE 0) : s.ack = At(k, 1 + m)

\* Client p has opened connection k, on which n bytes and perhaps a FIN were
\* sent: what it has, what it acknowledges and what is on its way to it. A FIN
\* that is repeated when it has been acknowledged has the number after it.
On(p, k, n, fin) ==
    LET q == peer[p]
        got == Len(q.got)
    IN  /\ Open(q)
        /\ q.got = Bytes(got) /\ got <= n
        /\ \E f \in 0 .. 2 : q.rcv_nxt = At(k, 1 + got + f) /\ (f > 0 => fin /\ got = n)
        /\ \A s \in toServer : s.port = p => Acks(s, k, got, fin)
        /\ \A s \in toPeer : s.port = p => Downward(s, k, n, fin)

PeerOk(p) ==
    IF Open(peer[p])
    THEN \E k \in 1 .. connects, n \in 0 .. MaxWritten, fin \in BOOLEAN : On(p, k, n, fin)
    ELSE /\ peer[p].got = <<>> /\ peer[p].sent = 0 /\ ~peer[p].fin
         /\ \A s \in toPeer : s.port = p => Unopened(s)

World ==
    /\ connects \in 0 .. Len(Iss)
    /\ peer \in [Port -> ClientType]
    /\ \A s \in toServer : s.port \in Port /\ Upward(s, peer[s.port])
    /\ \A s \in toPeer : s.port \in Port
    /\ \A p \in Port : PeerOk(p)

-----------------------------------------------------------------------------
(* The control block.                                                      *)

\* The bytes given to send_data for the connection.
Sent == written + (IF app = "writing" /\ appWait # "no" THEN Chunk ELSE 0)

CtrlType(c) ==
    /\ IsCtrl(c)
    /\ c.state \in State /\ c.remote \in Port \cup {NoPort}
    /\ c.snd_nxt \in Seqno /\ c.rcv_nxt \in Seqno
    /\ c.retries \in 0 .. MaxRetries /\ c.sender \in BOOLEAN /\ c.send_err \in {0, -1}
    /\ c.rx_head \in Nat /\ c.rx_tail \in Nat /\ c.rx_eof \in BOOLEAN
    /\ Queued(c) \in 0 .. RingSize

\* No connection.
FreeOk(c) ==
    /\ c.remote = NoPort /\ c.snd_una = 0 /\ c.snd_nxt = 0 /\ c.tx_data = <<>>
    /\ ~c.sender /\ c.rx_head = 0 /\ c.rx_tail = 0 /\ ~c.rx_eof

\* A connection that the client may have opened, or refuses because it knows
\* another one by that port.
OpeningOk(c) ==
    /\ c.remote \in Port /\ connects > 0
    /\ c.snd_una = At(connects, 0) /\ c.snd_nxt = At(connects, 1)
    /\ c.tx_flags = {"SYN", "ACK"} /\ c.tx_data = <<>>
    /\ ~c.sender /\ c.rx_head = 0 /\ c.rx_tail = 0 /\ ~c.rx_eof
    /\ \/ /\ c.rcv_nxt = PeerSeq(1)
          /\ Open(peer[c.remote]) => On(c.remote, connects, 0, FALSE)
       \/ \E k \in 1 .. connects - 1, n \in 0 .. MaxWritten, fin \in BOOLEAN : On(c.remote, k, n, fin)

\* The way to the client: u of the bytes sent are acknowledged.
SendOk(c) ==
    \E u \in 0 .. Sent :
        /\ c.snd_una = At(connects, 1 + u) /\ c.snd_nxt = At(connects, 1 + Sent)
        /\ u <= Len(peer[c.remote].got)
        /\ c.tx_data \in Seq(Nat) /\ Len(c.tx_data) <= Sent /\ Sent - u <= Len(c.tx_data)
        /\ c.tx_data = Span(Sent - Len(c.tx_data), Len(c.tx_data))
        /\ "FIN" \notin c.tx_flags
        /\ ~c.sender => u = Sent
        /\ c.sender => app = "writing" /\ appWait # "no"

\* The way from the client: the ring holds what follows the bytes read.
RecvOk(c, ring) ==
    LET got == Len(bytesRead) + Queued(c)
        q == peer[c.remote]
    IN  /\ \A x \in 1 .. Queued(c) : ring[(c.rx_tail + x - 1) % RingSize] = Len(bytesRead) + x
        /\ got <= q.sent
        /\ c.state = "ESTABLISHED" => ~c.rx_eof /\ c.rcv_nxt = PeerSeq(1 + got)
        /\ c.state = "CLOSE_WAIT" => c.rx_eof /\ q.fin /\ got = q.sent

ConnOk(c, ring) ==
    /\ c.remote \in Port /\ connects > 0
    /\ On(c.remote, connects, Sent, FALSE) /\ SendOk(c) /\ RecvOk(c, ring)

Ending(c) == c.state \in {"FIN_WAIT_1", "FIN_WAIT_2", "LAST_ACK"}

EndingOk(c) ==
    /\ c.remote \in Port /\ connects > 0
    /\ On(c.remote, connects, Sent, TRUE)
    /\ \E f \in {1, 2} : c.snd_una = At(connects, f + Sent)
    /\ c.snd_nxt = At(connects, 2 + Sent)
    /\ c.tx_flags = {"FIN", "ACK"} /\ c.tx_data = <<>> /\ ~c.sender

\* The application's place and the connection's.
StageOk(c) ==
    /\ app \in {"idle", "accepting"} => ~Ending(c)
    /\ app \in {"open", "reading", "writing"} =>
          c.state = "CLOSED" \/ (connected(c) /\ c.remote = conn)
    /\ app = "closing" => c.state = "CLOSED" \/ (Ending(c) /\ c.remote = conn)
    /\ app = "writing" /\ appWait # "no" /\ ~c.sender /\ c.send_err = 0 =>
          Sent <= Len(peer[conn].got)
    /\ app = "writing" /\ appWait # "no" /\ ~c.sender /\ connected(c) => c.send_err = 0

CtrlOk(c, ring) ==
    /\ CtrlType(c)
    /\ c.state \in {"CLOSED", "LISTEN"} => FreeOk(c)
    /\ c.state = "SYN_RCVD" => OpeningOk(c)
    /\ connected(c) => ConnOk(c, ring)
    /\ Ending(c) => EndingOk(c)
    /\ StageOk(c)

AppOk ==
    /\ app \in {"idle", "accepting", "open", "reading", "writing", "closing"}
    /\ appWait \in {"no", "listen", "conn", "woken", "timed_out"}
    /\ left \in 0 .. WriteLen /\ written \in 0 .. MaxWritten
    /\ app = "writing" => left > 0 /\ written + left <= MaxWritten
    /\ bytesRead = Bytes(Len(bytesRead)) /\ bytesRead \in Seq(Nat)
    /\ app \in {"idle", "accepting"} <=> conn = NoPort
    /\ conn = NoPort => written = 0 /\ bytesRead = <<>>
    /\ conn # NoPort => conn \in Port /\ written <= Len(peer[conn].got)

\* A timeout of a connection that is gone starts from no retries.
TimerOk ==
    /\ timer \in {"idle", "rto", "woken", "timed_out"}
    /\ ctrl.state \in {"CLOSED", "LISTEN"} /\ timer \in {"rto", "timed_out"} => ctrl.retries = 0

StreamInv == World /\ CtrlOk(ctrl, rx_ring) /\ AppOk /\ TimerOk

-----------------------------------------------------------------------------
(* Sequence numbers that are not half the space apart.                     *)

LEMMA Sizes ==
    /\ SeqWrap \in Nat \ {0} /\ RingSize \in Nat \ {0} /\ Mss \in Nat \ {0} /\ Window \in Nat \ {0}
    /\ ReadMax \in Nat \ {0} /\ WriteLen \in Nat \ {0} /\ MaxRetries \in Nat \ {0}
    /\ PeerBytes \in Nat /\ MaxWritten \in Nat /\ NetCap \in Nat
    /\ Isn \in Seqno /\ Iss \in Seq(Seqno) /\ NoPort \notin Port /\ 0 \in Seqno
<1>1. SeqWrap \in Nat \ {0} /\ RingSize \in Nat \ {0}
    BY TcpAssumption, Zenon
<1>2. {Mss, Window, ReadMax, WriteLen} \subseteq Nat \ {0} /\ {PeerBytes, MaxWritten, NetCap} \subseteq Nat
    BY TcpAssumption, Zenon
<1>3. 0 \in Seqno
    BY <1>1 DEF Seqno
<1> QED
    BY <1>1, <1>2, <1>3, TcpAssumption, Zenon

LEMMA PlusValue ==
    ASSUME NEW a \in Seqno, NEW n \in Nat, n < SeqWrap
    PROVE  /\ Plus(a, n) = IF a + n < SeqWrap THEN a + n ELSE a + n - SeqWrap
           /\ Plus(a, n) \in Seqno
<1>1. SeqWrap \in Nat \ {0} /\ a \in 0 .. SeqWrap - 1
    BY Sizes DEF Seqno
<1> DEFINE d == a + n
           e == d - SeqWrap
<1>2. CASE d < SeqWrap
    <2>1. d \in Int /\ 0 <= d
        BY <1>1
    <2> HIDE DEF d
    <2>2. d % SeqWrap = d
        BY <1>1, <1>2, <2>1, ModValue
    <2> QED BY <1>1, <1>2, <2>1, <2>2 DEF d, Plus, Seqno
<1>3. CASE ~(d < SeqWrap)
    <2>1. e \in Int /\ 0 <= e /\ e < SeqWrap /\ d = e + SeqWrap
        BY <1>1, <1>3
    <2> HIDE DEF e
    <2>2. d % SeqWrap = e
        <3>1. (e + SeqWrap) % SeqWrap = e % SeqWrap
            BY <1>1, <2>1, SMTT(60)
        <3>2. e % SeqWrap = e
            BY <1>1, <2>1, ModValue
        <3> QED BY <2>1, <3>1, <3>2
    <2> QED BY <1>1, <1>3, <2>1, <2>2 DEF e, Plus, Seqno
<1> QED
    BY <1>2, <1>3

LEMMA PlusPlus ==
    ASSUME NEW a \in Seqno, NEW i \in Nat, NEW j \in Nat, i + j < SeqWrap
    PROVE  Plus(Plus(a, i), j) = Plus(a, i + j)
<1>1. SeqWrap \in Nat \ {0} /\ a \in 0 .. SeqWrap - 1
    BY Sizes DEF Seqno
<1>2. /\ i < SeqWrap /\ j < SeqWrap /\ i + j \in Nat
    BY <1>1
<1> DEFINE b == Plus(a, i)
           c == Plus(a, i + j)
           d == Plus(b, j)
<1>3. /\ b = (IF a + i < SeqWrap THEN a + i ELSE a + i - SeqWrap) /\ b \in Seqno
      /\ c = (IF a + (i + j) < SeqWrap THEN a + (i + j) ELSE a + (i + j) - SeqWrap)
    BY <1>2, PlusValue
<1> HIDE DEF b, c
<1>4. d = IF b + j < SeqWrap THEN b + j ELSE b + j - SeqWrap
    BY <1>2, <1>3, PlusValue
<1> HIDE DEF d
<1>5. d = c
    BY <1>1, <1>2, <1>3, <1>4
<1> QED
    BY <1>5 DEF b, c, d

LEMMA PlusDiff ==
    ASSUME NEW a \in Seqno, NEW i \in Nat, NEW j \in Nat, i < SeqWrap, j < SeqWrap
    PROVE  (Plus(a, i) - Plus(a, j)) % SeqWrap = IF i >= j THEN i - j ELSE i - j + SeqWrap
<1>1. SeqWrap \in Nat \ {0} /\ a \in 0 .. SeqWrap - 1
    BY Sizes DEF Seqno
<1> DEFINE b == Plus(a, i)
           c == Plus(a, j)
<1>2. /\ b = (IF a + i < SeqWrap THEN a + i ELSE a + i - SeqWrap) /\ b \in Seqno
      /\ c = (IF a + j < SeqWrap THEN a + j ELSE a + j - SeqWrap) /\ c \in Seqno
    BY PlusValue
<1> HIDE DEF b, c
<1>3. (b - c) % SeqWrap = IF b >= c THEN b - c ELSE b - c + SeqWrap
    BY <1>2, DiffValue
<1>4. b \in Int /\ c \in Int
    BY <1>2 DEF Seqno
<1>5. (IF b >= c THEN b - c ELSE b - c + SeqWrap) = IF i >= j THEN i - j ELSE i - j + SeqWrap
    BY <1>1, <1>2, <1>4
<1> QED
    BY <1>3, <1>5 DEF b, c

\* Two numbers of one connection are equal only if they are the same.
LEMMA PlusSame ==
    ASSUME NEW a \in Seqno, NEW i \in Nat, NEW j \in Nat, i < SeqWrap, j < SeqWrap,
           Plus(a, i) = Plus(a, j)
    PROVE  i = j
<1>1. SeqWrap \in Nat \ {0} /\ a \in 0 .. SeqWrap - 1
    BY Sizes DEF Seqno
<1> DEFINE b == Plus(a, i)
           c == Plus(a, j)
<1>2. /\ b = (IF a + i < SeqWrap THEN a + i ELSE a + i - SeqWrap)
      /\ c = (IF a + j < SeqWrap THEN a + j ELSE a + j - SeqWrap)
      /\ b = c
    BY PlusValue
<1> HIDE DEF b, c
<1> QED
    BY <1>1, <1>2

\* SEQ_LT and SEQ_LEQ compare what was counted.
LEMMA PlusOrder ==
    ASSUME NEW a \in Seqno, NEW i \in Nat, NEW j \in Nat, 2 * i < SeqWrap, 2 * j < SeqWrap
    PROVE  /\ SEQ_LT(Plus(a, i), Plus(a, j)) <=> i < j
           /\ SEQ_LEQ(Plus(a, i), Plus(a, j)) <=> i <= j
<1>1. SeqWrap \in Nat /\ i < SeqWrap /\ j < SeqWrap
    BY Sizes
<1> DEFINE d == (Plus(a, i) - Plus(a, j)) % SeqWrap
<1>2. d = IF i >= j THEN i - j ELSE i - j + SeqWrap
    BY <1>1, PlusDiff
<1>3. Diff(Plus(a, i), Plus(a, j)) = IF 2 * d >= SeqWrap THEN d - SeqWrap ELSE d
    BY DEF Diff
<1> HIDE DEF d
<1>4. Diff(Plus(a, i), Plus(a, j)) = i - j
    BY <1>1, <1>2, <1>3
<1> QED
    BY <1>4 DEF SEQ_LT, SEQ_LEQ

\* While only a SYN is outstanding one number acknowledges it.
LEMMA OnlyTheSyn ==
    ASSUME NEW a \in Seqno, NEW ack \in Seqno, SeqWrap > 1,
           SEQ_LT(Plus(a, 0), ack), SEQ_LEQ(ack, Plus(a, 1))
    PROVE  ack = Plus(a, 1)
<1>1. SeqWrap \in Nat \ {0} /\ a \in 0 .. SeqWrap - 1 /\ ack \in 0 .. SeqWrap - 1
    BY Sizes DEF Seqno
<1> DEFINE m == IF ack >= a THEN ack - a ELSE ack - a + SeqWrap
<1>2. m \in Nat /\ m < SeqWrap
    BY <1>1
<1>3. Plus(a, m) = ack
    <2>1. Plus(a, m) = IF a + m < SeqWrap THEN a + m ELSE a + m - SeqWrap
        BY <1>2, PlusValue
    <2> QED BY <1>1, <2>1
<1> HIDE DEF m
<1> DEFINE d == (Plus(a, 0) - Plus(a, m)) % SeqWrap
           e == (Plus(a, m) - Plus(a, 1)) % SeqWrap
<1>4. /\ d = IF 0 >= m THEN 0 - m ELSE 0 - m + SeqWrap
      /\ e = IF m >= 1 THEN m - 1 ELSE m - 1 + SeqWrap
    BY <1>1, <1>2, PlusDiff
<1>5. /\ (IF 2 * d >= SeqWrap THEN d - SeqWrap ELSE d) < 0
      /\ (IF 2 * e >= SeqWrap THEN e - SeqWrap ELSE e) <= 0
    BY <1>3 DEF SEQ_LT, SEQ_LEQ, Diff
<1> HIDE DEF d, e
<1>6. m = 1
    BY <1>1, <1>2, <1>4, <1>5
<1> QED
    BY <1>3, <1>6

-----------------------------------------------------------------------------
(* The calls a stretch of code is built from.                              *)

\* A segment without data, SYN or FIN.
Plain(x) == x.data = <<>> /\ x.flags \cap {"SYN", "FIN"} = {}

IsStretch(e) == DOMAIN e = {"c", "ring", "sent", "woken"} /\ "no" \notin e.woken

EffectOk(e) ==
    /\ IsStretch(e) /\ CtrlOk(e.c, e.ring)
    /\ \A x \in e.sent : Plain(x)
    /\ e.c.state \in {"CLOSED", "LISTEN"} => e.c.retries = 0

LEMMA SignalIs ==
    ASSUME NEW e, IsStretch(e), NEW cond, cond # "no"
    PROVE  /\ IsStretch(Signal(e, cond)) /\ Signal(e, cond).c = e.c
           /\ Signal(e, cond).ring = e.ring /\ Signal(e, cond).sent = e.sent
BY DEF Signal, IsStretch

LEMMA SendIs ==
    ASSUME NEW e, IsStretch(e), NEW seq, NEW flags, NEW data
    PROVE  /\ IsStretch(send(e, seq, flags, data)) /\ send(e, seq, flags, data).c = e.c
           /\ send(e, seq, flags, data).ring = e.ring
           /\ send(e, seq, flags, data).sent =
                 e.sent \cup {Segment(e.c.remote, seq, e.c.rcv_nxt, flags, data)}
BY DEF send, IsStretch

LEMMA SendAckIs ==
    ASSUME NEW e, IsStretch(e), \A x \in e.sent : Plain(x)
    PROVE  /\ IsStretch(send_ack(e)) /\ send_ack(e).c = e.c /\ send_ack(e).ring = e.ring
           /\ \A x \in send_ack(e).sent : Plain(x)
<1>1. send_ack(e) = send(e, e.c.snd_nxt, {"ACK"}, <<>>)
    BY DEF send_ack
<1>2. Plain(Segment(e.c.remote, e.c.snd_nxt, e.c.rcv_nxt, {"ACK"}, <<>>))
    BY DEF Plain, Segment
<1> QED
    BY <1>1, <1>2, SendIs

LEMMA SendAckOk == ASSUME NEW e, EffectOk(e) PROVE EffectOk(send_ack(e))
BY SendAckIs DEF EffectOk

LEMMA SignalOk == ASSUME NEW e, EffectOk(e), NEW cond, cond # "no" PROVE EffectOk(Signal(e, cond))
BY SignalIs DEF EffectOk

LEMMA BeginOk ==
    ASSUME CtrlOk(ctrl, rx_ring), ctrl.state \in {"CLOSED", "LISTEN"} => ctrl.retries = 0
    PROVE  EffectOk(Begin) /\ Begin.c = ctrl
BY DEF Begin, EffectOk, IsStretch

\* The control block that disconnect() leaves.
LEMMA ZeroIs ==
    ASSUME NEW err \in {0, -1}
    PROVE  /\ CtrlType([Zero EXCEPT !.send_err = err]) /\ FreeOk([Zero EXCEPT !.send_err = err])
           /\ [Zero EXCEPT !.send_err = err].state = "CLOSED"
           /\ [Zero EXCEPT !.send_err = err].send_err = err
           /\ [Zero EXCEPT !.send_err = err].retries = 0
<1> DEFINE c == [Zero EXCEPT !.send_err = err]
<1>1. /\ c.state = "CLOSED" /\ c.remote = NoPort /\ c.snd_una = 0 /\ c.snd_nxt = 0 /\ c.rcv_nxt = 0
      /\ c.tx_data = <<>> /\ c.retries = 0 /\ c.send_err = err
      /\ c.sender \in BOOLEAN /\ ~c.sender /\ c.rx_eof \in BOOLEAN /\ ~c.rx_eof
      /\ c.rx_head = 0 /\ c.rx_tail = 0
      /\ DOMAIN c = {"state", "remote", "snd_una", "snd_nxt", "rcv_nxt", "tx_flags",
                     "tx_data", "retries", "sender", "send_err", "rx_head", "rx_tail", "rx_eof"}
    BY DEF Zero
<1> HIDE DEF c
<1>2. Queued(c) = 0
    BY <1>1 DEF Queued
<1>3. CtrlType(c)
    <2>1. IsCtrl(c)
        BY <1>1, Sizes DEF IsCtrl
    <2>2. 0 \in 0 .. MaxRetries /\ 0 \in 0 .. RingSize
        BY Sizes
    <2>3. c.state \in State /\ c.snd_nxt \in Seqno /\ c.rcv_nxt \in Seqno /\ c.send_err \in {0, -1}
        BY <1>1, Sizes DEF State
    <2>4. /\ c.remote \in Port \cup {NoPort} /\ c.retries \in 0 .. MaxRetries
          /\ c.sender \in BOOLEAN /\ c.rx_eof \in BOOLEAN
          /\ c.rx_head \in Nat /\ c.rx_tail \in Nat
        BY <1>1, <2>2
    <2>5. Queued(c) \in 0 .. RingSize
        BY <1>2, <2>2
    <2> QED BY <2>1, <2>3, <2>4, <2>5 DEF CtrlType
<1> QED
    BY <1>1, <1>3 DEF FreeOk, c

LEMMA DisconnectIs ==
    ASSUME NEW e, IsStretch(e)
    PROVE  /\ IsStretch(disconnect(e))
           /\ disconnect(e).c = [Zero EXCEPT !.send_err = IF e.c.sender THEN -1 ELSE 0]
           /\ disconnect(e).ring = e.ring /\ disconnect(e).sent = e.sent
<1> DEFINE c == [Zero EXCEPT !.send_err = IF e.c.sender THEN -1 ELSE 0]
           f == [e EXCEPT !.c = c]
<1>1. disconnect(e) = Signal(Signal(f, "conn"), "listen")
    BY DEF disconnect
<1> HIDE DEF c
<1>2. IsStretch(f) /\ f.c = c /\ f.ring = e.ring /\ f.sent = e.sent
    BY DEF IsStretch
<1> HIDE DEF f
<1>3. /\ IsStretch(Signal(f, "conn")) /\ Signal(f, "conn").c = c
      /\ Signal(f, "conn").ring = e.ring /\ Signal(f, "conn").sent = e.sent
    BY <1>2, SignalIs
<1> QED
    BY <1>1, <1>3, SignalIs DEF c

\* A connection that is given up: a sender who was not answered yet learns
\* it; one who was has had its bytes delivered.
LEMMA DisconnectFits ==
    ASSUME NEW c, NEW ring, CtrlOk(c, ring), c.state # "CLOSED" \/ app = "closing",
           app \in {"idle", "accepting", "open", "reading", "writing", "closing"}, NEW ring2
    PROVE  CtrlOk([Zero EXCEPT !.send_err = IF c.sender THEN -1 ELSE 0], ring2)
<1> DEFINE err == IF c.sender THEN -1 ELSE 0
           z == [Zero EXCEPT !.send_err = err]
<1>1. err \in {0, -1}
    OBVIOUS
<1>2. CtrlType(z) /\ FreeOk(z) /\ z.state = "CLOSED" /\ z.send_err = err
    <2> HIDE DEF err
    <2> QED BY <1>1, ZeroIs
<1>3. ~c.sender /\ app = "writing" /\ appWait # "no" => Sent <= Len(peer[conn].got)
    <2> SUFFICES ASSUME ~c.sender, app = "writing", appWait # "no"
                 PROVE  Sent <= Len(peer[conn].got)
        OBVIOUS
    <2>1. connected(c) /\ c.remote = conn
        BY DEF CtrlOk, StageOk
    <2>2. SendOk(c)
        BY <2>1 DEF CtrlOk, ConnOk
    <2> QED BY <2>1, <2>2 DEF SendOk
<1>4. StageOk(z)
    <2>1. err = 0 => ~c.sender
        OBVIOUS
    <2> HIDE DEF z, err
    <2> QED BY <1>2, <1>3, <2>1 DEF StageOk, Ending, connected
<1> HIDE DEF z
<1>5. CtrlOk(z, ring2)
    BY <1>2, <1>4 DEF CtrlOk, connected, Ending
<1> QED
    BY <1>5 DEF z

LEMMA DisconnectOk ==
    ASSUME NEW e, EffectOk(e), e.c.state # "CLOSED" \/ app = "closing", AppOk
    PROVE  EffectOk(disconnect(e))
<1>1. CtrlOk(disconnect(e).c, disconnect(e).ring)
    <2>1. app \in {"idle", "accepting", "open", "reading", "writing", "closing"}
        BY DEF AppOk
    <2>2. IsStretch(e) /\ CtrlOk(e.c, e.ring)
        BY DEF EffectOk
    <2>3. CtrlOk([Zero EXCEPT !.send_err = IF e.c.sender THEN -1 ELSE 0], e.ring)
        BY <2>1, <2>2, DisconnectFits
    <2> QED BY <2>2, <2>3, DisconnectIs
<1>2. disconnect(e).c.retries = 0
    <2> DEFINE err == IF e.c.sender THEN -1 ELSE 0
    <2>1. err \in {0, -1} /\ disconnect(e).c = [Zero EXCEPT !.send_err = err]
        BY DisconnectIs DEF EffectOk
    <2> HIDE DEF err
    <2> QED BY <2>1, ZeroIs
<1> QED
    BY <1>1, <1>2, DisconnectIs DEF EffectOk

-----------------------------------------------------------------------------
(* Acknowledgements.                                                       *)

LEMMA PlusOneSame ==
    ASSUME NEW a \in Seqno, NEW b \in Seqno, SeqWrap > 1, Plus(a, 1) = Plus(b, 1)
    PROVE  a = b
<1>1. SeqWrap \in Nat /\ a \in 0 .. SeqWrap - 1 /\ b \in 0 .. SeqWrap - 1
    BY Sizes DEF Seqno
<1> DEFINE x == Plus(a, 1)
           y == Plus(b, 1)
<1>2. /\ x = (IF a + 1 < SeqWrap THEN a + 1 ELSE a + 1 - SeqWrap)
      /\ y = (IF b + 1 < SeqWrap THEN b + 1 ELSE b + 1 - SeqWrap)
      /\ x = y
    BY PlusValue
<1> HIDE DEF x, y
<1> QED
    BY <1>1, <1>2

LEMMA Room ==
    ASSUME Roomy
    PROVE  /\ SeqWrap > 1 /\ 2 * (MaxWritten + 4) < SeqWrap /\ PeerBytes + 2 < SeqWrap
           /\ SeqWrap \in Nat /\ MaxWritten \in Nat /\ PeerBytes \in Nat
           /\ \A k \in 1 .. Len(Iss) : Iss[k] \in Seqno
           /\ \A i, j \in 1 .. Len(Iss) : i # j =>
                 \A n \in 0 .. MaxWritten + 2 : Plus(Iss[i], n) # Iss[j]
<1>1. SeqWrap \in Nat \ {0} /\ MaxWritten \in Nat /\ PeerBytes \in Nat /\ Iss \in Seq(Seqno)
    BY Sizes
<1>2. 2 * (MaxWritten + 4) < SeqWrap /\ PeerBytes + 2 < SeqWrap
    BY DEF Roomy
<1>3. SeqWrap > 1
    BY <1>1, <1>2
<1>4. \A k \in 1 .. Len(Iss) : Iss[k] \in Seqno
    BY <1>1
<1> QED
    BY <1>1, <1>2, <1>3, <1>4 DEF Roomy

\* A client that knows another connection by that port.
Stale(p) ==
    \E k \in 1 .. connects - 1, n \in 0 .. MaxWritten, fin \in BOOLEAN : On(p, k, n, fin)

\* What it acknowledges is not this connection's SYN.
LEMMA StaleAck ==
    ASSUME Roomy, World, NEW p \in Port, Stale(p), NEW s \in toServer, s.port = p,
           "ACK" \in s.flags, connects > 0
    PROVE  s.ack \in Seqno /\ s.ack # At(connects, 1)
<1>1. PICK k \in 1 .. connects - 1, n \in 0 .. MaxWritten, fin \in BOOLEAN : On(p, k, n, fin)
    BY DEF Stale
<1> DEFINE got == Len(peer[p].got)
<1>2. got \in Nat /\ got <= n
    BY <1>1 DEF On, World, ClientType
<1>3. PICK m \in 0 .. got + (IF fin THEN 2 ELSE 0) : s.ack = At(k, 1 + m)
    BY <1>1 DEF On, Acks
<1> HIDE DEF got
<1>4. m \in 0 .. MaxWritten + 2 /\ m \in Nat /\ 1 + m \in Nat /\ m + 1 = 1 + m /\ 1 + m < SeqWrap
    BY <1>2, <1>3, Room
<1>5. k \in 1 .. Len(Iss) /\ connects \in 1 .. Len(Iss) /\ k # connects
    BY <1>1 DEF World
<1>6. Iss[k] \in Seqno /\ Iss[connects] \in Seqno /\ Plus(Iss[k], m) # Iss[connects]
    <2>1. \A n1 \in 0 .. MaxWritten + 2 : Plus(Iss[k], n1) # Iss[connects]
        <3>1. connects \in 1 .. Len(Iss) /\ k \in 1 .. Len(Iss) /\ k # connects
            BY <1>5
        <3> QED BY <3>1 DEF Roomy
    <2>2. Iss[k] \in Seqno /\ Iss[connects] \in Seqno
        BY <1>5, Room
    <2> QED BY <1>4, <2>1, <2>2
<1>7. Plus(Plus(Iss[k], m), 1) = Plus(Iss[k], m + 1) /\ Plus(Iss[k], m) \in Seqno
    <2>1. m \in Nat /\ 1 \in Nat /\ m + 1 < SeqWrap /\ m < SeqWrap /\ Iss[k] \in Seqno
        BY <1>4, <1>6, Room
    <2> QED BY <2>1, PlusPlus, PlusValue
<1>8. Plus(Plus(Iss[k], m), 1) # Plus(Iss[connects], 1)
    BY <1>6, <1>7, PlusOneSame, Room
<1>9. s.ack \in Seqno
    BY <1>3, <1>4, <1>6, PlusValue DEF At
<1> QED
    BY <1>3, <1>4, <1>7, <1>8, <1>9 DEF At

\* What a client that is on the connection acknowledges.
LEMMA AckOn ==
    ASSUME Roomy, World, NEW p \in Port, NEW n \in 0 .. MaxWritten, NEW fin \in BOOLEAN,
           On(p, connects, n, fin), connects > 0,
           NEW s \in toServer, s.port = p, "ACK" \in s.flags
    PROVE  /\ Acks(s, connects, Len(peer[p].got), fin)
           /\ Len(peer[p].got) \in 0 .. n /\ Iss[connects] \in Seqno
<1>1. Len(peer[p].got) \in Nat /\ Len(peer[p].got) <= n
    BY DEF On, World, ClientType
<1>2. connects \in 1 .. Len(Iss)
    BY DEF World
<1>3. Iss[connects] \in Seqno
    BY <1>2, Room
<1>4. Acks(s, connects, Len(peer[p].got), fin)
    BY DEF On
<1>5. Len(peer[p].got) \in 0 .. n
    BY <1>1
<1> QED
    BY <1>3, <1>4, <1>5

\* Numbers of one connection, as the receiver compares them.
LEMMA AtOrder ==
    ASSUME Roomy, Iss[connects] \in Seqno, NEW i \in 0 .. MaxWritten + 3, NEW j \in 0 .. MaxWritten + 3
    PROVE  /\ SEQ_LT(At(connects, i), At(connects, j)) <=> i < j
           /\ SEQ_LEQ(At(connects, i), At(connects, j)) <=> i <= j
           /\ At(connects, i) = At(connects, j) => i = j
           /\ At(connects, i) \in Seqno
<1>1. i \in Nat /\ j \in Nat /\ 2 * i < SeqWrap /\ 2 * j < SeqWrap /\ i < SeqWrap /\ j < SeqWrap
    BY Room
<1> QED
    BY <1>1, PlusOrder, PlusSame, PlusValue DEF At

LEMMA SentBounds == ASSUME AppOk PROVE Sent \in 0 .. MaxWritten
<1>1. written \in 0 .. MaxWritten /\ MaxWritten \in Nat /\ left \in Nat /\ Mss \in Nat
    BY Sizes DEF AppOk
<1>2. CASE app = "writing"
    <2>1. left > 0 /\ written + left <= MaxWritten
        BY <1>2 DEF AppOk
    <2>2. Chunk \in Nat /\ Chunk <= left
        BY <1>1 DEF Chunk, Min
    <2> QED BY <1>1, <2>1, <2>2 DEF Sent
<1>3. CASE app # "writing"
    BY <1>1, <1>3 DEF Sent
<1> QED
    BY <1>2, <1>3

\* c and d differ in what an acknowledgement moves.
Alike(c, d) ==
    /\ DOMAIN d = DOMAIN c
    /\ d.remote = c.remote /\ d.snd_nxt = c.snd_nxt /\ d.rcv_nxt = c.rcv_nxt
    /\ d.tx_flags = c.tx_flags /\ d.tx_data = c.tx_data /\ d.retries = c.retries
    /\ d.rx_head = c.rx_head /\ d.rx_tail = c.rx_tail /\ d.rx_eof = c.rx_eof

\* A sender is released.
Rel(c) == IF c.sender THEN [c EXCEPT !.sender = FALSE, !.send_err = 0] ELSE c

LEMMA RelIs ==
    ASSUME NEW c, IsCtrl(c), c.sender \in BOOLEAN
    PROVE  /\ Alike(c, Rel(c)) /\ Rel(c).state = c.state /\ Rel(c).snd_una = c.snd_una
           /\ Rel(c).sender \in BOOLEAN /\ ~Rel(c).sender
           /\ Rel(c).send_err = IF c.sender THEN 0 ELSE c.send_err
<1>1. CASE c.sender
    BY <1>1 DEF Rel, IsCtrl, Alike
<1>2. CASE ~c.sender
    BY <1>2 DEF Rel, Alike
<1> QED
    BY <1>1, <1>2

LEMMA MovedIs ==
    ASSUME NEW c, IsCtrl(c), NEW st, NEW d, d = [c EXCEPT !.state = st]
    PROVE  /\ Alike(c, d) /\ d.state = st /\ d.snd_una = c.snd_una
           /\ d.sender = c.sender /\ d.send_err = c.send_err
BY DEF IsCtrl, Alike

LEMMA AckedIs ==
    ASSUME NEW c, IsCtrl(c), NEW ack, NEW d, d = [c EXCEPT !.snd_una = ack]
    PROVE  /\ Alike(c, d) /\ d.state = c.state /\ d.snd_una = ack
           /\ d.sender = c.sender /\ d.send_err = c.send_err
BY DEF IsCtrl, Alike

LEMMA AcknowledgedIs ==
    ASSUME NEW e, IsStretch(e), IsCtrl(e.c), e.c.sender \in BOOLEAN
    PROVE  /\ IsStretch(Acknowledged(e))
           /\ Acknowledged(e).ring = e.ring /\ Acknowledged(e).sent = e.sent
           /\ Acknowledged(e).c =
                 CASE e.c.state = "SYN_RCVD" -> [Rel(e.c) EXCEPT !.state = "ESTABLISHED"]
                   [] e.c.state = "FIN_WAIT_1" -> [Rel(e.c) EXCEPT !.state = "FIN_WAIT_2"]
                   [] e.c.state = "LAST_ACK" -> [Zero EXCEPT !.send_err = 0]
                   [] OTHER -> Rel(e.c)
<1> DEFINE f == Signal(e, "rto")
           h == [f EXCEPT !.c.sender = FALSE, !.c.send_err = 0]
           g == IF f.c.sender THEN Signal(h, "conn") ELSE f
           k == [g EXCEPT !.c.state = "ESTABLISHED"]
           m == [g EXCEPT !.c.state = "FIN_WAIT_2"]
<1>1. Acknowledged(e) = CASE g.c.state = "SYN_RCVD" -> Signal(k, "listen")
                          [] g.c.state = "FIN_WAIT_1" -> m
                          [] g.c.state = "LAST_ACK" -> disconnect(g)
                          [] OTHER -> g
    BY DEF Acknowledged
<1>2. IsStretch(f) /\ f.c = e.c /\ f.ring = e.ring /\ f.sent = e.sent
    BY SignalIs
<1>3. /\ IsStretch(g) /\ g.ring = e.ring /\ g.sent = e.sent /\ g.c = Rel(e.c)
    <2>1. CASE f.c.sender
        <3>1. /\ IsStretch(h) /\ h.ring = e.ring /\ h.sent = e.sent
              /\ h.c = [f.c EXCEPT !.sender = FALSE, !.send_err = 0]
            <4> HIDE DEF f
            <4> QED BY <1>2 DEF IsStretch, IsCtrl
        <3>2. h.c = Rel(e.c)
            BY <1>2, <2>1, <3>1 DEF Rel
        <3> HIDE DEF h
        <3> QED BY <2>1, <3>1, <3>2, SignalIs
    <2>2. CASE ~f.c.sender
        BY <1>2, <2>2 DEF Rel
    <2> QED BY <2>1, <2>2
<1> HIDE DEF f, h, g
<1>4. g.c.state = e.c.state /\ g.c.sender \in BOOLEAN /\ ~g.c.sender /\ IsCtrl(g.c)
    BY <1>3, RelIs DEF Alike, IsCtrl
<1>5. /\ IsStretch(k) /\ k.ring = e.ring /\ k.sent = e.sent /\ k.c = [g.c EXCEPT !.state = "ESTABLISHED"]
      /\ IsStretch(m) /\ m.ring = e.ring /\ m.sent = e.sent /\ m.c = [g.c EXCEPT !.state = "FIN_WAIT_2"]
    BY <1>3, <1>4 DEF IsStretch, IsCtrl
<1> HIDE DEF k, m
<1>6. /\ IsStretch(disconnect(g)) /\ disconnect(g).ring = e.ring /\ disconnect(g).sent = e.sent
      /\ disconnect(g).c = [Zero EXCEPT !.send_err = 0]
    BY <1>3, <1>4, DisconnectIs
<1>7. /\ IsStretch(Signal(k, "listen")) /\ Signal(k, "listen").ring = e.ring
      /\ Signal(k, "listen").sent = e.sent /\ Signal(k, "listen").c = k.c
    BY <1>5, SignalIs
<1> QED
    BY <1>1, <1>3, <1>4, <1>5, <1>6, <1>7

LEMMA AlikeType ==
    ASSUME NEW c, CtrlType(c), NEW d, Alike(c, d), d.state \in State, d.snd_una \in Seqno,
           d.sender \in BOOLEAN, d.send_err \in {0, -1}
    PROVE  CtrlType(d) /\ Queued(d) = Queued(c)
BY DEF CtrlType, Alike, IsCtrl, Queued

\* An acknowledgement on an open connection: of a part, or of everything.
LEMMA AckConnected ==
    ASSUME Roomy, World, AppOk, NEW c, NEW ring, CtrlOk(c, ring), connected(c),
           NEW s \in toServer, s.port = c.remote, NewAck(c, s),
           NEW d, Alike(c, d), d.state = c.state, d.snd_una = s.ack,
           \/ s.ack # c.snd_nxt /\ d.sender = c.sender /\ d.send_err = c.send_err
           \/ /\ s.ack = c.snd_nxt /\ d.sender \in BOOLEAN /\ ~d.sender
              /\ d.send_err = IF c.sender THEN 0 ELSE c.send_err
    PROVE  CtrlOk(d, ring)
<1>1. ConnOk(c, ring) /\ CtrlType(c) /\ StageOk(c) /\ Sent \in 0 .. MaxWritten
    BY SentBounds DEF CtrlOk
<1>2. PICK u \in 0 .. Sent :
          /\ c.snd_una = At(connects, 1 + u) /\ c.snd_nxt = At(connects, 1 + Sent)
          /\ u <= Len(peer[c.remote].got)
          /\ c.tx_data \in Seq(Nat) /\ Len(c.tx_data) <= Sent /\ Sent - u <= Len(c.tx_data)
          /\ c.tx_data = Span(Sent - Len(c.tx_data), Len(c.tx_data))
          /\ "FIN" \notin c.tx_flags
          /\ ~c.sender => u = Sent
          /\ c.sender => app = "writing" /\ appWait # "no"
    BY <1>1 DEF ConnOk, SendOk
<1>3. /\ \E m \in 0 .. Len(peer[c.remote].got) : s.ack = At(connects, 1 + m)
      /\ Len(peer[c.remote].got) \in 0 .. Sent /\ Iss[connects] \in Seqno
    <2>1. /\ c.remote \in Port /\ connects > 0 /\ On(c.remote, connects, Sent, FALSE)
          /\ "ACK" \in s.flags /\ FALSE \in BOOLEAN
        BY <1>1 DEF ConnOk, NewAck
    <2>2. /\ Acks(s, connects, Len(peer[c.remote].got), FALSE)
          /\ Len(peer[c.remote].got) \in 0 .. Sent /\ Iss[connects] \in Seqno
        BY <1>1, <2>1, AckOn
    <2>3. \E m \in 0 .. Len(peer[c.remote].got) + 0 : s.ack = At(connects, 1 + m)
        BY <2>1, <2>2 DEF Acks
    <2>4. Len(peer[c.remote].got) + 0 = Len(peer[c.remote].got)
        BY <2>2
    <2> QED BY <2>2, <2>3, <2>4
<1>4. PICK m \in 0 .. Len(peer[c.remote].got) : s.ack = At(connects, 1 + m)
    BY <1>3
<1>5. /\ m \in 0 .. Sent /\ u \in Nat /\ m \in Nat /\ Sent \in Nat
      /\ 1 + u \in 0 .. MaxWritten + 3 /\ 1 + m \in 0 .. MaxWritten + 3 /\ 1 + Sent \in 0 .. MaxWritten + 3
    BY <1>1, <1>2, <1>3, <1>4, Sizes
<1>6. u < m /\ (s.ack = c.snd_nxt => m = Sent) /\ s.ack \in Seqno
    <2>1. SEQ_LT(At(connects, 1 + u), At(connects, 1 + m))
        BY <1>2, <1>4 DEF NewAck
    <2>2. 1 + u < 1 + m /\ s.ack \in Seqno
        BY <1>3, <1>4, <1>5, <2>1, AtOrder
    <2>3. s.ack = c.snd_nxt => 1 + m = 1 + Sent
        BY <1>2, <1>3, <1>4, <1>5, AtOrder
    <2> QED BY <1>5, <2>2, <2>3
<1>7. /\ c.sender \in BOOLEAN /\ c.sender
      /\ app = "writing" /\ appWait # "no" /\ c.remote = conn
    <2>1. c.sender \in BOOLEAN /\ c.state # "CLOSED"
        BY <1>1 DEF CtrlType, connected
    <2>2. c.sender
        BY <1>2, <1>5, <1>6, <2>1
    <2> QED BY <1>1, <1>2, <2>1, <2>2 DEF StageOk
<1>8. d.sender \in BOOLEAN /\ d.send_err \in {0, -1} /\ (~d.sender => m = Sent /\ d.send_err = 0)
    BY <1>1, <1>6, <1>7 DEF CtrlType
<1>9. CtrlType(d) /\ Queued(d) = Queued(c) /\ connected(d) /\ ~Ending(d)
      /\ d.state \notin {"CLOSED", "LISTEN", "SYN_RCVD"}
    BY <1>1, <1>6, <1>8, AlikeType DEF CtrlType, connected, Ending
<1>10. ConnOk(d, ring)
    <2>1. SendOk(d)
        <3>1. /\ d.snd_una = At(connects, 1 + m) /\ d.snd_nxt = At(connects, 1 + Sent)
              /\ d.remote = c.remote /\ d.tx_data = c.tx_data /\ d.tx_flags = c.tx_flags
            BY <1>2, <1>4 DEF Alike
        <3>2. Len(c.tx_data) \in Nat
            BY <1>2
        <3>3. Sent - m <= Len(c.tx_data) /\ m <= Len(peer[c.remote].got)
            BY <1>2, <1>3, <1>4, <1>5, <1>6, <3>2
        <3> QED BY <1>2, <1>5, <1>7, <1>8, <3>1, <3>3 DEF SendOk
    <2>2. RecvOk(d, ring)
        BY <1>1, <1>9 DEF ConnOk, RecvOk, Alike
    <2> QED BY <1>1, <2>1, <2>2 DEF ConnOk, Alike
<1>11. StageOk(d)
    <2>1. ~d.sender => Sent <= Len(peer[conn].got)
        BY <1>3, <1>4, <1>5, <1>7, <1>8
    <2> QED BY <1>7, <1>8, <1>9, <2>1 DEF StageOk, Alike
<1> QED
    BY <1>9, <1>10, <1>11 DEF CtrlOk

\* The client's acknowledgement of our SYN: no other number is taken for it.
LEMMA AckOpening ==
    ASSUME Roomy, World, AppOk, NEW c, NEW ring, CtrlOk(c, ring), c.state = "SYN_RCVD",
           NEW s \in toServer, s.port = c.remote, NewAck(c, s), s.ack \in Seqno,
           NEW d, Alike(c, d), d.state = "ESTABLISHED", d.snd_una = s.ack,
           d.sender \in BOOLEAN, ~d.sender, d.send_err = c.send_err
    PROVE  CtrlOk(d, ring) /\ s.ack = c.snd_nxt
<1>1. /\ OpeningOk(c) /\ CtrlType(c) /\ StageOk(c) /\ c.remote \in Port /\ connects > 0
      /\ connects \in 1 .. Len(Iss) /\ Iss[connects] \in Seqno
    <2>1. OpeningOk(c) /\ CtrlType(c) /\ StageOk(c)
        BY DEF CtrlOk
    <2>2. connects \in 1 .. Len(Iss) /\ c.remote \in Port /\ connects > 0
        BY <2>1 DEF OpeningOk, World
    <2> QED BY <2>1, <2>2, Room
<1>2. s.ack = At(connects, 1)
    <2>1. SEQ_LT(Plus(Iss[connects], 0), s.ack) /\ SEQ_LEQ(s.ack, Plus(Iss[connects], 1))
        BY <1>1 DEF NewAck, OpeningOk, At
    <2>2. SeqWrap > 1
        BY Room
    <2> QED BY <1>1, <2>1, <2>2, OnlyTheSyn DEF At
<1>3. "ACK" \in s.flags
    BY DEF NewAck
<1>4. ~Stale(c.remote)
    BY <1>1, <1>2, <1>3, StaleAck
<1>5. c.rcv_nxt = PeerSeq(1) /\ On(c.remote, connects, 0, FALSE)
    <2>1. Open(peer[c.remote])
        BY <1>3 DEF World, Upward
    <2> QED BY <1>1, <1>4, <2>1 DEF OpeningOk, Stale
<1>6. app \in {"idle", "accepting"} /\ Sent = 0 /\ bytesRead = <<>> /\ c.state \notin {"CLOSED"}
    <2>1. app \in {"idle", "accepting"}
        BY <1>1 DEF StageOk, AppOk, connected, Ending
    <2>2. written = 0 /\ bytesRead = <<>>
        BY <2>1 DEF AppOk
    <2> QED BY <2>1, <2>2 DEF Sent
<1>7. CtrlType(d) /\ Queued(d) = 0 /\ Queued(c) = 0
    <2>1. Queued(c) = 0
        BY <1>1 DEF OpeningOk, Queued
    <2>2. d.state \in State /\ d.send_err \in {0, -1}
        BY <1>1 DEF State, CtrlType
    <2> QED BY <1>1, <2>1, <2>2, AlikeType
<1>8. connected(d) /\ ~Ending(d) /\ d.state \notin {"CLOSED", "LISTEN", "SYN_RCVD"}
    BY DEF connected, Ending
<1>9. SendOk(d)
    <2>1. /\ d.snd_una = At(connects, 1) /\ d.snd_nxt = At(connects, 1) /\ d.tx_data = <<>>
          /\ d.tx_flags = {"SYN", "ACK"} /\ d.remote = c.remote
        BY <1>1, <1>2 DEF Alike, OpeningOk
    <2>2. /\ <<>> \in Seq(Nat) /\ Len(<<>>) = 0 /\ "FIN" \notin {"SYN", "ACK"}
        BY EmptySeq
    <2>3. Span(0, 0) = <<>>
        BY DEF Span
    <2>4. Len(peer[c.remote].got) \in Nat
        BY <1>1 DEF World, ClientType
    <2>5. 1 + 0 = 1 /\ 0 - 0 = 0 /\ 0 \in 0 .. 0
        OBVIOUS
    <2>6. /\ d.snd_una = At(connects, 1 + 0) /\ d.snd_nxt = At(connects, 1 + Sent)
          /\ 0 <= Len(peer[d.remote].got)
          /\ d.tx_data \in Seq(Nat) /\ Len(d.tx_data) <= Sent /\ Sent - 0 <= Len(d.tx_data)
          /\ d.tx_data = Span(Sent - Len(d.tx_data), Len(d.tx_data))
          /\ "FIN" \notin d.tx_flags
          /\ ~d.sender => 0 = Sent
          /\ d.sender => app = "writing" /\ appWait # "no"
          /\ 0 \in 0 .. Sent
        BY <1>6, <2>1, <2>2, <2>3, <2>4, <2>5
    <2> QED BY <2>6 DEF SendOk
<1>10. RecvOk(d, ring)
    <2>1. Len(bytesRead) = 0
        BY <1>6, EmptySeq
    <2>2. peer[c.remote].sent \in Nat
        BY <1>1, Sizes DEF World, ClientType
    <2>3. d.rcv_nxt = PeerSeq(1) /\ ~d.rx_eof /\ d.remote = c.remote
        BY <1>1, <1>5 DEF Alike, OpeningOk
    <2> QED BY <1>7, <2>1, <2>2, <2>3 DEF RecvOk
<1>11. ConnOk(d, ring)
    BY <1>1, <1>5, <1>6, <1>9, <1>10 DEF ConnOk, Alike
<1>12. StageOk(d)
    BY <1>6, <1>8 DEF StageOk
<1> QED
    BY <1>1, <1>2, <1>7, <1>8, <1>11, <1>12 DEF CtrlOk, OpeningOk

\* The acknowledgement of our FIN.
LEMMA AckEnding ==
    ASSUME Roomy, World, AppOk, NEW c, NEW ring, CtrlOk(c, ring), Ending(c),
           NEW s \in toServer, s.port = c.remote, NewAck(c, s),
           NEW d, Alike(c, d), d.state \in {c.state, "FIN_WAIT_2"}, d.snd_una = s.ack,
           d.sender \in BOOLEAN, ~d.sender, d.send_err = c.send_err
    PROVE  CtrlOk(d, ring) /\ s.ack = c.snd_nxt /\ s.ack \in Seqno
<1>1. EndingOk(c) /\ CtrlType(c) /\ StageOk(c) /\ Sent \in 0 .. MaxWritten
    BY SentBounds DEF CtrlOk
<1>2. /\ \E m \in 0 .. Len(peer[c.remote].got) + 2 : s.ack = At(connects, 1 + m)
      /\ Len(peer[c.remote].got) \in 0 .. Sent /\ Iss[connects] \in Seqno
    <2>1. /\ c.remote \in Port /\ connects > 0 /\ On(c.remote, connects, Sent, TRUE)
          /\ "ACK" \in s.flags /\ TRUE \in BOOLEAN
        BY <1>1 DEF EndingOk, NewAck
    <2>2. /\ Acks(s, connects, Len(peer[c.remote].got), TRUE)
          /\ Len(peer[c.remote].got) \in 0 .. Sent /\ Iss[connects] \in Seqno
        BY <1>1, <2>1, AckOn
    <2> QED BY <2>1, <2>2 DEF Acks
<1>3. PICK m \in 0 .. Len(peer[c.remote].got) + 2 : s.ack = At(connects, 1 + m)
    BY <1>2
<1>4. PICK f \in {1, 2} : c.snd_una = At(connects, f + Sent)
    BY <1>1 DEF EndingOk
<1>5. /\ m \in Nat /\ Sent \in Nat /\ f \in Nat
      /\ f + Sent \in 0 .. MaxWritten + 3 /\ 1 + m \in 0 .. MaxWritten + 3 /\ 2 + Sent \in 0 .. MaxWritten + 3
    BY <1>1, <1>2, <1>3, <1>4, Sizes
<1>6. f + Sent < 1 + m /\ 1 + m <= 2 + Sent /\ s.ack \in Seqno
    <2>1. SEQ_LT(At(connects, f + Sent), At(connects, 1 + m)) /\ SEQ_LEQ(At(connects, 1 + m), At(connects, 2 + Sent))
        BY <1>1, <1>3, <1>4 DEF NewAck, EndingOk
    <2> QED BY <1>2, <1>3, <1>5, <2>1, AtOrder
<1>7. s.ack = At(connects, 2 + Sent)
    <2>1. 1 + m = 2 + Sent
        BY <1>5, <1>6
    <2> QED BY <1>3, <2>1
<1>8. /\ Ending(d) /\ ~connected(d) /\ d.state \notin {"CLOSED", "LISTEN", "SYN_RCVD"}
      /\ d.state \in State /\ c.state # "CLOSED"
    BY DEF Ending, connected, State
<1>9. CtrlType(d)
    <2>1. d.send_err \in {0, -1}
        BY <1>1 DEF CtrlType
    <2> QED BY <1>1, <1>6, <1>8, <2>1, AlikeType
<1>10. EndingOk(d)
    BY <1>1, <1>7 DEF EndingOk, Alike
<1>11. StageOk(d)
    <2>1. app = "closing" /\ d.remote = c.remote
        BY <1>1, <1>8 DEF StageOk, AppOk, Alike, Ending, connected
    <2> QED BY <1>1, <1>8, <2>1 DEF StageOk
<1> QED
    BY <1>1, <1>6, <1>7, <1>8, <1>9, <1>10, <1>11 DEF CtrlOk, EndingOk

\* What the acknowledgement of a segment leaves.
LEMMA TakeAckOk ==
    ASSUME Roomy, StreamInv, NEW s \in toServer, s.port = ctrl.remote,
           ctrl.state \notin {"CLOSED", "LISTEN"}
    PROVE  LET a == TakeAck(Begin, s)
           IN  /\ EffectOk(a)
               /\ a.c.state = "SYN_RCVD" /\ "ACK" \in s.flags => Stale(a.c.remote)
               /\ a.c.state # "CLOSED" => a.c.remote = ctrl.remote
<1> DEFINE a == TakeAck(Begin, s)
           f == [Begin EXCEPT !.c.snd_una = s.ack]
           d == [ctrl EXCEPT !.snd_una = s.ack]
<1>1. /\ World /\ AppOk /\ CtrlOk(ctrl, rx_ring) /\ CtrlType(ctrl) /\ IsCtrl(ctrl)
      /\ ctrl.sender \in BOOLEAN /\ ctrl.send_err \in {0, -1}
    BY DEF StreamInv, CtrlOk, CtrlType
<1>2. IsStretch(Begin) /\ Begin.c = ctrl /\ Begin.ring = rx_ring /\ Begin.sent = {} /\ EffectOk(Begin)
    BY <1>1, BeginOk DEF Begin, IsStretch
<1>3. \/ connected(ctrl) \/ Ending(ctrl) \/ ctrl.state = "SYN_RCVD"
    BY <1>1 DEF CtrlType, State, connected, Ending
<1>4. /\ Alike(ctrl, d) /\ d.state = ctrl.state /\ d.snd_una = s.ack
      /\ d.sender = ctrl.sender /\ d.send_err = ctrl.send_err
    BY <1>1, AckedIs
\* In the state of a SYN an acknowledgement is new unless the client knows
\* another connection.
<1>5. ASSUME ctrl.state = "SYN_RCVD", "ACK" \in s.flags
      PROVE  s.ack \in Seqno /\ (NewAck(ctrl, s) \/ Stale(ctrl.remote))
    <2>1. OpeningOk(ctrl) /\ ctrl.remote \in Port /\ connects > 0 /\ connects \in 1 .. Len(Iss)
        <3>1. OpeningOk(ctrl)
            BY <1>1, <1>5 DEF CtrlOk
        <3>2. ctrl.remote \in Port /\ connects > 0
            BY <3>1 DEF OpeningOk
        <3>3. connects \in 0 .. Len(Iss)
            BY <1>1 DEF World
        <3> QED BY <3>1, <3>2, <3>3
    <2>2. CASE Stale(ctrl.remote)
        BY <1>1, <1>5, <2>1, <2>2, StaleAck
    <2>3. CASE ~Stale(ctrl.remote)
        <3>1. Open(peer[ctrl.remote])
            BY <1>1, <1>5 DEF World, Upward
        <3>2. On(ctrl.remote, connects, 0, FALSE)
            BY <2>1, <2>3, <3>1 DEF OpeningOk, Stale
        <3>3. 0 \in 0 .. MaxWritten /\ FALSE \in BOOLEAN
            BY Sizes
        <3>4. /\ Acks(s, connects, Len(peer[ctrl.remote].got), FALSE)
              /\ Len(peer[ctrl.remote].got) \in 0 .. 0 /\ Iss[connects] \in Seqno
            BY <1>1, <1>5, <2>1, <3>2, <3>3, AckOn
        <3>5. s.ack = At(connects, 1)
            <4>1. Len(peer[ctrl.remote].got) = 0
                BY <3>4
            <4>2. \E m \in 0 .. 0 + 0 : s.ack = At(connects, 1 + m)
                BY <1>5, <3>4, <4>1 DEF Acks
            <4>3. 1 + 0 = 1 /\ 0 .. 0 + 0 = {0}
                OBVIOUS
            <4> QED BY <4>2, <4>3
        <3>6. 0 \in 0 .. MaxWritten + 3 /\ 1 \in 0 .. MaxWritten + 3
            BY Sizes
        <3>7. /\ SEQ_LT(At(connects, 0), At(connects, 1)) /\ SEQ_LEQ(At(connects, 1), At(connects, 1))
              /\ At(connects, 1) \in Seqno
            BY <3>4, <3>6, AtOrder
        <3> QED BY <1>5, <2>1, <3>5, <3>7 DEF NewAck, OpeningOk
    <2> QED BY <2>2, <2>3
<1>6. CASE ~NewAck(ctrl, s)
    <2>1. a = Begin
        BY <1>2, <1>6 DEF TakeAck
    <2> QED BY <1>2, <1>5, <1>6, <2>1
<1>7. CASE NewAck(ctrl, s)
    <2>1. /\ IsStretch(f) /\ f.ring = rx_ring /\ f.sent = {} /\ f.c = d
          /\ a = IF s.ack # ctrl.snd_nxt THEN f ELSE Acknowledged(f)
        <3>1. /\ IsStretch(f) /\ f.ring = Begin.ring /\ f.sent = Begin.sent
              /\ f.c = [Begin.c EXCEPT !.snd_una = s.ack]
            BY <1>2 DEF IsStretch
        <3>2. f.c = d
            BY <1>2, <3>1
        <3>3. a = IF Outstanding(f.c) THEN f ELSE Acknowledged(f)
            BY <1>2, <1>7 DEF TakeAck
        <3> HIDE DEF f, d, a
        <3>4. Outstanding(f.c) <=> s.ack # ctrl.snd_nxt
            BY <1>4, <3>2 DEF Outstanding, Alike
        <3> QED BY <1>2, <3>1, <3>2, <3>3, <3>4
    <2>2. "ACK" \in s.flags
        BY <1>7 DEF NewAck
    <2>3. ASSUME d.snd_una \in Seqno
          PROVE  /\ IsStretch(Acknowledged(f)) /\ Acknowledged(f).ring = rx_ring /\ Acknowledged(f).sent = {}
                 /\ Acknowledged(f).c =
                       CASE d.state = "SYN_RCVD" -> [Rel(d) EXCEPT !.state = "ESTABLISHED"]
                         [] d.state = "FIN_WAIT_1" -> [Rel(d) EXCEPT !.state = "FIN_WAIT_2"]
                         [] d.state = "LAST_ACK" -> [Zero EXCEPT !.send_err = 0]
                         [] OTHER -> Rel(d)
                 /\ Alike(d, Rel(d)) /\ Rel(d).state = d.state /\ Rel(d).snd_una = s.ack
                 /\ Rel(d).sender \in BOOLEAN /\ ~Rel(d).sender
                 /\ Rel(d).send_err = (IF ctrl.sender THEN 0 ELSE ctrl.send_err)
                 /\ IsCtrl(Rel(d))
        <3>1. IsCtrl(d) /\ d.sender \in BOOLEAN
            BY <1>1, <1>4, <2>3 DEF Alike, IsCtrl
        <3> HIDE DEF d, f
        <3>2. /\ Alike(d, Rel(d)) /\ Rel(d).state = d.state /\ Rel(d).snd_una = s.ack
              /\ Rel(d).sender \in BOOLEAN /\ ~Rel(d).sender
              /\ Rel(d).send_err = (IF ctrl.sender THEN 0 ELSE ctrl.send_err)
              /\ IsCtrl(Rel(d))
            BY <1>4, <3>1, RelIs DEF Alike, IsCtrl
        <3> QED BY <2>1, <3>1, <3>2, AcknowledgedIs
    <2> HIDE DEF d, f
    <2>4. CASE connected(ctrl)
        <3>0. s.ack = ctrl.snd_nxt => d.snd_una \in Seqno
            BY <1>1, <1>4 DEF CtrlType
        <3>1. CASE s.ack # ctrl.snd_nxt
            BY <1>1, <1>4, <1>7, <2>1, <2>4, <3>1, AckConnected DEF EffectOk, connected, Alike
        <3>2. CASE s.ack = ctrl.snd_nxt
            <4>1. Acknowledged(f).c = Rel(d) /\ a = Acknowledged(f)
                BY <1>4, <2>1, <2>3, <2>4, <3>0, <3>2 DEF connected
            <4>2. Alike(ctrl, Rel(d)) /\ Rel(d).state = ctrl.state
                BY <1>4, <2>3, <3>0, <3>2 DEF Alike
            <4>3. CtrlOk(Rel(d), rx_ring)
                BY <1>1, <1>7, <2>3, <2>4, <3>0, <3>2, <4>2, AckConnected
            <4> QED BY <2>3, <2>4, <3>0, <3>2, <4>1, <4>2, <4>3 DEF EffectOk, connected, Alike
        <3> QED BY <3>1, <3>2
    <2>5. CASE ctrl.state = "SYN_RCVD"
        <3>1. s.ack \in Seqno /\ d.snd_una \in Seqno
            BY <1>4, <1>5, <2>2, <2>5
        <3> DEFINE g == [Rel(d) EXCEPT !.state = "ESTABLISHED"]
        <3>2. ~ctrl.sender
            BY <1>1, <2>5 DEF CtrlOk, OpeningOk
        <3>3. /\ Alike(ctrl, g) /\ g.state = "ESTABLISHED" /\ g.snd_una = s.ack
              /\ g.sender \in BOOLEAN /\ ~g.sender /\ g.send_err = ctrl.send_err
            <4>1. /\ Alike(Rel(d), g) /\ g.state = "ESTABLISHED" /\ g.snd_una = Rel(d).snd_una
                  /\ g.sender = Rel(d).sender /\ g.send_err = Rel(d).send_err
                BY <2>3, <3>1, MovedIs
            <4> HIDE DEF g
            <4> QED BY <1>4, <2>3, <3>1, <3>2, <4>1 DEF Alike
        <3>4. Acknowledged(f).c = g
            BY <1>4, <2>3, <2>5, <3>1
        <3> HIDE DEF g
        <3>5. CtrlOk(g, rx_ring) /\ s.ack = ctrl.snd_nxt
            BY <1>1, <1>7, <2>5, <3>1, <3>3, AckOpening
        <3> QED BY <2>1, <2>3, <3>1, <3>3, <3>4, <3>5 DEF EffectOk, Alike
    <2>6. CASE Ending(ctrl)
        <3>2. ~ctrl.sender
            BY <1>1, <2>6 DEF CtrlOk, EndingOk
        <3>3. CtrlOk(d, rx_ring) /\ s.ack = ctrl.snd_nxt /\ s.ack \in Seqno /\ d.snd_una \in Seqno
            BY <1>1, <1>4, <1>7, <2>6, <3>2, AckEnding
        <3>4. a = Acknowledged(f)
            BY <2>1, <3>3
        <3>5. CASE ctrl.state = "LAST_ACK"
            <4>1. CtrlOk([Zero EXCEPT !.send_err = 0], rx_ring)
                <5>1. app \in {"idle", "accepting", "open", "reading", "writing", "closing"}
                    BY <1>1 DEF AppOk
                <5>2. CtrlOk([Zero EXCEPT !.send_err = IF ctrl.sender THEN -1 ELSE 0], rx_ring)
                    BY <1>1, <3>5, <5>1, DisconnectFits
                <5> QED BY <3>2, <5>2
            <4>2. Acknowledged(f).c = [Zero EXCEPT !.send_err = 0]
                BY <1>4, <2>3, <3>3, <3>5
            <4>3. /\ [Zero EXCEPT !.send_err = 0].state = "CLOSED"
                  /\ [Zero EXCEPT !.send_err = 0].retries = 0
                BY ZeroIs
            <4> QED BY <2>3, <3>3, <3>4, <4>1, <4>2, <4>3 DEF EffectOk
        <3>6. CASE ctrl.state \in {"FIN_WAIT_1", "FIN_WAIT_2"}
            <4> DEFINE g == IF ctrl.state = "FIN_WAIT_1" THEN [Rel(d) EXCEPT !.state = "FIN_WAIT_2"] ELSE Rel(d)
            <4>1. /\ Alike(ctrl, g) /\ g.state = "FIN_WAIT_2" /\ g.snd_una = s.ack
                  /\ g.sender \in BOOLEAN /\ ~g.sender /\ g.send_err = ctrl.send_err
                <5>1. CASE ctrl.state = "FIN_WAIT_1"
                    <6> DEFINE h == [Rel(d) EXCEPT !.state = "FIN_WAIT_2"]
                    <6>1. /\ Alike(Rel(d), h) /\ h.state = "FIN_WAIT_2" /\ h.snd_una = Rel(d).snd_una
                          /\ h.sender = Rel(d).sender /\ h.send_err = Rel(d).send_err
                        BY <2>3, <3>3, MovedIs
                    <6>2. g = h
                        BY <5>1
                    <6> HIDE DEF g, h
                    <6> QED BY <1>4, <2>3, <3>2, <3>3, <6>1, <6>2 DEF Alike
                <5>2. CASE ctrl.state = "FIN_WAIT_2"
                    <6>1. g = Rel(d)
                        BY <5>2
                    <6> HIDE DEF g
                    <6> QED BY <1>4, <2>3, <3>2, <3>3, <5>2, <6>1 DEF Alike
                <5> QED BY <3>6, <5>1, <5>2
            <4>2. Acknowledged(f).c = g
                BY <1>4, <2>3, <3>3, <3>6
            <4> HIDE DEF g
            <4>3. CtrlOk(g, rx_ring)
                BY <1>1, <1>7, <2>6, <4>1, AckEnding
            <4> QED BY <2>3, <3>3, <3>4, <4>1, <4>2, <4>3 DEF EffectOk, Alike
        <3> QED BY <2>6, <3>5, <3>6 DEF Ending
    <2> QED BY <1>3, <2>4, <2>5, <2>6
<1> QED
    BY <1>6, <1>7

-----------------------------------------------------------------------------
(* Data and the ring.                                                      *)

LEMMA DivMod ==
    ASSUME NEW R \in Nat \ {0}, NEW a \in Nat
    PROVE  a % R \in 0 .. R - 1 /\ a \div R \in Int /\ a = R * (a \div R) + (a % R)
BY SMTT(60)

LEMMA ModStep ==
    ASSUME NEW R \in Nat \ {0}, NEW a \in Nat, NEW d \in 0 .. R - 1
    PROVE  (a + d) % R = IF (a % R) + d < R THEN (a % R) + d ELSE (a % R) + d - R
<1> DEFINE r == a % R
           q == a \div R
           m == (a + d) % R
           p == (a + d) \div R
<1>1. r \in 0 .. R - 1 /\ q \in Int /\ a = R * q + r
    BY DivMod
<1>2. m \in 0 .. R - 1 /\ p \in Int /\ a + d = R * p + m
    <2>1. a + d \in Nat
        OBVIOUS
    <2> QED BY <2>1, DivMod
<1> HIDE DEF r, q, m, p
<1> DEFINE t == p - q
<1>3. t \in Int /\ R * t = r + d - m
    <2>1. R * p = R * q + R * (p - q)
        BY <1>1, <1>2, SMTT(60)
    <2> QED BY <1>1, <1>2, <2>1
<1> HIDE DEF t
<1>4. \A x \in Int : (x >= 2 => R * x >= R + R) /\ (x < 0 => R * x <= 0 - R)
    BY SMTT(60)
<1>5. t \in {0, 1}
    BY <1>1, <1>2, <1>3, <1>4
<1>6. R * 0 = 0 /\ R * 1 = R
    OBVIOUS
<1>7. m = IF r + d < R THEN r + d ELSE r + d - R
    BY <1>1, <1>2, <1>3, <1>5, <1>6
<1> QED
    BY <1>7 DEF m, r

\* Places less than a ring's length apart are different slots.
LEMMA SlotsDiffer ==
    ASSUME NEW a \in Nat, NEW b \in Nat, a < b, b - a < RingSize
    PROVE  a % RingSize # b % RingSize
<1> DEFINE d == b - a
           r == a % RingSize
<1>1. RingSize \in Nat \ {0} /\ d \in 0 .. RingSize - 1 /\ d > 0 /\ b = a + d
    BY Sizes
<1>2. r \in 0 .. RingSize - 1
    BY <1>1
<1> HIDE DEF d
<1>3. b % RingSize = IF r + d < RingSize THEN r + d ELSE r + d - RingSize
    BY <1>1, ModStep
<1> HIDE DEF r
<1>4. b % RingSize # r
    BY <1>1, <1>2, <1>3
<1> QED
    BY <1>4 DEF r

\* The data stands in the ring from a place on, the rest is as it was.
Filled(old, new, head, data) ==
    /\ \A k \in 1 .. Len(data) : new[(head + k - 1) % RingSize] = data[k]
    /\ \A i \in Slot : (\A k \in 1 .. Len(data) : (head + k - 1) % RingSize # i) => new[i] = old[i]

LEMMA RxPutIs ==
    ASSUME NEW e, IsStretch(e), IsCtrl(e.c), e.c.rx_head \in Nat,
           NEW data \in Seq(Nat), Len(data) <= RingSize
    PROVE  /\ IsStretch(rx_put(e, data)) /\ rx_put(e, data).sent = e.sent
           /\ rx_put(e, data).c = [e.c EXCEPT !.rx_head = e.c.rx_head + Len(data)]
           /\ Filled(e.ring, rx_put(e, data).ring, e.c.rx_head, data)
<1> DEFINE h == e.c.rx_head
           n == Len(data)
           ring == [i \in Slot |->
                       IF \E k \in DOMAIN data : (h + k - 1) % RingSize = i
                       THEN data[CHOOSE k \in DOMAIN data : (h + k - 1) % RingSize = i]
                       ELSE e.ring[i]]
<1>1. DOMAIN data = 1 .. n /\ n \in Nat /\ RingSize \in Nat \ {0} /\ h \in Nat /\ n <= RingSize
    BY Sizes
<1>2. /\ IsStretch(rx_put(e, data)) /\ rx_put(e, data).sent = e.sent
      /\ rx_put(e, data).c = [e.c EXCEPT !.rx_head = e.c.rx_head + Len(data)]
    BY DEF rx_put, IsStretch, IsCtrl
<1>3. rx_put(e, data).ring = ring
    BY DEF rx_put, IsStretch
<1>4. \A k \in 1 .. n : \A j \in 1 .. n :
          (h + k - 1) % RingSize = (h + j - 1) % RingSize => k = j
    <2> SUFFICES ASSUME NEW k \in 1 .. n, NEW j \in 1 .. n, k < j
                 PROVE  (h + k - 1) % RingSize # (h + j - 1) % RingSize
        BY <1>1
    <2> DEFINE a == h + k - 1
               b == h + j - 1
    <2> HIDE DEF ring, h, n
    <2>1. a \in Nat /\ b \in Nat /\ a < b /\ b - a < RingSize
        <3>1. k \in Nat /\ j \in Nat /\ 1 <= k /\ k < j /\ j <= n
            BY <1>1
        <3>2. a \in Nat /\ b \in Nat /\ a < b /\ b - a = j - k
            BY <1>1, <3>1
        <3>3. j - k < RingSize
            BY <1>1, <3>1
        <3> QED BY <3>2, <3>3
    <2> HIDE DEF a, b
    <2>2. a % RingSize # b % RingSize
        BY <2>1, SlotsDiffer
    <2> QED BY <2>2 DEF a, b
<1>5. ASSUME NEW k \in 1 .. n PROVE ring[(h + k - 1) % RingSize] = data[k]
    <2> DEFINE i == (h + k - 1) % RingSize
               x == CHOOSE j \in DOMAIN data : (h + j - 1) % RingSize = i
    <2>1. i \in Slot
        BY <1>1 DEF Slot
    <2>2. k \in DOMAIN data /\ (h + k - 1) % RingSize = i
        BY <1>1
    <2>3. x \in DOMAIN data /\ (h + x - 1) % RingSize = i
        BY <2>2, Zenon
    <2> HIDE DEF x
    <2>4. x = k
        BY <1>1, <1>4, <2>2, <2>3
    <2>5. ring[i] = data[x]
        BY <2>1, <2>2 DEF x
    <2> QED BY <2>4, <2>5
<1>6. ASSUME NEW i \in Slot, \A k \in 1 .. n : (h + k - 1) % RingSize # i
      PROVE  ring[i] = e.ring[i]
    BY <1>1, <1>6
<1> HIDE DEF ring
<1> QED
    BY <1>2, <1>3, <1>5, <1>6 DEF Filled

\* c and d differ in what data from the client moves.
SameWrite(c, d) ==
    /\ DOMAIN d = DOMAIN c
    /\ d.state = c.state /\ d.remote = c.remote /\ d.snd_una = c.snd_una /\ d.snd_nxt = c.snd_nxt
    /\ d.tx_flags = c.tx_flags /\ d.tx_data = c.tx_data /\ d.retries = c.retries
    /\ d.sender = c.sender /\ d.send_err = c.send_err
    /\ d.rx_tail = c.rx_tail /\ d.rx_eof = c.rx_eof

\* A segment that follows what the ring has extends it by the client's next
\* bytes.
LEMMA NextBytes ==
    ASSUME Roomy, World, NEW p \in Port, NEW s \in toServer, s.port = p, s.data # <<>>,
           NEW got \in Nat, got <= peer[p].sent, s.seq = PeerSeq(1 + got)
    PROVE  /\ s.data \in Seq(Nat) /\ s.data = Span(got, Len(s.data))
           /\ got + Len(s.data) <= peer[p].sent
           /\ "FIN" \in s.flags => got + Len(s.data) = peer[p].sent /\ peer[p].fin
<1>1. Upward(s, peer[p]) /\ peer[p].sent \in 0 .. PeerBytes
    BY DEF World, ClientType
<1>2. PICK i \in 0 .. peer[p].sent :
          /\ s.seq = PeerSeq(1 + i) /\ s.data = Span(i, Len(s.data))
          /\ i + Len(s.data) <= peer[p].sent
          /\ "FIN" \in s.flags => i + Len(s.data) = peer[p].sent
    BY <1>1 DEF Upward
<1>3. i = got
    <2>1. 1 + i \in Nat /\ 1 + got \in Nat /\ 1 + i < SeqWrap /\ 1 + got < SeqWrap /\ Isn \in Seqno
        BY <1>1, <1>2, Room, Sizes
    <2>2. Plus(Isn, 1 + i) = Plus(Isn, 1 + got)
        BY <1>2 DEF PeerSeq
    <2>3. 1 + i = 1 + got
        BY <2>1, <2>2, PlusSame
    <2> QED BY <1>2, <2>3
<1> QED
    BY <1>1, <1>2, <1>3 DEF Upward

LEMMA DataPut ==
    ASSUME Roomy, World, NEW c, NEW ring, CtrlOk(c, ring), c.state = "ESTABLISHED",
           NEW s \in toServer, s.port = c.remote, s.data # <<>>, Acceptable(c, s),
           NEW d, SameWrite(c, d), d.rcv_nxt = Plus(c.rcv_nxt, Len(s.data)),
           d.rx_head = c.rx_head + Len(s.data), NEW ring2,
           Filled(ring, ring2, c.rx_head, s.data),
           bytesRead \in Seq(Nat)
    PROVE  /\ CtrlOk(d, ring2)
           /\ "FIN" \in s.flags =>
                 Len(bytesRead) + Queued(d) = peer[c.remote].sent /\ peer[c.remote].fin
<1> DEFINE n == Len(s.data)
           r == Len(bytesRead)
           q == Queued(c)
           got == r + q
<1>1. /\ CtrlType(c) /\ ConnOk(c, ring) /\ StageOk(c) /\ c.remote \in Port
      /\ SendOk(c) /\ RecvOk(c, ring)
    BY DEF CtrlOk, ConnOk, connected
<1>2. /\ q \in 0 .. RingSize /\ r \in Nat /\ got \in Nat /\ RingSize \in Nat \ {0}
      /\ c.rx_head \in Nat /\ c.rx_tail \in Nat /\ q = c.rx_head - c.rx_tail
      /\ got <= peer[c.remote].sent /\ c.rcv_nxt = PeerSeq(1 + got) /\ ~c.rx_eof
      /\ peer[c.remote].sent \in 0 .. PeerBytes
    <2>1. /\ q \in 0 .. RingSize /\ c.rx_head \in Nat /\ c.rx_tail \in Nat
          /\ c.state = "ESTABLISHED" => ~c.rx_eof /\ c.rcv_nxt = PeerSeq(1 + got)
          /\ got <= peer[c.remote].sent
        BY <1>1 DEF CtrlType, RecvOk
    <2>2. r \in Nat /\ RingSize \in Nat \ {0} /\ peer[c.remote].sent \in 0 .. PeerBytes
        BY <1>1, Sizes DEF World, ClientType
    <2>3. q = c.rx_head - c.rx_tail
        BY DEF Queued
    <2> HIDE DEF r, q
    <2>4. got \in Nat
        BY <2>1, <2>2
    <2> QED BY <2>1, <2>2, <2>3, <2>4
<1>3. /\ s.data \in Seq(Nat) /\ s.data = Span(got, n) /\ got + n <= peer[c.remote].sent
      /\ "FIN" \in s.flags => got + n = peer[c.remote].sent /\ peer[c.remote].fin
    <2>1. got \in Nat /\ got <= peer[c.remote].sent /\ s.seq = PeerSeq(1 + got)
        BY <1>2 DEF Acceptable
    <2> HIDE DEF got
    <2> QED BY <1>1, <2>1, NextBytes
<1>4. n \in Nat /\ q + n <= RingSize
    <2>1. n \in Nat /\ n <= rx_room(c)
        BY <1>3 DEF Acceptable
    <2> QED BY <1>2, <2>1 DEF rx_room
<1>5. Queued(d) = q + n
    <2>1. d.rx_head = c.rx_head + n /\ d.rx_tail = c.rx_tail
        BY DEF SameWrite
    <2> HIDE DEF q, n
    <2>2. Queued(d) = (c.rx_head + n) - c.rx_tail
        BY <2>1 DEF Queued
    <2>3. c.rx_head \in Nat /\ c.rx_tail \in Nat /\ n \in Nat /\ q = c.rx_head - c.rx_tail
        BY <1>2, <1>4
    <2> QED BY <2>2, <2>3
<1>6. c.rcv_nxt \in Seqno /\ d.rcv_nxt = PeerSeq(1 + (got + n)) /\ d.rcv_nxt \in Seqno
    <2> HIDE DEF n, got
    <2>1. /\ 1 + got \in Nat /\ (1 + got) + n < SeqWrap /\ (1 + got) + n \in Nat
          /\ (1 + got) + n = 1 + (got + n) /\ Isn \in Seqno
        <3>1. got + n <= peer[c.remote].sent
            BY <1>3
        <3>2. PeerBytes \in Nat /\ SeqWrap \in Nat /\ PeerBytes + 2 < SeqWrap /\ Isn \in Seqno
            BY Room, Sizes
        <3>3. got \in Nat /\ n \in Nat /\ peer[c.remote].sent \in 0 .. PeerBytes
            BY <1>2, <1>4
        <3> DEFINE sent == peer[c.remote].sent
        <3> HIDE DEF sent
        <3>4. /\ got + n <= sent /\ sent \in 0 .. PeerBytes
            BY <3>1, <3>3 DEF sent
        <3> QED BY <3>2, <3>3, <3>4
    <2>2. Plus(Plus(Isn, 1 + got), n) = Plus(Isn, (1 + got) + n) /\ Plus(Isn, (1 + got) + n) \in Seqno
        BY <1>4, <2>1, PlusPlus, PlusValue
    <2>3. d.rcv_nxt = Plus(c.rcv_nxt, n)
        BY DEF n
    <2> QED BY <1>1, <1>2, <2>1, <2>2, <2>3 DEF PeerSeq, CtrlType
<1>7. \A x \in 1 .. q + n : ring2[(c.rx_tail + x - 1) % RingSize] = r + x
    <2> SUFFICES ASSUME NEW x \in 1 .. q + n
                 PROVE  ring2[(c.rx_tail + x - 1) % RingSize] = r + x
        OBVIOUS
    <2> DEFINE h == c.rx_head
               t == c.rx_tail
               a == t + x - 1
    <2>0. /\ q \in Nat /\ n \in Nat /\ r \in Nat /\ h \in Nat /\ t \in Nat /\ h = t + q
          /\ q + n <= RingSize /\ RingSize \in Nat \ {0} /\ got = r + q
        BY <1>2, <1>4
    <2> HIDE DEF n, q, r, got, h, t
    <2>1. a \in Nat /\ a % RingSize \in Slot
        BY <2>0 DEF Slot
    <2>2. CASE x <= q
        <3>1. ring[a % RingSize] = r + x
            <4>1. x \in 1 .. q
                BY <2>0, <2>2
            <4> QED BY <1>1, <4>1 DEF RecvOk, q, r, t
        <3>2. ASSUME NEW k \in 1 .. n PROVE (h + k - 1) % RingSize # a % RingSize
            <4> DEFINE b == h + k - 1
            <4>1. b \in Nat /\ a < b /\ b - a < RingSize
                BY <2>0, <2>2
            <4> HIDE DEF a, b
            <4>2. a % RingSize # b % RingSize
                BY <2>1, <4>1, SlotsDiffer
            <4> QED BY <4>2 DEF b
        <3>3. ring2[a % RingSize] = ring[a % RingSize]
            BY <2>1, <3>2 DEF n, h, Filled
        <3> QED BY <3>1, <3>3 DEF t
    <2>3. CASE ~(x <= q)
        <3> DEFINE k == x - q
        <3>1. k \in 1 .. n /\ h + k - 1 = a /\ got + k = r + x
            BY <2>0, <2>3
        <3> HIDE DEF k, a
        <3>2. ring2[a % RingSize] = s.data[k]
            BY <3>1 DEF n, h, Filled
        <3>3. s.data[k] = got + k
            <4>1. Span(got, n)[k] = got + k
                BY <3>1 DEF Span
            <4> QED BY <1>3, <4>1
        <3> QED BY <3>1, <3>2, <3>3 DEF a, t
    <2> QED BY <2>2, <2>3
<1>8. CtrlType(d)
    <2>1. IsCtrl(d)
        BY <1>1 DEF CtrlType, IsCtrl, SameWrite
    <2>2. d.rx_head \in Nat /\ Queued(d) \in 0 .. RingSize
        <3>1. d.rx_head = c.rx_head + n
            OBVIOUS
        <3> HIDE DEF n, q, r, got
        <3>0. c.rx_head \in Nat /\ n \in Nat /\ q \in Nat /\ RingSize \in Nat /\ q + n <= RingSize
            BY <1>2, <1>4
        <3>2. d.rx_head \in Nat
            BY <3>0, <3>1
        <3>3. q + n \in 0 .. RingSize
            BY <3>0
        <3> QED BY <1>5, <3>2, <3>3
    <2> HIDE DEF n, q, r
    <2> QED BY <1>1, <1>6, <2>1, <2>2 DEF CtrlType, SameWrite
<1>9. RecvOk(d, ring2)
    <2>1. r + (q + n) = got + n
        BY <1>2, <1>4
    <2>2. d.rx_tail = c.rx_tail /\ d.state = "ESTABLISHED" /\ ~d.rx_eof /\ d.remote = c.remote
        BY <1>2 DEF SameWrite
    <2> HIDE DEF n, q
    <2> QED BY <1>3, <1>5, <1>6, <1>7, <2>1, <2>2 DEF RecvOk
<1>10. SendOk(d) /\ ConnOk(d, ring2) /\ StageOk(d)
    <2>1. SendOk(d)
        BY <1>1 DEF SendOk, SameWrite
    <2>2. StageOk(d)
        BY <1>1 DEF StageOk, SameWrite, connected, Ending
    <2> QED BY <1>1, <1>9, <2>1, <2>2 DEF ConnOk, SameWrite
<1>11. d.state = "ESTABLISHED"
    BY DEF SameWrite
<1>12. r + (q + n) = got + n
    BY <1>2, <1>4
<1> QED
    BY <1>3, <1>5, <1>8, <1>10, <1>11, <1>12 DEF CtrlOk, Ending

\* In another state the data is counted and dropped.
LEMMA DataDropped ==
    ASSUME World, NEW c, NEW ring, CtrlOk(c, ring), c.state \notin {"CLOSED", "LISTEN", "ESTABLISHED"},
           c.state = "SYN_RCVD" => Stale(c.remote),
           NEW d, SameWrite(c, d), d.rcv_nxt \in Seqno, d.rx_head = c.rx_head
    PROVE  CtrlOk(d, ring)
<1>1. CtrlType(c) /\ StageOk(c)
    BY DEF CtrlOk
<1>2. Queued(d) = Queued(c)
    BY DEF Queued, SameWrite
<1>3. CtrlType(d)
    BY <1>1, <1>2 DEF CtrlType, SameWrite, IsCtrl
<1>4. StageOk(d)
    BY <1>1 DEF StageOk, SameWrite, connected, Ending
<1>5. c.state = "SYN_RCVD" => OpeningOk(d)
    BY DEF CtrlOk, OpeningOk, SameWrite, Stale
<1>6. connected(c) => ConnOk(d, ring)
    <2> SUFFICES ASSUME connected(c) PROVE ConnOk(d, ring)
        OBVIOUS
    <2>1. ConnOk(c, ring) /\ SendOk(c) /\ RecvOk(c, ring)
        BY DEF CtrlOk, ConnOk
    <2>2. SendOk(d)
        BY <2>1 DEF SendOk, SameWrite
    <2>3. RecvOk(d, ring)
        BY <1>2, <2>1 DEF RecvOk, SameWrite
    <2> QED BY <2>1, <2>2, <2>3 DEF ConnOk, SameWrite
<1>7. Ending(c) => EndingOk(d)
    BY DEF CtrlOk, EndingOk, SameWrite
<1> QED
    BY <1>3, <1>4, <1>5, <1>6, <1>7 DEF CtrlOk, SameWrite, connected, Ending

LEMMA TakeDataOk ==
    ASSUME Roomy, World, AppOk, NEW e, EffectOk(e), NEW s \in toServer, s.port = e.c.remote,
           s.data # <<>>, e.c.state \notin {"CLOSED", "LISTEN"},
           e.c.state = "SYN_RCVD" => Stale(e.c.remote)
    PROVE  LET d == TakeData(e, s)
           IN  /\ EffectOk(d) /\ d.c.state = e.c.state /\ d.c.remote = e.c.remote
               /\ Acceptable(e.c, s) /\ e.c.state = "ESTABLISHED" /\ "FIN" \in s.flags =>
                     Len(bytesRead) + Queued(d.c) = peer[e.c.remote].sent /\ peer[e.c.remote].fin
<1> DEFINE n == Len(s.data)
           f == [e EXCEPT !.c.rcv_nxt = Plus(@, n)]
           g == IF f.c.state = "ESTABLISHED" THEN rx_put(f, s.data) ELSE f
<1>1. IsStretch(e) /\ CtrlOk(e.c, e.ring) /\ CtrlType(e.c) /\ IsCtrl(e.c) /\ \A x \in e.sent : Plain(x)
    BY DEF EffectOk, CtrlOk, CtrlType
<1>2. CASE ~Acceptable(e.c, s)
    <2>1. TakeData(e, s) = send_ack(e)
        BY <1>2 DEF TakeData
    <2> QED BY <1>1, <1>2, <2>1, SendAckOk, SendAckIs
<1>3. CASE Acceptable(e.c, s)
    <2>1. TakeData(e, s) = Signal(send_ack(g), "conn")
        BY <1>3 DEF TakeData
    <2>2. /\ IsStretch(f) /\ f.ring = e.ring /\ f.sent = e.sent /\ IsCtrl(f.c)
          /\ SameWrite(e.c, f.c) /\ f.c.rcv_nxt = Plus(e.c.rcv_nxt, n) /\ f.c.rx_head = e.c.rx_head
        <3>1. /\ IsStretch(f) /\ f.ring = e.ring /\ f.sent = e.sent
              /\ f.c = [e.c EXCEPT !.rcv_nxt = Plus(e.c.rcv_nxt, n)]
            BY <1>1 DEF IsStretch, IsCtrl
        <3> HIDE DEF f, n
        <3> QED BY <1>1, <3>1 DEF IsCtrl, SameWrite
    <2>3. s.data \in Seq(Nat) /\ n \in Nat /\ n <= RingSize
        <3>1. s.data \in Seq(Nat)
            BY DEF World, Upward
        <3>2. n \in Nat /\ n <= rx_room(e.c)
            BY <1>3, <3>1 DEF Acceptable
        <3>3. Queued(e.c) \in 0 .. RingSize /\ RingSize \in Nat
            BY <1>1, Sizes DEF CtrlType
        <3> HIDE DEF n
        <3>4. n <= RingSize - Queued(e.c)
            BY <3>2 DEF rx_room
        <3> QED BY <3>1, <3>2, <3>3, <3>4
    <2>4. e.c.rx_head \in Nat /\ e.c.rcv_nxt \in Seqno
        BY <1>1 DEF CtrlType
    <2> HIDE DEF f
    <2>5. /\ IsStretch(g) /\ g.sent = e.sent /\ CtrlOk(g.c, g.ring)
          /\ g.c.state = e.c.state /\ g.c.remote = e.c.remote
          /\ e.c.state = "ESTABLISHED" /\ "FIN" \in s.flags =>
                Len(bytesRead) + Queued(g.c) = peer[e.c.remote].sent /\ peer[e.c.remote].fin
        <3>1. CASE e.c.state = "ESTABLISHED"
            <4> DEFINE p == rx_put(f, s.data)
            <4>1. g = p
                BY <2>2, <3>1 DEF SameWrite
            <4>2. /\ IsStretch(p) /\ p.sent = f.sent
                  /\ p.c = [f.c EXCEPT !.rx_head = f.c.rx_head + Len(s.data)]
                  /\ Filled(f.ring, p.ring, f.c.rx_head, s.data)
                <5>1. IsStretch(f) /\ IsCtrl(f.c) /\ f.c.rx_head \in Nat /\ Len(s.data) <= RingSize
                    BY <2>2, <2>3, <2>4
                <5> QED BY <2>3, <5>1, RxPutIs
            <4> HIDE DEF p
            <4>3. SameWrite(e.c, p.c) /\ p.c.rcv_nxt = Plus(e.c.rcv_nxt, n) /\ p.c.rx_head = e.c.rx_head + n
                <5> HIDE DEF n
                <5>1. p.c = [f.c EXCEPT !.rx_head = e.c.rx_head + n]
                    BY <2>2, <4>2 DEF n
                <5> QED BY <2>2, <5>1 DEF SameWrite, IsCtrl
            <4>4. Filled(e.ring, p.ring, e.c.rx_head, s.data)
                BY <2>2, <4>2
            <4>5. bytesRead \in Seq(Nat)
                BY DEF AppOk
            <4>6. /\ CtrlOk(p.c, p.ring)
                  /\ "FIN" \in s.flags =>
                        Len(bytesRead) + Queued(p.c) = peer[e.c.remote].sent /\ peer[e.c.remote].fin
                <5>1. CtrlOk(e.c, e.ring) /\ SameWrite(e.c, p.c)
                    BY <1>1, <4>3
                <5>2. p.c.rcv_nxt = Plus(e.c.rcv_nxt, Len(s.data)) /\ p.c.rx_head = e.c.rx_head + Len(s.data)
                    BY <4>3
                <5> QED BY <1>3, <3>1, <4>4, <4>5, <5>1, <5>2, DataPut
            <4> HIDE DEF g
            <4> QED BY <2>2, <4>1, <4>2, <4>3, <4>6 DEF SameWrite
        <3>2. CASE e.c.state # "ESTABLISHED"
            <4>1. g = f
                BY <2>2, <3>2 DEF SameWrite
            <4>2. f.c.rcv_nxt \in Seqno
                <5>1. SeqWrap \in Nat \ {0} /\ e.c.rcv_nxt \in 0 .. SeqWrap - 1
                    BY <2>4, Sizes DEF Seqno
                <5> HIDE DEF n
                <5> QED BY <2>2, <2>3, <5>1 DEF Plus, Seqno
            <4> HIDE DEF g, n
            <4>3. CtrlOk(f.c, e.ring)
                BY <1>1, <2>2, <3>2, <4>2, DataDropped
            <4> QED BY <2>2, <3>2, <4>1, <4>3 DEF SameWrite
        <3> QED BY <3>1, <3>2
    <2> HIDE DEF g, n
    <2>6. EffectOk(g)
        BY <1>1, <2>5 DEF EffectOk
    <2>7. EffectOk(send_ack(g)) /\ send_ack(g).c = g.c
        BY <2>6, SendAckOk, SendAckIs DEF EffectOk
    <2>8. EffectOk(Signal(send_ack(g), "conn")) /\ Signal(send_ack(g), "conn").c = g.c
        BY <2>7, SignalOk, SignalIs DEF EffectOk
    <2> QED BY <2>1, <2>5, <2>8
<1> QED
    BY <1>2, <1>3

-----------------------------------------------------------------------------
(* The end of the client's stream.                                         *)

LEMMA FinFits ==
    ASSUME NEW c, NEW ring, CtrlOk(c, ring), c.state = "ESTABLISHED",
           Len(bytesRead) + Queued(c) = peer[c.remote].sent, peer[c.remote].fin,
           NEW rcv \in Seqno, NEW d,
           d = [c EXCEPT !.rcv_nxt = rcv, !.state = "CLOSE_WAIT", !.rx_eof = TRUE]
    PROVE  CtrlOk(d, ring)
<1>1. /\ CtrlType(c) /\ ConnOk(c, ring) /\ StageOk(c) /\ SendOk(c) /\ RecvOk(c, ring) /\ IsCtrl(c)
    BY DEF CtrlOk, ConnOk, connected, CtrlType
<1>2. /\ DOMAIN d = DOMAIN c /\ d.state = "CLOSE_WAIT" /\ d.rx_eof = TRUE /\ d.rcv_nxt = rcv
      /\ d.remote = c.remote /\ d.snd_una = c.snd_una /\ d.snd_nxt = c.snd_nxt
      /\ d.tx_flags = c.tx_flags /\ d.tx_data = c.tx_data /\ d.retries = c.retries
      /\ d.sender = c.sender /\ d.send_err = c.send_err
      /\ d.rx_head = c.rx_head /\ d.rx_tail = c.rx_tail
    BY <1>1 DEF IsCtrl
<1>3. Queued(d) = Queued(c)
    BY <1>2 DEF Queued
<1>4. CtrlType(d)
    BY <1>1, <1>2, <1>3 DEF CtrlType, IsCtrl, State
<1>5. SendOk(d)
    BY <1>1, <1>2 DEF SendOk
<1>6. RecvOk(d, ring)
    BY <1>1, <1>2, <1>3 DEF RecvOk
<1>7. StageOk(d)
    BY <1>1, <1>2 DEF StageOk, connected, Ending
<1> QED
    BY <1>1, <1>2, <1>4, <1>5, <1>6, <1>7 DEF CtrlOk, ConnOk, connected, Ending

LEMMA RcvMoved ==
    ASSUME World, NEW c, NEW ring, CtrlOk(c, ring), c.state \notin {"CLOSED", "LISTEN", "ESTABLISHED", "SYN_RCVD"},
           NEW rcv \in Seqno
    PROVE  CtrlOk([c EXCEPT !.rcv_nxt = rcv], ring) /\ [c EXCEPT !.rcv_nxt = rcv].state = c.state
<1> DEFINE d == [c EXCEPT !.rcv_nxt = rcv]
<1>1. IsCtrl(c)
    BY DEF CtrlOk, CtrlType
<1>2. SameWrite(c, d) /\ d.rcv_nxt \in Seqno /\ d.rx_head = c.rx_head
    BY <1>1 DEF IsCtrl, SameWrite
<1> HIDE DEF d
<1>3. CtrlOk(d, ring)
    BY <1>2, DataDropped
<1> QED
    BY <1>2, <1>3 DEF d, SameWrite

\* A FIN is taken only when all before it has arrived.
LEMMA TakeFinOk ==
    ASSUME Roomy, World, AppOk, NEW e, EffectOk(e), NEW s \in toServer, s.port = e.c.remote,
           "FIN" \in s.flags, e.c.state \notin {"CLOSED", "LISTEN"},
           s.data # <<>> /\ e.c.state = "ESTABLISHED" =>
               Len(bytesRead) + Queued(e.c) = peer[e.c.remote].sent /\ peer[e.c.remote].fin
    PROVE  EffectOk(TakeFin(e, s))
<1> DEFINE k == [e EXCEPT !.c.rcv_nxt = Plus(@, 1)]
           f == send_ack(k)
           g == [f EXCEPT !.c.state = "CLOSE_WAIT", !.c.rx_eof = TRUE]
<1>1. IsStretch(e) /\ CtrlOk(e.c, e.ring) /\ CtrlType(e.c) /\ IsCtrl(e.c) /\ \A x \in e.sent : Plain(x)
    BY DEF EffectOk, CtrlOk, CtrlType
<1>2. e.c.rcv_nxt \in Seqno /\ Plus(e.c.rcv_nxt, 1) \in Seqno
    <2>1. e.c.rcv_nxt \in Seqno /\ 1 \in Nat /\ 1 < SeqWrap
        BY <1>1, Room DEF CtrlType
    <2> QED BY <2>1, PlusValue
<1>3. CASE s.data = <<>> /\ s.seq # e.c.rcv_nxt
    <2>1. TakeFin(e, s) = send_ack(e)
        BY <1>3 DEF TakeFin
    <2> QED BY <2>1, SendAckOk
<1>4. CASE ~(s.data = <<>> /\ s.seq # e.c.rcv_nxt)
    <2>1. TakeFin(e, s) = CASE e.c.state = "ESTABLISHED" -> Signal(g, "conn")
                            [] e.c.state = "FIN_WAIT_2" -> disconnect(f)
                            [] OTHER -> e
        BY <1>4 DEF TakeFin
    <2>2. /\ IsStretch(k) /\ k.ring = e.ring /\ k.sent = e.sent
          /\ k.c = [e.c EXCEPT !.rcv_nxt = Plus(e.c.rcv_nxt, 1)]
        BY <1>1 DEF IsStretch, IsCtrl
    <2> HIDE DEF k
    <2>3. /\ IsStretch(f) /\ f.ring = e.ring /\ f.c = [e.c EXCEPT !.rcv_nxt = Plus(e.c.rcv_nxt, 1)]
          /\ \A x \in f.sent : Plain(x)
        BY <1>1, <2>2, SendAckIs
    <2> HIDE DEF f
    <2>4. CASE e.c.state = "ESTABLISHED"
        <3>1. Len(bytesRead) + Queued(e.c) = peer[e.c.remote].sent /\ peer[e.c.remote].fin
            <4>1. CASE s.data # <<>>
                BY <2>4, <4>1
            <4>2. CASE s.data = <<>>
                <5> DEFINE got == Len(bytesRead) + Queued(e.c)
                           sent == peer[e.c.remote].sent
                <5>1. ConnOk(e.c, e.ring) /\ e.c.remote \in Port
                    BY <1>1, <2>4 DEF CtrlOk, ConnOk, connected
                <5>2. Upward(s, peer[e.c.remote]) /\ sent \in 0 .. PeerBytes
                    BY <5>1 DEF World, ClientType
                <5>3. s.seq = PeerSeq(1 + sent) /\ peer[e.c.remote].fin
                    BY <4>2, <5>2 DEF Upward
                <5>4. e.c.rcv_nxt = PeerSeq(1 + got) /\ got <= sent
                    BY <2>4, <5>1 DEF ConnOk, RecvOk
                <5>5. got \in Nat
                    <6>1. Queued(e.c) \in 0 .. RingSize /\ RingSize \in Nat /\ Len(bytesRead) \in Nat
                        BY <1>1, Sizes DEF CtrlType, AppOk
                    <6> QED BY <6>1
                <5>6. s.seq = e.c.rcv_nxt
                    BY <1>4, <4>2
                <5> HIDE DEF got, sent
                <5>7. 1 + got \in Nat /\ 1 + sent \in Nat /\ 1 + got < SeqWrap /\ 1 + sent < SeqWrap
                    BY <5>2, <5>4, <5>5, Room
                <5>8. 1 + got = 1 + sent
                    BY <5>3, <5>4, <5>6, <5>7, PlusSame, Sizes DEF PeerSeq
                <5>9. got = sent
                    BY <5>2, <5>5, <5>8
                <5> QED BY <5>3, <5>9 DEF got, sent
            <4> QED BY <4>1, <4>2
        <3>2. /\ IsStretch(g) /\ g.ring = e.ring /\ g.sent = f.sent
              /\ g.c = [f.c EXCEPT !.state = "CLOSE_WAIT", !.rx_eof = TRUE]
            BY <2>3 DEF IsStretch
        <3> HIDE DEF g
        <3>3. g.c = [e.c EXCEPT !.rcv_nxt = Plus(e.c.rcv_nxt, 1), !.state = "CLOSE_WAIT", !.rx_eof = TRUE]
            BY <1>1, <2>3, <3>2 DEF IsCtrl
        <3>4. CtrlOk(g.c, e.ring)
            BY <1>1, <1>2, <2>4, <3>1, <3>3, FinFits
        <3>5. EffectOk(g)
            BY <2>3, <3>2, <3>4 DEF EffectOk
        <3> QED BY <2>1, <2>4, <3>5, SignalOk
    <2>5. CASE e.c.state = "FIN_WAIT_2"
        <3>1. EffectOk(f) /\ f.c.state # "CLOSED"
            BY <1>1, <1>2, <2>3, <2>5, RcvMoved DEF EffectOk
        <3> QED BY <2>1, <2>5, <3>1, DisconnectOk
    <2>6. CASE e.c.state \notin {"ESTABLISHED", "FIN_WAIT_2"}
        BY <2>1, <2>6
    <2> QED BY <2>4, <2>5, <2>6
<1> QED
    BY <1>3, <1>4

LEMMA RecvSegmentOk ==
    ASSUME Roomy, StreamInv, NEW s \in toServer, s.port = ctrl.remote,
           ctrl.state \notin {"CLOSED", "LISTEN"}
    PROVE  EffectOk(RecvSegment(s))
<1> DEFINE a == TakeAck(Begin, s)
           d == IF s.data # <<>> /\ a.c.state # "CLOSED" THEN TakeData(a, s) ELSE a
<1>1. World /\ AppOk
    BY DEF StreamInv
<1>2. /\ EffectOk(a)
      /\ a.c.state = "SYN_RCVD" /\ "ACK" \in s.flags => Stale(a.c.remote)
      /\ a.c.state # "CLOSED" => a.c.remote = ctrl.remote
    BY TakeAckOk
<1>3. /\ s.data # <<>> => "ACK" \in s.flags
      /\ "FIN" \in s.flags => "ACK" \in s.flags
    BY <1>1 DEF World, Upward
<1>4. RecvSegment(s) = IF a.c.state = "CLOSED" \/ "FIN" \notin s.flags THEN d
                       ELSE IF s.data # <<>> /\ ~Acceptable(a.c, s) THEN d
                       ELSE TakeFin(d, s)
    BY DEF RecvSegment
<1> HIDE DEF a
<1>5. CASE a.c.state = "CLOSED"
    BY <1>2, <1>4, <1>5
<1>6. CASE a.c.state # "CLOSED"
    <2>1. a.c.state # "LISTEN"
        \* The stretch began in another state and no call leads to this one.
        <3>1. a.c.remote = s.port /\ s.port \in Port
            BY <1>1, <1>2, <1>6 DEF World
        <3>2. a.c.state = "LISTEN" => a.c.remote = NoPort
            BY <1>2 DEF EffectOk, CtrlOk, FreeOk
        <3> QED BY <3>1, <3>2, Sizes
    <2>2. /\ EffectOk(d) /\ d.c.state = a.c.state /\ d.c.remote = a.c.remote
          /\ s.data # <<>> /\ Acceptable(a.c, s) /\ a.c.state = "ESTABLISHED" /\ "FIN" \in s.flags =>
                Len(bytesRead) + Queued(d.c) = peer[a.c.remote].sent /\ peer[a.c.remote].fin
        <3>1. CASE s.data # <<>>
            <4>1. d = TakeData(a, s)
                BY <1>6, <3>1
            <4>2. s.port = a.c.remote /\ (a.c.state = "SYN_RCVD" => Stale(a.c.remote))
                BY <1>2, <1>3, <1>6, <3>1
            <4> HIDE DEF d
            <4>3. /\ EffectOk(TakeData(a, s)) /\ TakeData(a, s).c.state = a.c.state
                  /\ TakeData(a, s).c.remote = a.c.remote
                  /\ Acceptable(a.c, s) /\ a.c.state = "ESTABLISHED" /\ "FIN" \in s.flags =>
                        Len(bytesRead) + Queued(TakeData(a, s).c) = peer[a.c.remote].sent /\ peer[a.c.remote].fin
                BY <1>1, <1>2, <1>6, <2>1, <3>1, <4>2, TakeDataOk
            <4> QED BY <4>1, <4>3
        <3>2. CASE s.data = <<>>
            BY <1>2, <3>2
        <3> QED BY <3>1, <3>2
    <2> HIDE DEF d
    <2>3. CASE RecvSegment(s) = d
        BY <2>2, <2>3
    <2>4. CASE RecvSegment(s) # d
        <3>1. RecvSegment(s) = TakeFin(d, s) /\ "FIN" \in s.flags /\ (s.data # <<>> => Acceptable(a.c, s))
            BY <1>4, <1>6, <2>4
        <3>2. s.port = d.c.remote /\ d.c.state \notin {"CLOSED", "LISTEN"}
            BY <1>2, <1>6, <2>1, <2>2
        <3>3. s.data # <<>> /\ d.c.state = "ESTABLISHED" =>
                  Len(bytesRead) + Queued(d.c) = peer[d.c.remote].sent /\ peer[d.c.remote].fin
            BY <2>2, <3>1
        <3> QED BY <1>1, <2>2, <3>1, <3>2, <3>3, TakeFinOk
    <2> QED BY <2>3, <2>4
<1> QED
    BY <1>5, <1>6

-----------------------------------------------------------------------------
(* What is sent again.                                                     *)

\* The segment that send_unacked() sends.
Resent(c) ==
    LET outstanding == (c.snd_nxt - c.snd_una) % SeqWrap
        len == Len(c.tx_data)
        acked == IF outstanding < len THEN len - outstanding ELSE 0
    IN  Segment(c.remote, c.snd_una, c.rcv_nxt, c.tx_flags, SubSeq(c.tx_data, acked + 1, len))

LEMMA SendUnackedIs ==
    ASSUME NEW e, IsStretch(e)
    PROVE  /\ IsStretch(send_unacked(e)) /\ send_unacked(e).c = e.c
           /\ send_unacked(e).ring = e.ring
           /\ send_unacked(e).sent = e.sent \cup {Resent(e.c)}
BY SendIs DEF send_unacked, Resent

\* What a server in state c may send.
Fits(x, c) ==
    x.port \in Port =>
        \/ Unopened(x)
        \/ x.port = c.remote /\ connected(c) /\ Downward(x, connects, Sent, FALSE)
        \/ x.port = c.remote /\ Ending(c) /\ Downward(x, connects, Sent, TRUE)

LEMMA PlainFits == ASSUME NEW x, Plain(x), NEW c PROVE Fits(x, c)
BY DEF Plain, Fits, Unopened

\* A part of a stretch of bytes.
LEMMA SpanPart ==
    ASSUME NEW i \in Nat, NEW m \in Nat, NEW skip \in 0 .. m, NEW len \in 0 .. m - skip
    PROVE  /\ Span(i, m) \in Seq(Nat) /\ Len(Span(i, m)) = m
           /\ SubSeq(Span(i, m), skip + 1, skip + len) = Span(i + skip, len)
<1> DEFINE s == Span(i, m)
           t == SubSeq(s, skip + 1, skip + len)
           z == Span(i + skip, len)
<1>0. \A x \in 1 .. m : i + x \in Nat
    OBVIOUS
<1>1. s \in Seq(Nat) /\ Len(s) = m /\ \A x \in 1 .. m : s[x] = i + x
    BY <1>0 DEF Span
<1> HIDE DEF s
<1>2. Len(t) = len /\ t \in Seq(Nat) /\ \A x \in 1 .. len : t[x] = s[skip + x]
    <2>1. skip + 1 \in 1 .. m + 1 /\ skip + len \in skip .. m /\ skip + len \in 0 .. Len(s)
        BY <1>1
    <2>2. CASE len = 0
        <3>1. skip + len < skip + 1
            BY <2>2
        <3>2. t = <<>>
            BY <1>1, <3>1
        <3> QED BY <2>2, <3>2
    <2>3. CASE len # 0
        <3>1. skip + 1 <= skip + len
            BY <2>3
        <3> QED BY <1>1, <2>1, <3>1
    <2> QED BY <2>2, <2>3
<1> HIDE DEF t
<1>3. z \in Seq(Nat) /\ Len(z) = len /\ \A x \in 1 .. len : z[x] = i + skip + x
    <2>1. \A x \in 1 .. len : i + skip + x \in Nat
        OBVIOUS
    <2> QED BY <2>1 DEF Span
<1> HIDE DEF z
<1>4. \A x \in 1 .. len : t[x] = z[x]
    <2> SUFFICES ASSUME NEW x \in 1 .. len PROVE t[x] = z[x]
        OBVIOUS
    <2>1. skip + x \in 1 .. m /\ i + (skip + x) = i + skip + x
        OBVIOUS
    <2> QED BY <1>1, <1>2, <1>3, <2>1
<1>5. t = z
    BY <1>2, <1>3, <1>4, SeqEqual
<1> QED
    BY <1>1, <1>5 DEF s, t, z

\* What is not acknowledged of n bytes: those after the first u.
LEMMA UnackedData ==
    ASSUME Roomy, NEW k \in 1 .. Len(Iss), NEW n \in 0 .. MaxWritten, NEW u \in 0 .. n,
           NEW c, c.snd_una = At(k, 1 + u), c.snd_nxt = At(k, 1 + n),
           c.tx_data \in Seq(Nat), Len(c.tx_data) <= n, n - u <= Len(c.tx_data),
           c.tx_data = Span(n - Len(c.tx_data), Len(c.tx_data)), "FIN" \notin c.tx_flags
    PROVE  Downward(Resent(c), k, n, FALSE) /\ Resent(c).port = c.remote
<1> DEFINE outstanding == (c.snd_nxt - c.snd_una) % SeqWrap
           len == Len(c.tx_data)
           acked == IF outstanding < len THEN len - outstanding ELSE 0
           part == SubSeq(c.tx_data, acked + 1, len)
<1>1. n \in Nat /\ u \in Nat /\ MaxWritten \in Nat /\ SeqWrap \in Nat /\ Iss[k] \in Seqno
      /\ 1 + u \in Nat /\ 1 + n \in Nat /\ 1 + u < SeqWrap /\ 1 + n < SeqWrap
    <2> HIDE DEF outstanding, len, acked, part
    <2>1. MaxWritten \in Nat /\ SeqWrap \in Nat /\ 2 * (MaxWritten + 4) < SeqWrap /\ Iss[k] \in Seqno
        BY Room
    <2>2. n \in Nat /\ u \in Nat /\ u <= n /\ n <= MaxWritten
        BY <2>1
    <2>3. 1 + u \in Nat /\ 1 + n \in Nat /\ 1 + u < SeqWrap /\ 1 + n < SeqWrap
        BY <2>1, <2>2
    <2> QED BY <2>1, <2>2, <2>3
<1>2. outstanding = n - u
    <2>1. (Plus(Iss[k], 1 + n) - Plus(Iss[k], 1 + u)) % SeqWrap = IF 1 + n >= 1 + u THEN (1 + n) - (1 + u) ELSE (1 + n) - (1 + u) + SeqWrap
        BY <1>1, PlusDiff
    <2> DEFINE v == (Plus(Iss[k], 1 + n) - Plus(Iss[k], 1 + u)) % SeqWrap
    <2>2. outstanding = v
        BY DEF At
    <2>3. v = IF 1 + n >= 1 + u THEN (1 + n) - (1 + u) ELSE (1 + n) - (1 + u) + SeqWrap
        BY <2>1
    <2> HIDE DEF v, outstanding
    <2> QED BY <1>1, <2>2, <2>3
<1>3. len \in Nat
    OBVIOUS
<1> HIDE DEF outstanding, len
<1>4. /\ acked = len - (n - u) /\ acked \in 0 .. len /\ n - u \in 0 .. len - acked
      /\ acked + (n - u) = len /\ n - len \in Nat /\ (n - len) + acked = u
    <2>1. len <= n /\ n - u <= len
        BY DEF len
    <2>2. acked = len - (n - u)
        <3>1. CASE outstanding < len
            BY <1>2, <3>1
        <3>2. CASE ~(outstanding < len)
            <4>1. n - u = len
                BY <1>1, <1>2, <1>3, <2>1, <3>2
            <4>2. acked = 0
                BY <3>2
            <4> QED BY <1>3, <4>1, <4>2
        <3> QED BY <3>1, <3>2
    <2> HIDE DEF acked
    <2>3. u <= n
        OBVIOUS
    <2>4. acked \in 0 .. len /\ n - len \in Nat
        BY <1>1, <1>3, <2>1, <2>2, <2>3
    <2>5. acked + (n - u) = len /\ (n - len) + acked = u /\ len - acked = n - u
        BY <1>1, <1>3, <2>2
    <2>6. n - u \in 0 .. len - acked
        BY <1>1, <2>3, <2>5
    <2> QED BY <2>2, <2>4, <2>5, <2>6
<1> HIDE DEF acked
<1>5. part = Span(u, n - u) /\ part \in Seq(Nat) /\ Len(part) = n - u
    <2>1. SubSeq(Span(n - len, len), acked + 1, acked + (n - u)) = Span((n - len) + acked, n - u)
        <3> DEFINE i == n - len
                   b == n - u
        <3>1. i \in Nat /\ b \in 0 .. len - acked /\ acked \in 0 .. len
            BY <1>4
        <3> HIDE DEF i, b
        <3>2. SubSeq(Span(i, len), acked + 1, acked + b) = Span(i + acked, b)
            BY <1>3, <3>1, SpanPart
        <3> QED BY <3>2 DEF i, b
    <2>2. part = Span(u, n - u)
        BY <1>4, <2>1 DEF len
    <2>3. n - u \in Nat /\ 0 \in 0 .. n - u /\ n - u \in 0 .. (n - u) - 0
        BY <1>1
    <2>4. Span(u, n - u) \in Seq(Nat) /\ Len(Span(u, n - u)) = n - u
        BY <1>1, <2>3, SpanPart
    <2> QED BY <2>2, <2>4
<1>6. Resent(c) = Segment(c.remote, c.snd_una, c.rcv_nxt, c.tx_flags, part)
    BY DEF Resent, outstanding, len, acked
<1> DEFINE x == Resent(c)
<1> HIDE DEF part
<1>7. x.port = c.remote /\ x.seq = At(k, 1 + u) /\ x.flags = c.tx_flags /\ x.data = part
    BY <1>6 DEF Segment
<1> HIDE DEF x
<1>8. u + Len(part) <= n /\ part = Span(u, Len(part))
    BY <1>1, <1>5
<1> QED
    BY <1>5, <1>7, <1>8 DEF Downward, x

LEMMA ResentFits ==
    ASSUME Roomy, World, AppOk, NEW c, NEW ring, CtrlOk(c, ring)
    PROVE  Fits(Resent(c), c)
<1>1. CtrlType(c) /\ Sent \in 0 .. MaxWritten /\ connects \in 0 .. Len(Iss)
    BY SentBounds DEF CtrlOk, World
<1>2. ASSUME c.tx_data = <<>>
      PROVE  /\ Resent(c).data = <<>> /\ Resent(c).flags = c.tx_flags
             /\ Resent(c).seq = c.snd_una /\ Resent(c).port = c.remote
    <2> DEFINE outstanding == (c.snd_nxt - c.snd_una) % SeqWrap
    <2>1. Len(c.tx_data) = 0 /\ \A i \in Int : i >= 1 => SubSeq(c.tx_data, i, 0) = <<>>
        BY <1>2, EmptySeq
    <2>2. \E acked \in {0, 0 - outstanding} :
              /\ Resent(c) = Segment(c.remote, c.snd_una, c.rcv_nxt, c.tx_flags, SubSeq(c.tx_data, acked + 1, 0))
              /\ acked = IF outstanding < 0 THEN 0 - outstanding ELSE 0
        BY <2>1 DEF Resent
    <2>3. outstanding \in Nat
        BY <1>1, Sizes DEF CtrlType, IsCtrl, Seqno
    <2> HIDE DEF outstanding
    <2>4. Resent(c) = Segment(c.remote, c.snd_una, c.rcv_nxt, c.tx_flags, SubSeq(c.tx_data, 1, 0))
        BY <2>2, <2>3
    <2> QED BY <2>1, <2>4 DEF Segment
<1>3. CASE c.state \in {"CLOSED", "LISTEN"}
    <2>1. c.remote = NoPort /\ c.tx_data = <<>>
        BY <1>3 DEF CtrlOk, FreeOk
    <2> QED BY <1>2, <2>1, Sizes DEF Fits
<1>4. CASE c.state = "SYN_RCVD"
    <2>1. /\ c.tx_data = <<>> /\ c.tx_flags = {"SYN", "ACK"} /\ c.snd_una = At(connects, 0) /\ connects > 0
        BY <1>4 DEF CtrlOk, OpeningOk
    <2>2. connects \in 1 .. connects /\ "FIN" \notin {"SYN", "ACK"}
        BY <1>1, <2>1
    <2> QED BY <1>2, <2>1, <2>2 DEF Fits, Unopened
<1>5. CASE connected(c)
    <2>1. SendOk(c) /\ connects > 0
        BY <1>5 DEF CtrlOk, ConnOk
    <2>2. PICK u \in 0 .. Sent :
              /\ c.snd_una = At(connects, 1 + u) /\ c.snd_nxt = At(connects, 1 + Sent)
              /\ c.tx_data \in Seq(Nat) /\ Len(c.tx_data) <= Sent /\ Sent - u <= Len(c.tx_data)
              /\ c.tx_data = Span(Sent - Len(c.tx_data), Len(c.tx_data))
              /\ "FIN" \notin c.tx_flags
        BY <2>1 DEF SendOk
    <2>3. connects \in 1 .. Len(Iss)
        BY <1>1, <2>1
    <2>4. Downward(Resent(c), connects, Sent, FALSE) /\ Resent(c).port = c.remote
        BY <1>1, <2>2, <2>3, UnackedData
    <2> QED BY <1>5, <2>4 DEF Fits
<1>6. CASE Ending(c)
    <2>1. EndingOk(c)
        BY <1>6 DEF CtrlOk
    <2>2. c.tx_data = <<>> /\ c.tx_flags = {"FIN", "ACK"} /\ c.snd_una \in {At(connects, 1 + Sent), At(connects, 2 + Sent)}
        BY <2>1 DEF EndingOk
    <2>3. Downward(Resent(c), connects, Sent, TRUE)
        BY <1>2, <2>2, EmptySeq DEF Downward
    <2> QED BY <1>2, <1>6, <2>2, <2>3 DEF Fits
<1> QED
    BY <1>1, <1>3, <1>4, <1>5, <1>6 DEF CtrlType, State, connected, Ending

-----------------------------------------------------------------------------
(* What a step leaves of a connection.                                     *)

LEMMA DownwardGrows ==
    ASSUME NEW s, NEW k, NEW n \in 0 .. MaxWritten, NEW fin \in BOOLEAN, Downward(s, k, n, fin),
           NEW n2 \in 0 .. MaxWritten, n <= n2, NEW fin2 \in BOOLEAN, fin => fin2 /\ n2 = n
    PROVE  Downward(s, k, n2, fin2)
<1>1. ASSUME s.data # <<>>
      PROVE  \E i \in 0 .. n2 : /\ s.seq = At(k, 1 + i) /\ s.data = Span(i, Len(s.data))
                                /\ i + Len(s.data) <= n2
    <2>1. PICK i \in 0 .. n : /\ s.seq = At(k, 1 + i) /\ s.data = Span(i, Len(s.data))
                              /\ i + Len(s.data) <= n
        BY <1>1 DEF Downward
    <2>2. Len(s.data) \in Nat
        BY DEF Downward
    <2>3. i \in 0 .. n2 /\ i + Len(s.data) <= n2
        BY <2>1, <2>2, Sizes
    <2> QED BY <2>1, <2>3
<1> QED
    BY <1>1 DEF Downward

\* The client is where it was, what is new on its way fits.
LEMMA OnKept ==
    ASSUME NEW p, NEW k, NEW n \in 0 .. MaxWritten, NEW fin \in BOOLEAN, On(p, k, n, fin),
           peer'[p] = peer[p],
           NEW n2 \in 0 .. MaxWritten, n <= n2, NEW fin2 \in BOOLEAN, fin => fin2 /\ n2 = n,
           Len(peer[p].got) \in Nat,
           \A s \in toServer' : s.port = p => s \in toServer,
           \A s \in toPeer' : s.port = p => s \in toPeer \/ Downward(s, k, n2, fin2)
    PROVE  On(p, k, n2, fin2)'
<1>1. \A s \in toPeer' : s.port = p => Downward(s, k, n2, fin2)
    <2> SUFFICES ASSUME NEW s \in toPeer', s.port = p, s \in toPeer PROVE Downward(s, k, n2, fin2)
        OBVIOUS
    <2>1. Downward(s, k, n, fin)
        BY DEF On
    <2> QED BY <2>1, DownwardGrows
<1>2. \A s \in toServer' : s.port = p => Acks(s, k, Len(peer[p].got), fin2)
    <2> SUFFICES ASSUME NEW s \in toServer', s.port = p, "ACK" \in s.flags
                 PROVE  \E m \in 0 .. Len(peer[p].got) + (IF fin2 THEN 2 ELSE 0) : s.ack = At(k, 1 + m)
        BY DEF Acks
    <2>1. PICK m \in 0 .. Len(peer[p].got) + (IF fin THEN 2 ELSE 0) : s.ack = At(k, 1 + m)
        BY DEF On, Acks
    <2> DEFINE a == IF fin THEN 2 ELSE 0
               b == IF fin2 THEN 2 ELSE 0
               got == Len(peer[p].got)
    <2>2. a \in Nat /\ b \in Nat /\ a <= b
        OBVIOUS
    <2>3. m \in 0 .. got + a /\ got \in Nat
        BY <2>1
    <2> HIDE DEF a, b, got
    <2>4. m \in 0 .. got + b
        BY <2>2, <2>3
    <2> QED BY <2>1, <2>4 DEF b, got
<1>3. /\ Open(peer[p]) /\ peer[p].got = Bytes(Len(peer[p].got)) /\ Len(peer[p].got) <= n
      /\ \E f \in 0 .. 2 : peer[p].rcv_nxt = At(k, 1 + Len(peer[p].got) + f) /\ (f > 0 => fin /\ Len(peer[p].got) = n)
    BY DEF On
<1>4. PICK f \in 0 .. 2 : peer[p].rcv_nxt = At(k, 1 + Len(peer[p].got) + f) /\ (f > 0 => fin /\ Len(peer[p].got) = n)
    BY <1>3
<1>5. Len(peer[p].got) <= n2 /\ (f > 0 => fin2 /\ Len(peer[p].got) = n2)
    BY <1>3, <1>4, Sizes
<1> QED
    BY <1>1, <1>2, <1>3, <1>4, <1>5 DEF On

\* The part of a client's connection that the server in state c counts on.
Known(c, k, n, fin) ==
    \/ c.state = "SYN_RCVD"
    \/ connected(c) /\ k = connects /\ n = Sent /\ ~fin
    \/ Ending(c) /\ k = connects /\ n = Sent /\ fin

\* Client p goes on.
Grown(p) ==
    /\ Len(peer[p].got) <= Len(peer'[p].got)
    /\ peer[p].sent <= peer'[p].sent
    /\ peer[p].fin => peer'[p].fin /\ peer'[p].sent = peer[p].sent
    /\ {Len(peer[p].got), Len(peer'[p].got), peer[p].sent, peer'[p].sent} \subseteq Nat

\* The application stays where it is: a signal may end its wait.
AppStays ==
    /\ UNCHANGED <<connects, app, conn, left, written, bytesRead>>
    /\ appWait' = "no" <=> appWait = "no"

LEMMA SentStays == ASSUME AppStays PROVE Sent' = Sent
BY DEF AppStays, Sent, Chunk

LEMMA StageKept ==
    ASSUME NEW c, StageOk(c), AppStays, Sent \in Nat, conn # NoPort => Grown(conn),
           app = "writing" => conn # NoPort
    PROVE  StageOk(c)'
<1>1. Sent' = Sent
    BY SentStays
<1>2. conn # NoPort /\ Sent <= Len(peer[conn].got) => Sent <= Len(peer'[conn].got)
    BY DEF Grown
<1> QED
    BY <1>1, <1>2 DEF StageOk, AppStays, Ending, connected

LEMMA CtrlKept ==
    ASSUME NEW c, NEW ring, CtrlOk(c, ring), World, AppOk, AppStays,
           conn # NoPort => Grown(conn),
           c.state \notin {"CLOSED", "LISTEN"} =>
               /\ Grown(c.remote)
               /\ \A k \in 1 .. connects, n \in 0 .. MaxWritten, fin \in BOOLEAN :
                     Known(c, k, n, fin) /\ On(c.remote, k, n, fin) => On(c.remote, k, n, fin)'
               /\ Open(peer'[c.remote]) /\ ~Open(peer[c.remote]) =>
                     \E k \in 1 .. connects : On(c.remote, k, 0, FALSE)'
    PROVE  CtrlOk(c, ring)'
<1>1. CtrlType(c) /\ StageOk(c) /\ Sent \in 0 .. MaxWritten /\ connects \in 0 .. Len(Iss)
    BY SentBounds DEF CtrlOk, World
<1>2. Sent' = Sent /\ connects' = connects /\ bytesRead' = bytesRead
    BY SentStays DEF AppStays
<1>3. StageOk(c)'
    <2>1. app = "writing" => conn # NoPort
        BY DEF AppOk
    <2> QED BY <1>1, <2>1, StageKept
<1>4. connects > 0 => connects \in 1 .. connects
    BY <1>1
<1>5. 0 \in 0 .. MaxWritten /\ FALSE \in BOOLEAN /\ TRUE \in BOOLEAN
    BY Sizes
<1>6. c.state = "SYN_RCVD" => OpeningOk(c)'
    <2> SUFFICES ASSUME c.state = "SYN_RCVD" PROVE OpeningOk(c)'
        OBVIOUS
    <2>1. OpeningOk(c) /\ connects > 0
        BY DEF CtrlOk, OpeningOk
    <2>2. \A k \in 1 .. connects, n \in 0 .. MaxWritten, fin \in BOOLEAN :
              On(c.remote, k, n, fin) => On(c.remote, k, n, fin)'
        BY DEF Known
    <2> DEFINE Fresh == c.rcv_nxt = PeerSeq(1) /\ (Open(peer[c.remote]) => On(c.remote, connects, 0, FALSE))
               Old == \E k \in 1 .. connects - 1, n \in 0 .. MaxWritten, fin \in BOOLEAN : On(c.remote, k, n, fin)
    <2>3. Fresh \/ Old
        BY <2>1 DEF OpeningOk
    <2>4. Fresh' \/ Old'
        <3>1. CASE Old
            <4>1. PICK k \in 1 .. connects - 1, n \in 0 .. MaxWritten, fin \in BOOLEAN : On(c.remote, k, n, fin)
                BY <3>1
            <4>2. k \in 1 .. connects
                BY <1>1, <4>1
            <4>3. On(c.remote, k, n, fin)'
                BY <2>2, <4>1, <4>2
            <4> QED BY <1>2, <4>3
        <3>2. CASE Fresh /\ Open(peer[c.remote])
            <4>1. On(c.remote, connects, 0, FALSE)'
                BY <1>2, <1>4, <1>5, <2>1, <2>2, <3>2
            <4> QED BY <3>2, <4>1
        <3>3. CASE Fresh /\ ~Open(peer[c.remote]) /\ ~Open(peer'[c.remote])
            BY <3>3
        <3>4. CASE Fresh /\ ~Open(peer[c.remote]) /\ Open(peer'[c.remote])
            <4>1. PICK k \in 1 .. connects : On(c.remote, k, 0, FALSE)'
                BY <3>4
            <4>2. CASE k = connects
                BY <1>2, <3>4, <4>1, <4>2
            <4>3. CASE k # connects
                <5>1. k \in 1 .. connects - 1
                    BY <1>1, <4>1, <4>3
                <5> QED BY <1>2, <1>5, <4>1, <5>1
            <4> QED BY <4>2, <4>3
        <3> QED BY <2>3, <3>1, <3>2, <3>3, <3>4
    <2> QED BY <1>2, <2>1, <2>4 DEF OpeningOk
<1>7. connected(c) => ConnOk(c, ring)'
    <2> SUFFICES ASSUME connected(c) PROVE ConnOk(c, ring)'
        OBVIOUS
    <2>1. ConnOk(c, ring) /\ SendOk(c) /\ RecvOk(c, ring) /\ connects > 0
        BY DEF CtrlOk, ConnOk
    <2>2. Grown(c.remote) /\ Known(c, connects, Sent, FALSE) /\ On(c.remote, connects, Sent, FALSE)
        BY <2>1 DEF ConnOk, connected, Known
    <2>3. On(c.remote, connects, Sent, FALSE)'
        BY <1>1, <1>2, <1>4, <1>5, <2>1, <2>2 DEF connected
    <2>4. SendOk(c)'
        <3>1. PICK u \in 0 .. Sent :
                /\ c.snd_una = At(connects, 1 + u) /\ c.snd_nxt = At(connects, 1 + Sent)
                /\ u <= Len(peer[c.remote].got)
                /\ c.tx_data \in Seq(Nat) /\ Len(c.tx_data) <= Sent /\ Sent - u <= Len(c.tx_data)
                /\ c.tx_data = Span(Sent - Len(c.tx_data), Len(c.tx_data))
                /\ "FIN" \notin c.tx_flags
                /\ ~c.sender => u = Sent
                /\ c.sender => app = "writing" /\ appWait # "no"
            BY <2>1 DEF SendOk
        <3>2. u <= Len(peer'[c.remote].got)
            <4>1. PICK a, b : a = Len(peer[c.remote].got) /\ b = Len(peer'[c.remote].got)
                OBVIOUS
            <4>2. a \in Nat /\ b \in Nat /\ a <= b
                BY <2>2, <4>1 DEF Grown
            <4>3. u \in Nat /\ u <= a
                BY <1>1, <3>1, <4>1
            <4> QED BY <4>1, <4>2, <4>3
        <3>3. c.sender => app' = "writing" /\ appWait' # "no"
            BY <3>1 DEF AppStays
        <3> QED BY <1>2, <3>1, <3>2, <3>3 DEF SendOk
    <2>5. RecvOk(c, ring)'
        <3> DEFINE got == Len(bytesRead) + Queued(c)
        <3>1. /\ \A x \in 1 .. Queued(c) : ring[(c.rx_tail + x - 1) % RingSize] = Len(bytesRead) + x
              /\ got <= peer[c.remote].sent
              /\ c.state = "ESTABLISHED" => ~c.rx_eof /\ c.rcv_nxt = PeerSeq(1 + got)
              /\ c.state = "CLOSE_WAIT" => c.rx_eof /\ peer[c.remote].fin /\ got = peer[c.remote].sent
            BY <2>1 DEF RecvOk
        <3>2. got \in Nat
            BY <1>1, Sizes DEF CtrlType, AppOk
        <3> HIDE DEF got
        <3>3. /\ got <= peer'[c.remote].sent
              /\ c.state = "CLOSE_WAIT" => c.rx_eof /\ peer'[c.remote].fin /\ got = peer'[c.remote].sent
            BY <2>2, <3>1, <3>2 DEF Grown
        <3> QED BY <1>2, <3>1, <3>3 DEF RecvOk, got
    <2> QED BY <1>2, <2>1, <2>3, <2>4, <2>5 DEF ConnOk
<1>8. Ending(c) => EndingOk(c)'
    <2> SUFFICES ASSUME Ending(c) PROVE EndingOk(c)'
        OBVIOUS
    <2>1. EndingOk(c) /\ connects > 0 /\ On(c.remote, connects, Sent, TRUE)
        BY DEF CtrlOk, EndingOk
    <2>2. Known(c, connects, Sent, TRUE)
        BY DEF Known
    <2>3. On(c.remote, connects, Sent, TRUE)'
        BY <1>1, <1>2, <1>4, <1>5, <2>1, <2>2 DEF Ending
    <2> QED BY <1>2, <2>1, <2>3 DEF EndingOk
<1> QED
    BY <1>1, <1>3, <1>6, <1>7, <1>8 DEF CtrlOk

LEMMA UnopenedDown ==
    ASSUME NEW x, Unopened(x), NEW k, NEW n, NEW fin
    PROVE  Downward(x, k, n, fin)
BY EmptySeq DEF Unopened, Downward

\* The application's side does not depend on the segments.
LEMMA AppKept ==
    ASSUME AppOk, AppStays, appWait' \in {"no", "listen", "conn", "woken", "timed_out"},
           conn # NoPort => Grown(conn)
    PROVE  AppOk'
<1>1. conn # NoPort => written <= Len(peer'[conn].got)
    <2>1. written \in Nat
        BY Sizes DEF AppOk
    <2> QED BY <2>1 DEF AppOk, Grown
<1> QED
    BY <1>1 DEF AppOk, AppStays

\* A stretch of code that leaves the application and the clients alone.
LEMMA StretchKept ==
    ASSUME World, AppOk, NEW c, NEW ring, CtrlOk(c, ring), AppStays, peer' = peer,
           appWait' \in {"no", "listen", "conn", "woken", "timed_out"},
           toServer' \subseteq toServer,
           \A x \in toPeer' : x \in toPeer \/ (x.port \in Port /\ Fits(x, c))
    PROVE  World' /\ CtrlOk(c, ring)' /\ AppOk'
<1>1. /\ connects' = connects /\ Sent \in 0 .. MaxWritten /\ connects \in 0 .. Len(Iss)
      /\ peer \in [Port -> ClientType]
    BY SentBounds DEF AppStays, World
<1>2. \A p \in Port : Len(peer[p].got) \in Nat /\ peer[p].sent \in Nat /\ Grown(p)
    <2> SUFFICES ASSUME NEW p \in Port PROVE Len(peer[p].got) \in Nat /\ peer[p].sent \in Nat /\ Grown(p)
        OBVIOUS
    <2>1. Len(peer[p].got) \in Nat /\ peer[p].sent \in Nat
        BY <1>1, Sizes DEF ClientType
    <2> QED BY <2>1 DEF Grown
<1>3. \A p \in Port, k \in 1 .. connects, n \in 0 .. MaxWritten, fin \in BOOLEAN :
          On(p, k, n, fin) /\ (p = c.remote /\ (connected(c) \/ Ending(c)) => Known(c, k, n, fin))
              => On(p, k, n, fin)'
    <2> SUFFICES ASSUME NEW p \in Port, NEW k \in 1 .. connects, NEW n \in 0 .. MaxWritten,
                        NEW fin \in BOOLEAN, On(p, k, n, fin),
                        p = c.remote /\ (connected(c) \/ Ending(c)) => Known(c, k, n, fin)
                 PROVE  On(p, k, n, fin)'
        OBVIOUS
    <2>1. ASSUME NEW x \in toPeer', x.port = p PROVE x \in toPeer \/ Downward(x, k, n, fin)
        <3> SUFFICES ASSUME Fits(x, c) PROVE Downward(x, k, n, fin)
            BY <2>1
        <3>1. CASE Unopened(x)
            BY <3>1, UnopenedDown
        <3>2. CASE ~Unopened(x)
            <4>1. \/ x.port = c.remote /\ connected(c) /\ Downward(x, connects, Sent, FALSE)
                  \/ x.port = c.remote /\ Ending(c) /\ Downward(x, connects, Sent, TRUE)
                BY <2>1, <3>2 DEF Fits
            <4>2. Known(c, k, n, fin)
                BY <2>1, <4>1
            <4>3. CASE connected(c)
                <5>1. k = connects /\ n = Sent /\ ~fin /\ fin = FALSE /\ ~Ending(c)
                    BY <4>2, <4>3 DEF Known, connected, Ending
                <5> QED BY <4>1, <5>1
            <4>4. CASE Ending(c)
                <5>1. k = connects /\ n = Sent /\ fin /\ fin = TRUE /\ ~connected(c)
                    BY <4>2, <4>4 DEF Known, connected, Ending
                <5> QED BY <4>1, <5>1
            <4> QED BY <4>1, <4>3, <4>4
        <3> QED BY <3>1, <3>2
    <2>2. n <= n
        BY Sizes
    <2> QED BY <1>2, <2>1, <2>2, OnKept
<1>4. World'
    <2>1. ASSUME NEW p \in Port PROVE PeerOk(p)'
        <3>1. CASE Open(peer[p])
            <4>1. \E k \in 1 .. connects, n \in 0 .. MaxWritten, fin \in BOOLEAN : On(p, k, n, fin)'
                <5>1. CASE p = c.remote /\ (connected(c) \/ Ending(c))
                    <6>1. connects \in 1 .. connects
                        <7>1. connects > 0
                            BY <5>1 DEF CtrlOk, ConnOk, EndingOk
                        <7>2. connects \in Nat
                            BY <1>1, Sizes
                        <7> QED BY <7>1, <7>2
                    <6>2. \E fin \in BOOLEAN : Known(c, connects, Sent, fin) /\ On(p, connects, Sent, fin)
                        <7>1. CASE connected(c)
                            BY <5>1, <7>1 DEF CtrlOk, ConnOk, Known
                        <7>2. CASE Ending(c)
                            BY <5>1, <7>2 DEF CtrlOk, EndingOk, Known
                        <7> QED BY <5>1, <7>1, <7>2
                    <6>3. PICK fin \in BOOLEAN : Known(c, connects, Sent, fin) /\ On(p, connects, Sent, fin)
                        BY <6>2
                    <6>4. PICK k0 : k0 = connects
                        OBVIOUS
                    <6>5. PICK n0 : n0 = Sent
                        OBVIOUS
                    <6>6. On(p, k0, n0, fin)'
                        BY <1>1, <1>3, <6>1, <6>3, <6>4, <6>5
                    <6> QED BY <1>1, <6>1, <6>4, <6>5, <6>6
                <5>2. CASE ~(p = c.remote /\ (connected(c) \/ Ending(c)))
                    <6>1. PICK k \in 1 .. connects, n \in 0 .. MaxWritten, fin \in BOOLEAN : On(p, k, n, fin)
                        BY <3>1 DEF World, PeerOk
                    <6>2. On(p, k, n, fin)'
                        BY <1>3, <5>2, <6>1
                    <6> QED BY <6>2
                <5> QED BY <5>1, <5>2
            <4> QED BY <1>1, <3>1, <4>1 DEF PeerOk
        <3>2. CASE ~Open(peer[p])
            <4>1. ~(p = c.remote /\ (connected(c) \/ Ending(c)))
                BY <3>2 DEF CtrlOk, ConnOk, EndingOk, On
            <4>2. \A x \in toPeer' : x.port = p => Unopened(x)
                BY <3>2, <4>1 DEF World, PeerOk, Fits
            <4>3. \A x \in toPeer' : x.port = p => Unopened(x)'
                BY <1>1, <4>2 DEF Unopened
            <4>4. peer[p].got = <<>> /\ peer[p].sent = 0 /\ ~peer[p].fin
                BY <3>2 DEF World, PeerOk
            <4> QED BY <3>2, <4>3, <4>4 DEF PeerOk
        <3> QED BY <3>1, <3>2
    <2>2. \A s \in toPeer' : s.port \in Port
        BY DEF World
    <2>3. \A s \in toServer' : s.port \in Port /\ Upward(s, peer'[s.port])
        BY DEF World
    <2> QED BY <1>1, <2>1, <2>2, <2>3 DEF World
<1>5. CtrlOk(c, ring)'
    <2>1. c.state \notin {"CLOSED", "LISTEN"} => c.remote \in Port
        BY DEF CtrlOk, CtrlType, State, ConnOk, OpeningOk, EndingOk, connected, Ending
    <2>2. conn # NoPort => Grown(conn)
        BY <1>2 DEF AppOk
    <2>3. c.state \notin {"CLOSED", "LISTEN"} =>
              /\ Grown(c.remote)
              /\ \A k \in 1 .. connects, n \in 0 .. MaxWritten, fin \in BOOLEAN :
                     Known(c, k, n, fin) /\ On(c.remote, k, n, fin) => On(c.remote, k, n, fin)'
              /\ Open(peer'[c.remote]) /\ ~Open(peer[c.remote]) =>
                     \E k \in 1 .. connects : On(c.remote, k, 0, FALSE)'
        BY <1>2, <1>3, <2>1
    <2> QED BY <2>2, <2>3, CtrlKept
<1>6. AppOk'
    BY <1>2, AppKept DEF AppOk
<1> QED
    BY <1>4, <1>5, <1>6

-----------------------------------------------------------------------------
(* tcp_recv, and what the timer's process does about a timeout.            *)

\* A stretch that leaves a control block in order and sends what fits it.
StretchOk(e) ==
    /\ IsStretch(e) /\ CtrlOk(e.c, e.ring)
    /\ \A x \in e.sent : Fits(x, e.c)

LEMMA EffectFits == ASSUME NEW e, EffectOk(e) PROVE StretchOk(e)
BY PlainFits DEF EffectOk, StretchOk

LEMMA BeginIs ==
    ASSUME StreamInv
    PROVE  /\ IsStretch(Begin) /\ Begin.c = ctrl /\ Begin.ring = rx_ring /\ Begin.sent = {}
           /\ CtrlOk(Begin.c, Begin.ring) /\ StretchOk(Begin)
BY DEF Begin, IsStretch, StretchOk, StreamInv

LEMMA UnackedOk ==
    ASSUME Roomy, World, AppOk, NEW e, IsStretch(e), CtrlOk(e.c, e.ring), e.sent = {}
    PROVE  StretchOk(send_unacked(e)) /\ send_unacked(e).c = e.c
<1>1. /\ IsStretch(send_unacked(e)) /\ send_unacked(e).c = e.c
      /\ send_unacked(e).ring = e.ring /\ send_unacked(e).sent = {} \cup {Resent(e.c)}
    BY SendUnackedIs
<1>2. Fits(Resent(e.c), e.c)
    BY ResentFits
<1> QED
    BY <1>1, <1>2 DEF StretchOk

LEMMA RecvOkStretch ==
    ASSUME Roomy, StreamInv, NEW s \in toServer, ~Opens(s)
    PROVE  /\ StretchOk(recv(s))
           /\ recv(s).c = ctrl \/ (recv(s).c.state \in {"CLOSED", "LISTEN"} => recv(s).c.retries = 0)
<1>1. /\ IsStretch(Begin) /\ Begin.c = ctrl /\ Begin.ring = rx_ring /\ Begin.sent = {}
      /\ CtrlOk(Begin.c, Begin.ring) /\ StretchOk(Begin)
    BY BeginIs
<1>2. World /\ AppOk
    BY DEF StreamInv
<1>3. CASE recv(s) = Begin
    BY <1>1, <1>3
<1>4. CASE recv(s) # Begin /\ ctrl.state = "LISTEN"
    <2> DEFINE r == [Begin EXCEPT !.sent = {Segment(s.port, s.ack, 0, {"RST"}, <<>>)}]
    <2>1. recv(s) = r
        BY <1>4 DEF recv, RecvListen
    <2>2. IsStretch(r) /\ r.c = ctrl /\ r.ring = rx_ring /\ r.sent = {Segment(s.port, s.ack, 0, {"RST"}, <<>>)}
        BY <1>1 DEF IsStretch
    <2> HIDE DEF r
    <2>3. Plain(Segment(s.port, s.ack, 0, {"RST"}, <<>>))
        BY DEF Plain, Segment
    <2> QED BY <1>1, <2>1, <2>2, <2>3, PlainFits DEF StretchOk
<1>5. CASE recv(s) # Begin /\ ctrl.state # "LISTEN"
    <2>1. ctrl.state \notin {"CLOSED", "LISTEN"} /\ s.port = ctrl.remote
        BY <1>5 DEF recv
    <2>2. recv(s) \in {disconnect(Begin), send_unacked(Begin), RecvSegment(s)}
        BY <1>5 DEF recv
    <2>3. EffectOk(Begin)
        BY <1>1, <2>1, BeginOk
    <2>4. EffectOk(disconnect(Begin))
        BY <1>1, <1>2, <2>1, <2>3, DisconnectOk
    <2>5. EffectOk(RecvSegment(s))
        BY <2>1, RecvSegmentOk
    <2>6. StretchOk(send_unacked(Begin)) /\ send_unacked(Begin).c = ctrl
        BY <1>1, <1>2, UnackedOk
    <2> QED BY <2>2, <2>4, <2>5, <2>6, EffectFits DEF EffectOk
<1> QED
    BY <1>3, <1>4, <1>5

\* A stretch becomes the next state.
LEMMA StretchStep ==
    ASSUME World, AppOk, NEW e, StretchOk(e), NEW in, Commit(e, in), in \subseteq toServer,
           WakeApp(e), UNCHANGED <<connects, app, conn, left, written, bytesRead, peer>>
    PROVE  World' /\ CtrlOk(ctrl, rx_ring)' /\ AppOk'
<1>1. /\ toServer' \subseteq toServer /\ ctrl' = e.c /\ rx_ring' = e.ring
      /\ \A x \in toPeer' : x \in toPeer \/ (x.port \in Port /\ x \in e.sent)
    BY DEF Commit
<1>2. \A x \in toPeer' : x \in toPeer \/ (x.port \in Port /\ Fits(x, e.c))
    BY <1>1 DEF StretchOk
<1>3. /\ appWait' \in {"no", "listen", "conn", "woken", "timed_out"}
      /\ appWait' = "no" <=> appWait = "no"
    BY DEF WakeApp, AppOk, StretchOk, IsStretch
<1>4. AppStays /\ peer' = peer
    BY <1>3 DEF AppStays
<1>5. CtrlOk(e.c, e.ring)
    BY DEF StretchOk
<1>6. World' /\ CtrlOk(e.c, e.ring)' /\ AppOk'
    BY <1>1, <1>2, <1>3, <1>4, <1>5, StretchKept
<1> QED
    BY <1>1, <1>6

LEMMA ExpiredOk ==
    ASSUME Roomy, StreamInv, timer = "timed_out"
    PROVE  StretchOk(Expired)
<1>1. /\ IsStretch(Begin) /\ Begin.c = ctrl /\ Begin.ring = rx_ring /\ Begin.sent = {}
      /\ CtrlOk(Begin.c, Begin.ring) /\ World /\ AppOk
    BY BeginIs DEF StreamInv
<1>2. CASE ctrl.retries >= MaxRetries
    <2>1. ctrl.state \notin {"CLOSED", "LISTEN"}
        BY <1>2, Sizes DEF StreamInv, TimerOk
    <2>2. EffectOk(disconnect(Begin))
        BY <1>1, <2>1, BeginOk, DisconnectOk
    <2> QED BY <1>2, <2>2, EffectFits DEF Expired
<1>3. CASE ~(ctrl.retries >= MaxRetries)
    <2> DEFINE e == [Begin EXCEPT !.c.retries = @ + 1]
               r == ctrl.retries + 1
               d == [ctrl EXCEPT !.retries = r]
    <2>1. IsStretch(e) /\ e.c = d /\ e.ring = rx_ring /\ e.sent = {}
        BY <1>1 DEF IsStretch
    <2>2. CtrlType(ctrl) /\ IsCtrl(ctrl) /\ CtrlOk(ctrl, rx_ring)
        BY <1>1 DEF CtrlOk, CtrlType
    <2>3. r \in 0 .. MaxRetries
        BY <1>3, <2>2, Sizes DEF CtrlType
    <2> HIDE DEF r
    <2>4. /\ DOMAIN d = DOMAIN ctrl /\ d.retries = r
          /\ d.state = ctrl.state /\ d.remote = ctrl.remote /\ d.snd_una = ctrl.snd_una
          /\ d.snd_nxt = ctrl.snd_nxt /\ d.rcv_nxt = ctrl.rcv_nxt
          /\ d.tx_flags = ctrl.tx_flags /\ d.tx_data = ctrl.tx_data
          /\ d.sender = ctrl.sender /\ d.send_err = ctrl.send_err
          /\ d.rx_head = ctrl.rx_head /\ d.rx_tail = ctrl.rx_tail /\ d.rx_eof = ctrl.rx_eof
        BY <2>2 DEF IsCtrl
    <2> HIDE DEF d, e
    <2>5. CtrlType(d) /\ Queued(d) = Queued(ctrl)
        BY <2>2, <2>3, <2>4 DEF CtrlType, IsCtrl, Queued
    <2>6. StageOk(d)
        BY <2>2, <2>4 DEF CtrlOk, StageOk, connected, Ending
    <2>7. connected(ctrl) => ConnOk(d, rx_ring)
        <3> SUFFICES ASSUME connected(ctrl) PROVE ConnOk(d, rx_ring)
            OBVIOUS
        <3>1. ConnOk(ctrl, rx_ring)
            BY <2>2 DEF CtrlOk
        <3>2. SendOk(d)
            BY <2>4, <3>1 DEF ConnOk, SendOk
        <3>3. RecvOk(d, rx_ring)
            BY <2>4, <2>5, <3>1 DEF ConnOk, RecvOk
        <3> QED BY <2>4, <3>1, <3>2, <3>3 DEF ConnOk
    <2>8. ctrl.state \in {"CLOSED", "LISTEN"} => FreeOk(d)
        BY <2>2, <2>4 DEF CtrlOk, FreeOk
    <2>9. ctrl.state = "SYN_RCVD" => OpeningOk(d)
        BY <2>2, <2>4 DEF CtrlOk, OpeningOk
    <2>10. Ending(ctrl) => EndingOk(d)
        BY <2>2, <2>4 DEF CtrlOk, EndingOk
    <2>11. CtrlOk(d, rx_ring)
        BY <2>4, <2>5, <2>6, <2>7, <2>8, <2>9, <2>10 DEF CtrlOk, connected, Ending
    <2>12. Expired = send_unacked(e)
        BY <1>3 DEF Expired, e
    <2> QED BY <1>1, <2>1, <2>11, <2>12, UnackedOk
<1> QED
    BY <1>2, <1>3

-----------------------------------------------------------------------------
(* A connection begins.                                                    *)

LEMMA OpensIs ==
    ASSUME StreamInv, NEW s \in toServer, Opens(s), connects < Len(Iss)
    PROVE  LET e == recv(s)
               iss == Iss[connects + 1]
           IN  /\ IsStretch(e) /\ e.ring = rx_ring /\ e.sent = {Resent(e.c)}
               /\ DOMAIN e.c = DOMAIN ctrl
               /\ e.c.remote = s.port /\ e.c.rcv_nxt = Plus(s.seq, 1)
               /\ e.c.snd_una = iss /\ e.c.snd_nxt = Plus(iss, 1) /\ e.c.state = "SYN_RCVD"
               /\ e.c.tx_flags = {"SYN", "ACK"} /\ e.c.tx_data = <<>> /\ e.c.retries = 0
               /\ e.c.sender = ctrl.sender /\ e.c.send_err = ctrl.send_err
               /\ e.c.rx_head = ctrl.rx_head /\ e.c.rx_tail = ctrl.rx_tail /\ e.c.rx_eof = ctrl.rx_eof
<1> DEFINE iss == Iss[connects + 1]
           nxt == Plus(iss, 1)
           rcv == Plus(s.seq, 1)
           b == [Begin EXCEPT !.c.remote = s.port, !.c.rcv_nxt = rcv, !.c.snd_una = iss,
                              !.c.snd_nxt = nxt, !.c.state = "SYN_RCVD"]
           f == [b EXCEPT !.c.tx_flags = {"SYN", "ACK"}, !.c.tx_data = <<>>, !.c.retries = 0]
           d == [ctrl EXCEPT !.remote = s.port, !.rcv_nxt = rcv, !.snd_una = iss,
                             !.snd_nxt = nxt, !.state = "SYN_RCVD"]
<1>1. /\ IsStretch(Begin) /\ Begin.c = ctrl /\ Begin.ring = rx_ring /\ Begin.sent = {} /\ IsCtrl(ctrl)
    BY BeginIs DEF StreamInv, CtrlOk, CtrlType
<1>2. recv(s) = send_new(b, {"SYN", "ACK"}, <<>>)
    BY DEF Opens, recv, RecvListen
<1>3. send_new(b, {"SYN", "ACK"}, <<>>) = Signal(send_unacked(f), "rto")
    BY DEF send_new
<1> HIDE DEF iss, nxt, rcv
<1>4. IsStretch(b) /\ b.c = d /\ b.ring = rx_ring /\ b.sent = {}
    BY <1>1 DEF IsStretch, IsCtrl
<1>5. /\ DOMAIN d = DOMAIN ctrl /\ d.remote = s.port /\ d.rcv_nxt = rcv /\ d.snd_una = iss
      /\ d.snd_nxt = nxt /\ d.state = "SYN_RCVD"
      /\ d.sender = ctrl.sender /\ d.send_err = ctrl.send_err
      /\ d.rx_head = ctrl.rx_head /\ d.rx_tail = ctrl.rx_tail /\ d.rx_eof = ctrl.rx_eof
    BY <1>1 DEF IsCtrl
<1> HIDE DEF b, d
<1>6. /\ IsStretch(f) /\ f.ring = rx_ring /\ f.sent = {}
      /\ f.c = [d EXCEPT !.tx_flags = {"SYN", "ACK"}, !.tx_data = <<>>, !.retries = 0]
    BY <1>4 DEF IsStretch
<1> HIDE DEF f
<1>7. /\ DOMAIN f.c = DOMAIN ctrl /\ f.c.remote = s.port /\ f.c.rcv_nxt = rcv /\ f.c.snd_una = iss
      /\ f.c.snd_nxt = nxt /\ f.c.state = "SYN_RCVD"
      /\ f.c.tx_flags = {"SYN", "ACK"} /\ f.c.tx_data = <<>> /\ f.c.retries = 0
      /\ f.c.sender = ctrl.sender /\ f.c.send_err = ctrl.send_err
      /\ f.c.rx_head = ctrl.rx_head /\ f.c.rx_tail = ctrl.rx_tail /\ f.c.rx_eof = ctrl.rx_eof
    BY <1>1, <1>5, <1>6 DEF IsCtrl
<1>8. /\ IsStretch(send_unacked(f)) /\ send_unacked(f).c = f.c
      /\ send_unacked(f).ring = rx_ring /\ send_unacked(f).sent = {Resent(f.c)}
    BY <1>6, SendUnackedIs
<1>9. /\ IsStretch(Signal(send_unacked(f), "rto")) /\ Signal(send_unacked(f), "rto").c = f.c
      /\ Signal(send_unacked(f), "rto").ring = rx_ring
      /\ Signal(send_unacked(f), "rto").sent = {Resent(f.c)}
    BY <1>8, SignalIs
<1> QED
    BY <1>2, <1>3, <1>7, <1>9 DEF iss, nxt, rcv

\* A segment whose control block holds no data.
LEMMA ResentEmpty ==
    ASSUME NEW c, c.tx_data = <<>>, c.snd_una \in Seqno, c.snd_nxt \in Seqno
    PROVE  /\ Resent(c).data = <<>> /\ Resent(c).flags = c.tx_flags
           /\ Resent(c).seq = c.snd_una /\ Resent(c).port = c.remote
<1> DEFINE outstanding == (c.snd_nxt - c.snd_una) % SeqWrap
<1>1. Len(c.tx_data) = 0 /\ \A i \in Int : i >= 1 => SubSeq(c.tx_data, i, 0) = <<>>
    BY EmptySeq
<1>2. \E acked \in {0, 0 - outstanding} :
          /\ Resent(c) = Segment(c.remote, c.snd_una, c.rcv_nxt, c.tx_flags, SubSeq(c.tx_data, acked + 1, 0))
          /\ acked = IF outstanding < 0 THEN 0 - outstanding ELSE 0
    BY <1>1 DEF Resent
<1>3. outstanding \in Nat
    BY Sizes DEF Seqno
<1> HIDE DEF outstanding
<1>4. Resent(c) = Segment(c.remote, c.snd_una, c.rcv_nxt, c.tx_flags, SubSeq(c.tx_data, 1, 0))
    BY <1>2, <1>3
<1> QED
    BY <1>1, <1>4 DEF Segment

LEMMA OpensStep ==
    ASSUME Roomy, StreamInv, NEW s \in toServer, Opens(s), tcp_recv(s)
    PROVE  World' /\ CtrlOk(ctrl, rx_ring)' /\ AppOk'
<1> DEFINE iss == Iss[connects + 1]
<1>1. /\ World /\ AppOk /\ CtrlOk(ctrl, rx_ring) /\ CtrlType(ctrl) /\ ctrl.state = "LISTEN" /\ FreeOk(ctrl)
      /\ StageOk(ctrl)
    BY DEF StreamInv, CtrlOk, CtrlType, Opens
<1>2. /\ connects < Len(Iss) /\ connects' = connects + 1
      /\ UNCHANGED <<listening, app, conn, left, written, bytesRead, peer>>
      /\ ctrl' = recv(s).c /\ rx_ring' = recv(s).ring /\ toServer' \subseteq toServer
      /\ \A x \in toPeer' : x \in toPeer \/ (x.port \in Port /\ x \in recv(s).sent)
      /\ WakeApp(recv(s))
    BY DEF tcp_recv, Commit
<1>3. /\ IsStretch(recv(s)) /\ rx_ring' = rx_ring /\ recv(s).sent = {Resent(ctrl')}
      /\ DOMAIN ctrl' = DOMAIN ctrl
      /\ ctrl'.remote = s.port /\ ctrl'.rcv_nxt = Plus(s.seq, 1)
      /\ ctrl'.snd_una = iss /\ ctrl'.snd_nxt = Plus(iss, 1) /\ ctrl'.state = "SYN_RCVD"
      /\ ctrl'.tx_flags = {"SYN", "ACK"} /\ ctrl'.tx_data = <<>> /\ ctrl'.retries = 0
      /\ ctrl'.sender = ctrl.sender /\ ctrl'.send_err = ctrl.send_err
      /\ ctrl'.rx_head = ctrl.rx_head /\ ctrl'.rx_tail = ctrl.rx_tail /\ ctrl'.rx_eof = ctrl.rx_eof
    BY <1>2, OpensIs
<1>4. /\ connects \in Nat /\ connects + 1 \in 1 .. Len(Iss) /\ iss \in Seqno
      /\ Plus(iss, 1) \in Seqno /\ At(connects', 0) = iss /\ At(connects', 1) = Plus(iss, 1)
    <2>1. connects \in Nat /\ connects + 1 \in 1 .. Len(Iss) /\ Len(Iss) \in Nat
        BY <1>1, <1>2, Sizes DEF World
    <2>2. iss \in Seqno
        BY <2>1, Room
    <2>3. 0 \in Nat /\ 1 \in Nat /\ 0 < SeqWrap /\ 1 < SeqWrap
        BY Room
    <2>4. Plus(iss, 1) \in Seqno
        BY <2>2, <2>3, PlusValue
    <2>5. Plus(iss, 0) = iss
        <3>1. Plus(iss, 0) = IF iss + 0 < SeqWrap THEN iss + 0 ELSE iss + 0 - SeqWrap
            BY <2>2, <2>3, PlusValue
        <3>2. iss \in 0 .. SeqWrap - 1 /\ SeqWrap \in Nat
            BY <2>2, Sizes DEF Seqno
        <3> HIDE DEF iss
        <3> QED BY <3>1, <3>2
    <2> QED BY <1>2, <2>1, <2>2, <2>4, <2>5 DEF At
<1>5. s.port \in Port /\ s.seq = Isn /\ Upward(s, peer[s.port])
    <2>1. s.port \in Port /\ Upward(s, peer[s.port])
        BY <1>1 DEF World
    <2>2. s.flags = {"SYN"}
        BY <2>1 DEF Opens, Upward
    <2> QED BY <2>1, <2>2 DEF Upward
<1> HIDE DEF iss
<1>6. ASSUME NEW x \in toPeer', x \notin toPeer
      PROVE  /\ x.data = <<>> /\ x.flags = {"SYN", "ACK"} /\ x.seq = At(connects', 0) /\ x.port \in Port
    <2>1. x = Resent(ctrl') /\ x.port \in Port
        BY <1>2, <1>3, <1>6
    <2> QED BY <1>3, <1>4, <2>1, ResentEmpty
<1>7. \A p \in Port, k \in 1 .. connects, n \in 0 .. MaxWritten, fin \in BOOLEAN :
          On(p, k, n, fin) => On(p, k, n, fin)'
    <2> SUFFICES ASSUME NEW p \in Port, NEW k \in 1 .. connects, NEW n \in 0 .. MaxWritten,
                        NEW fin \in BOOLEAN, On(p, k, n, fin)
                 PROVE  On(p, k, n, fin)'
        OBVIOUS
    <2>1. ASSUME NEW x \in toPeer', x.port = p PROVE x \in toPeer \/ Downward(x, k, n, fin)
        <3> SUFFICES ASSUME x \notin toPeer PROVE Downward(x, k, n, fin)
            OBVIOUS
        <3>1. x.data = <<>> /\ x.flags = {"SYN", "ACK"}
            BY <1>6, <2>1
        <3>2. <<>> \in Seq(Nat) /\ "FIN" \notin {"SYN", "ACK"}
            OBVIOUS
        <3> QED BY <3>1, <3>2 DEF Downward
    <2>2. n <= n /\ Len(peer[p].got) \in Nat
        BY <1>1, Sizes DEF World, ClientType
    <2> QED BY <1>2, <2>1, <2>2, OnKept
<1>8. \A k \in 1 .. connects : k \in 1 .. connects' /\ k \in 1 .. connects' - 1
    BY <1>2, <1>4
<1>9. World'
    <2>1. ASSUME NEW p \in Port PROVE PeerOk(p)'
        <3>1. CASE Open(peer[p])
            <4>1. PICK k \in 1 .. connects, n \in 0 .. MaxWritten, fin \in BOOLEAN : On(p, k, n, fin)
                BY <1>1, <3>1 DEF World, PeerOk
            <4>2. On(p, k, n, fin)' /\ k \in 1 .. connects'
                BY <1>7, <1>8, <4>1
            <4> QED BY <1>2, <3>1, <4>2 DEF PeerOk
        <3>2. CASE ~Open(peer[p])
            <4>1. \A x \in toPeer' : x.port = p => Unopened(x)'
                <5> SUFFICES ASSUME NEW x \in toPeer', x.port = p PROVE Unopened(x)'
                    OBVIOUS
                <5>1. CASE x \in toPeer
                    <6>1. Unopened(x)
                        BY <1>1, <3>2, <5>1 DEF World, PeerOk
                    <6> QED BY <1>8, <6>1 DEF Unopened
                <5>2. CASE x \notin toPeer
                    <6>1. connects' \in 1 .. connects'
                        BY <1>2, <1>4
                    <6> QED BY <1>6, <5>2, <6>1 DEF Unopened
                <5> QED BY <5>1, <5>2
            <4> QED BY <1>1, <1>2, <3>2, <4>1 DEF World, PeerOk
        <3> QED BY <3>1, <3>2
    <2>2. \A x \in toPeer' : x.port \in Port
        BY <1>1, <1>6 DEF World
    <2>3. connects' \in 0 .. Len(Iss)
        BY <1>2, <1>4
    <2>4. peer' \in [Port -> ClientType] /\ \A x \in toServer' : x.port \in Port /\ Upward(x, peer'[x.port])
        BY <1>1, <1>2 DEF World
    <2> QED BY <2>1, <2>2, <2>3, <2>4 DEF World
<1>10. AppOk'
    <2>1. appWait' \in {"no", "listen", "conn", "woken", "timed_out"}
        BY <1>1, <1>2 DEF AppOk, WakeApp
    <2> QED BY <1>1, <1>2, <2>1 DEF AppOk
<1>11. CtrlType(ctrl)' /\ Queued(ctrl)' = 0
    <2>1. ctrl'.rcv_nxt \in Seqno
        <3>1. Isn \in Seqno /\ 1 \in Nat /\ 1 < SeqWrap
            BY Room, Sizes
        <3> QED BY <1>3, <1>5, <3>1, PlusValue
    <2>2. ctrl'.rx_head = 0 /\ ctrl'.rx_tail = 0 /\ 0 \in 0 .. RingSize /\ 0 \in 0 .. MaxRetries
        BY <1>1, <1>3, Sizes DEF FreeOk
    <2>3. Queued(ctrl)' = 0
        BY <2>2 DEF Queued
    <2>4. IsCtrl(ctrl)'
        BY <1>1, <1>3, <1>4 DEF CtrlType, IsCtrl
    <2> QED BY <1>1, <1>3, <1>4, <1>5, <2>1, <2>2, <2>3, <2>4 DEF CtrlType, State
<1>12. OpeningOk(ctrl)'
    <2>1. ctrl'.rcv_nxt = PeerSeq(1)
        BY <1>3, <1>5 DEF PeerSeq
    <2>2. Open(peer'[ctrl'.remote]) =>
              \E k \in 1 .. connects' - 1, n \in 0 .. MaxWritten, fin \in BOOLEAN : On(ctrl.remote, k, n, fin)'
        <3> SUFFICES ASSUME Open(peer[s.port])
                     PROVE  \E k \in 1 .. connects' - 1, n \in 0 .. MaxWritten, fin \in BOOLEAN : On(s.port, k, n, fin)'
            BY <1>2, <1>3
        <3>1. PICK k \in 1 .. connects, n \in 0 .. MaxWritten, fin \in BOOLEAN : On(s.port, k, n, fin)
            BY <1>1, <1>5 DEF World, PeerOk
        <3>2. On(s.port, k, n, fin)' /\ k \in 1 .. connects' - 1
            BY <1>5, <1>7, <1>8, <3>1
        <3> QED BY <3>2
    <2>3. connects' > 0
        BY <1>2, <1>4
    <2>4. /\ ctrl'.remote \in Port /\ ctrl'.snd_una = At(connects', 0) /\ ctrl'.snd_nxt = At(connects', 1)
          /\ ctrl'.tx_flags = {"SYN", "ACK"} /\ ctrl'.tx_data = <<>>
          /\ ~ctrl'.sender /\ ctrl'.rx_head = 0 /\ ctrl'.rx_tail = 0 /\ ~ctrl'.rx_eof
        BY <1>1, <1>3, <1>4, <1>5 DEF FreeOk
    <2> QED BY <2>1, <2>2, <2>3, <2>4 DEF OpeningOk
<1>13. StageOk(ctrl)'
    <2>1. app \in {"idle", "accepting"}
        BY <1>1 DEF StageOk, AppOk, connected, Ending
    <2> QED BY <1>2, <1>3, <2>1 DEF StageOk, Ending
<1>14. CtrlOk(ctrl, rx_ring)'
    BY <1>3, <1>11, <1>12, <1>13 DEF CtrlOk, connected, Ending
<1> QED
    BY <1>9, <1>10, <1>14

LEMMA RecvStep ==
    ASSUME Roomy, StreamInv, NEW s \in toServer, tcp_recv(s)
    PROVE  StreamInv'
<1>1. World /\ AppOk /\ TimerOk
    BY DEF StreamInv
<1>2. WakeTimer(recv(s)) /\ timer' \in {timer, "woken"}
    BY DEF tcp_recv, WakeTimer
<1>3. CASE Opens(s)
    <2>1. World' /\ CtrlOk(ctrl, rx_ring)' /\ AppOk'
        BY <1>3, OpensStep
    <2>2. ctrl'.state = "SYN_RCVD"
        BY <1>3, OpensIs DEF tcp_recv, Commit
    <2>3. TimerOk'
        BY <1>1, <1>2, <2>2 DEF TimerOk
    <2> QED BY <2>1, <2>3 DEF StreamInv
<1>4. CASE ~Opens(s)
    <2>1. /\ StretchOk(recv(s))
          /\ recv(s).c = ctrl \/ (recv(s).c.state \in {"CLOSED", "LISTEN"} => recv(s).c.retries = 0)
        BY <1>4, RecvOkStretch
    <2>2. /\ \E in \in {toServer, toServer \ {s}} : Commit(recv(s), in)
          /\ WakeApp(recv(s))
          /\ UNCHANGED <<connects, app, conn, left, written, bytesRead, peer>>
        BY <1>4 DEF tcp_recv
    <2>3. PICK in \in {toServer, toServer \ {s}} : Commit(recv(s), in)
        BY <2>2
    <2>4. in \subseteq toServer
        BY <2>3
    <2>5. World' /\ CtrlOk(ctrl, rx_ring)' /\ AppOk'
        BY <1>1, <2>1, <2>2, <2>3, <2>4, StretchStep
    <2>6. ctrl' = recv(s).c
        BY <2>3 DEF Commit
    <2>7. TimerOk'
        BY <1>1, <1>2, <2>1, <2>6 DEF TimerOk
    <2> QED BY <2>5, <2>7 DEF StreamInv
<1> QED
    BY <1>3, <1>4

\* Nothing but the timer's place, or how a wait ends, changes.
LEMMA StaysStep ==
    ASSUME StreamInv, UNCHANGED <<ctrl, rx_ring, toServer, toPeer, peer>>, AppStays,
           appWait' \in {"no", "listen", "conn", "woken", "timed_out"}
    PROVE  World' /\ CtrlOk(ctrl, rx_ring)' /\ AppOk'
<1>1. World /\ AppOk /\ CtrlOk(ctrl, rx_ring)
    BY DEF StreamInv
<1>2. /\ toServer' \subseteq toServer /\ peer' = peer
      /\ \A x \in toPeer' : x \in toPeer \/ (x.port \in Port /\ Fits(x, ctrl))
    OBVIOUS
<1>3. World' /\ (\A c, ring : c = ctrl /\ ring = rx_ring => CtrlOk(c, ring)') /\ AppOk'
    BY <1>1, <1>2, StretchKept
<1> QED
    BY <1>3

LEMMA TimerStep == ASSUME Roomy, StreamInv, Timer PROVE StreamInv'
<1>1. CASE TimerTimeout
    <2>1. /\ UNCHANGED <<ctrl, rx_ring, toServer, toPeer, peer>> /\ AppStays /\ appWait' = appWait
          /\ timer = "rto" /\ timer' = "timed_out"
        BY <1>1 DEF TimerTimeout, server, application, AppStays
    <2>2. appWait' \in {"no", "listen", "conn", "woken", "timed_out"}
        BY <2>1 DEF StreamInv, AppOk
    <2>3. World' /\ CtrlOk(ctrl, rx_ring)' /\ AppOk'
        BY <2>1, <2>2, StaysStep
    <2>4. TimerOk'
        BY <2>1 DEF StreamInv, TimerOk
    <2> QED BY <2>3, <2>4 DEF StreamInv
<1>2. CASE TimerRun
    <2> DEFINE e == IF timer = "timed_out" THEN Expired ELSE Begin
    <2>1. StretchOk(e) /\ World /\ AppOk
        BY ExpiredOk, BeginIs DEF StreamInv
    <2>2. /\ Commit(e, toServer) /\ WakeApp(e)
          /\ timer' = (IF Outstanding(e.c) THEN "rto" ELSE "idle")
          /\ UNCHANGED <<connects, app, conn, left, written, bytesRead, peer>>
        BY <1>2 DEF TimerRun
    <2> HIDE DEF e
    <2>3. World' /\ CtrlOk(ctrl, rx_ring)' /\ AppOk'
        <3>1. toServer \subseteq toServer
            OBVIOUS
        <3> QED BY <2>1, <2>2, <3>1, StretchStep
    <2>4. e.c.state \in {"CLOSED", "LISTEN"} => ~Outstanding(e.c)
        BY <2>1 DEF StretchOk, CtrlOk, FreeOk, Outstanding
    <2>5. ctrl' = e.c
        BY <2>2 DEF Commit
    <2>6. TimerOk'
        BY <2>2, <2>4, <2>5 DEF TimerOk
    <2> QED BY <2>3, <2>6 DEF StreamInv
<1> QED
    BY <1>1, <1>2 DEF Timer

-----------------------------------------------------------------------------
(* The application.                                                        *)

LEMMA WorldStays ==
    ASSUME World, UNCHANGED <<connects, peer, toServer, toPeer>>
    PROVE  World' /\ \A p, k, n, fin : On(p, k, n, fin)' <=> On(p, k, n, fin)
<1>1. \A p, k, n, fin : On(p, k, n, fin)' <=> On(p, k, n, fin)
    BY DEF On
<1>2. \A p \in Port : PeerOk(p)'
    BY <1>1 DEF World, PeerOk, Unopened
<1> QED
    BY <1>1, <1>2 DEF World

\* The application's place changes, not what it gave to send_data or read.
LEMMA AppMoves ==
    ASSUME World, NEW c, NEW ring, CtrlOk(c, ring), UNCHANGED <<connects, peer, toServer, toPeer>>,
           bytesRead' = bytesRead, Sent' = Sent, StageOk(c)',
           connected(c) /\ c.sender => app' = "writing" /\ appWait' # "no"
    PROVE  World' /\ CtrlOk(c, ring)'
<1>1. World' /\ \A p, k, n, fin : On(p, k, n, fin)' <=> On(p, k, n, fin)
    BY WorldStays
<1>2. connected(c) => ConnOk(c, ring)'
    <2> SUFFICES ASSUME connected(c) PROVE ConnOk(c, ring)'
        OBVIOUS
    <2>1. ConnOk(c, ring)
        BY DEF CtrlOk
    <2>2. SendOk(c)'
        BY <2>1 DEF ConnOk, SendOk
    <2>3. RecvOk(c, ring)'
        BY <2>1 DEF ConnOk, RecvOk
    <2> QED BY <1>1, <2>1, <2>2, <2>3 DEF ConnOk
<1>3. Ending(c) => EndingOk(c)'
    BY <1>1 DEF CtrlOk, EndingOk
<1>4. c.state = "SYN_RCVD" => OpeningOk(c)'
    BY <1>1 DEF CtrlOk, OpeningOk
<1> QED
    BY <1>1, <1>2, <1>3, <1>4 DEF CtrlOk

\* A connection that is not there may change between CLOSED and LISTEN.
LEMMA FreeMoves ==
    ASSUME NEW c, NEW ring, CtrlOk(c, ring), c.state \in {"CLOSED", "LISTEN"},
           app \in {"idle", "accepting"}, NEW st \in {"CLOSED", "LISTEN"}
    PROVE  /\ CtrlOk([c EXCEPT !.state = st], ring)
           /\ [c EXCEPT !.state = st].state = st /\ [c EXCEPT !.state = st].retries = c.retries
<1> DEFINE d == [c EXCEPT !.state = st]
<1>1. CtrlType(c) /\ IsCtrl(c) /\ FreeOk(c)
    BY DEF CtrlOk, CtrlType
<1>2. /\ Alike(c, d) /\ d.state = st /\ d.snd_una = c.snd_una
      /\ d.sender = c.sender /\ d.send_err = c.send_err
    <2>1. d = [c EXCEPT !.state = st]
        OBVIOUS
    <2> HIDE DEF d
    <2> QED BY <1>1, <2>1, MovedIs
<1> HIDE DEF d
<1>3. CtrlType(d)
    BY <1>1, <1>2, AlikeType DEF CtrlType, IsCtrl, State
<1>4. FreeOk(d)
    BY <1>1, <1>2 DEF FreeOk, Alike
<1>5. StageOk(d)
    BY <1>2 DEF StageOk, Ending
<1>6. CtrlOk(d, ring)
    BY <1>2, <1>3, <1>4, <1>5 DEF CtrlOk, connected, Ending
<1> QED
    BY <1>2, <1>6 DEF d, Alike

\* A step of the application that gives the timer's process no cause.
LEMMA TimerMoves ==
    ASSUME TimerOk, timer' \in {timer, "woken"},
           ctrl'.state \in {"CLOSED", "LISTEN"} =>
               ctrl'.retries = 0 \/ (ctrl.state \in {"CLOSED", "LISTEN"} /\ ctrl'.retries = ctrl.retries)
    PROVE  TimerOk'
BY DEF TimerOk

LEMMA ListenStep == ASSUME StreamInv, Listen \/ CloseTimeout PROVE StreamInv'
<1>1. /\ UNCHANGED <<ctrl, rx_ring, toServer, toPeer, peer, timer>> /\ AppStays
      /\ appWait' \in {appWait, "timed_out"}
    BY DEF Listen, CloseTimeout, server, AppStays
<1>2. appWait' \in {"no", "listen", "conn", "woken", "timed_out"}
    BY <1>1 DEF StreamInv, AppOk
<1>3. World' /\ CtrlOk(ctrl, rx_ring)' /\ AppOk'
    BY <1>1, <1>2, StaysStep
<1>4. TimerOk'
    BY <1>1 DEF StreamInv, TimerOk
<1> QED
    BY <1>3, <1>4 DEF StreamInv

LEMMA UnlistenStep == ASSUME StreamInv, Unlisten PROVE StreamInv'
<1>1. /\ World /\ AppOk /\ TimerOk /\ CtrlOk(ctrl, rx_ring)
      /\ app = "idle" /\ ctrl.state \in {"CLOSED", "LISTEN"}
      /\ ctrl' = [ctrl EXCEPT !.state = "CLOSED"]
      /\ UNCHANGED <<rx_ring, connects, app, appWait, conn, left, written,
                     bytesRead, timer, toServer, toPeer, peer>>
    BY DEF Unlisten, StreamInv
<1>2. /\ CtrlOk(ctrl', rx_ring) /\ ctrl'.state = "CLOSED" /\ ctrl'.retries = ctrl.retries
    BY <1>1, FreeMoves
<1>3. PICK d : d = ctrl'
    OBVIOUS
<1>4. World' /\ CtrlOk(d, rx_ring)'
    <2>1. CtrlOk(d, rx_ring) /\ ~connected(d) /\ Sent' = Sent
        BY <1>1, <1>2, <1>3 DEF connected, Sent, Chunk
    <2>2. StageOk(d)'
        BY <1>1, <2>1 DEF CtrlOk, StageOk
    <2>3. PICK ring : ring = rx_ring
        OBVIOUS
    <2>4. World' /\ CtrlOk(d, ring)'
        BY <1>1, <2>1, <2>2, <2>3, AppMoves
    <2> QED BY <1>1, <2>3, <2>4
<1>5. AppOk'
    BY <1>1 DEF AppOk
<1>6. TimerOk'
    BY <1>1, <1>2, TimerMoves
<1> QED
    BY <1>1, <1>3, <1>4, <1>5, <1>6 DEF StreamInv

LEMMA AcceptStep == ASSUME StreamInv, Accept PROVE StreamInv'
<1>1. /\ World /\ AppOk /\ TimerOk /\ CtrlOk(ctrl, rx_ring)
      /\ app \in {"idle", "accepting"}
      /\ UNCHANGED <<rx_ring, connects, left, written, bytesRead, timer, toServer, toPeer, peer>>
    BY DEF Accept, StreamInv, Enters, Resumes
<1>2. conn = NoPort /\ written = 0 /\ bytesRead = <<>> /\ Sent = written /\ StageOk(ctrl) /\ ~Ending(ctrl)
    BY <1>1 DEF AppOk, Sent, CtrlOk, StageOk
<1>3. PICK d : d = ctrl'
    OBVIOUS
<1>4. PICK ring : ring = rx_ring
    OBVIOUS
<1>5. CASE connected(ctrl)
    <2>1. app' = "open" /\ appWait' = "no" /\ conn' = ctrl.remote /\ ctrl' = ctrl
        BY <1>5 DEF Accept
    <2>2. ctrl.remote \in Port /\ ~ctrl.sender /\ ctrl.remote # NoPort
        BY <1>1, <1>5, Sizes DEF CtrlOk, ConnOk, SendOk
    <2>3. Sent' = Sent
        BY <1>1, <1>2, <2>1 DEF Sent
    <2>4. StageOk(d)'
        BY <1>3, <1>5, <2>1 DEF StageOk
    <2>5. World' /\ CtrlOk(d, ring)'
        BY <1>1, <1>3, <1>4, <2>1, <2>2, <2>3, <2>4, AppMoves
    <2>6. AppOk'
        <3>1. peer \in [Port -> ClientType]
            BY <1>1 DEF World
        <3>2. peer[ctrl.remote].got \in Seq(Nat)
            BY <2>2, <3>1 DEF ClientType
        <3>3. 0 <= Len(peer[ctrl.remote].got)
            BY <3>2
        <3> QED BY <1>1, <1>2, <2>1, <2>2, <3>3 DEF AppOk
    <2>7. TimerOk'
        BY <1>1, <2>1 DEF TimerOk
    <2> QED BY <1>1, <1>3, <1>4, <2>5, <2>6, <2>7 DEF StreamInv
<1>6. CASE ~connected(ctrl)
    <2>1. /\ ctrl' = (IF ctrl.state = "CLOSED" THEN [ctrl EXCEPT !.state = "LISTEN"] ELSE ctrl)
          /\ app' = "accepting" /\ appWait' = "listen" /\ conn' = conn
        BY <1>6 DEF Accept
    <2>2. /\ CtrlOk(ctrl', rx_ring) /\ ctrl'.retries = ctrl.retries
          /\ ctrl'.state = ctrl.state \/ (ctrl.state = "CLOSED" /\ ctrl'.state = "LISTEN")
        <3>1. CASE ctrl.state = "CLOSED"
            BY <1>1, <2>1, <3>1, FreeMoves
        <3>2. CASE ctrl.state # "CLOSED"
            BY <1>1, <2>1, <3>2
        <3> QED BY <3>1, <3>2
    <2>3. ~connected(d) /\ ~Ending(d) /\ CtrlOk(d, ring)
        BY <1>2, <1>3, <1>4, <1>6, <2>2 DEF connected, Ending
    <2>4. Sent' = Sent
        BY <1>1, <1>2, <2>1 DEF Sent
    <2>5. StageOk(d)'
        BY <2>1, <2>3 DEF StageOk, Ending
    <2>6. World' /\ CtrlOk(d, ring)'
        BY <1>1, <2>3, <2>4, <2>5, AppMoves
    <2>7. AppOk'
        BY <1>1, <1>2, <2>1 DEF AppOk
    <2>8. TimerOk'
        BY <1>1, <2>2, TimerMoves
    <2> QED BY <1>1, <1>3, <1>4, <2>6, <2>7, <2>8 DEF StreamInv
<1> QED
    BY <1>5, <1>6

LEMMA WriteStep == ASSUME StreamInv, Write PROVE StreamInv'
<1>1. /\ World /\ AppOk /\ TimerOk /\ CtrlOk(ctrl, rx_ring)
      /\ app = "open" /\ appWait = "no" /\ app' = "writing" /\ left' = WriteLen
      /\ written + WriteLen <= MaxWritten
      /\ UNCHANGED <<ctrl, rx_ring, connects, appWait, conn, written, bytesRead, timer,
                     toServer, toPeer, peer>>
    BY DEF Write, StreamInv, Enters, server
<1>2. StageOk(ctrl) /\ Sent' = Sent
    BY <1>1 DEF CtrlOk, Sent
<1>3. PICK d : d = ctrl
    OBVIOUS
<1>4. PICK ring : ring = rx_ring
    OBVIOUS
<1>5. connected(d) => ~d.sender
    BY <1>1, <1>3 DEF CtrlOk, ConnOk, SendOk
<1>6. StageOk(d)'
    BY <1>1, <1>2, <1>3 DEF StageOk
<1>7. World' /\ CtrlOk(d, ring)'
    BY <1>1, <1>2, <1>3, <1>4, <1>5, <1>6, AppMoves
<1>8. AppOk'
    BY <1>1, Sizes DEF AppOk
<1>9. TimerOk'
    BY <1>1 DEF TimerOk
<1> QED
    BY <1>1, <1>3, <1>4, <1>7, <1>8, <1>9 DEF StreamInv

\* The bytes that follow the first b.
LEMMA BytesSpan ==
    ASSUME NEW b \in Nat, NEW n \in Nat
    PROVE  /\ Bytes(b) \in Seq(Nat) /\ Len(Bytes(b)) = b
           /\ Bytes(b) \o Span(b, n) = Bytes(b + n)
<1> DEFINE s == Bytes(b)
           t == Span(b, n)
           u == Bytes(b + n)
<1>1. s \in Seq(Nat) /\ Len(s) = b /\ \A x \in 1 .. b : s[x] = x
    BY DEF Bytes
<1>2. t \in Seq(Nat) /\ Len(t) = n /\ \A x \in 1 .. n : t[x] = b + x
    <2>1. \A x \in 1 .. n : b + x \in Nat
        OBVIOUS
    <2> QED BY <2>1 DEF Span
<1>3. u \in Seq(Nat) /\ Len(u) = b + n /\ \A x \in 1 .. b + n : u[x] = x
    BY DEF Bytes
<1> HIDE DEF s, t, u
<1> DEFINE v == s \o t
<1>4. v \in Seq(Nat) /\ Len(v) = b + n
    BY <1>1, <1>2
<1>5. \A x \in 1 .. b + n : v[x] = x
    <2> SUFFICES ASSUME NEW x \in 1 .. b + n PROVE v[x] = x
        OBVIOUS
    <2>1. CASE x <= b
        <3>1. x \in 1 .. b
            BY <2>1
        <3> QED BY <1>1, <1>2, <3>1
    <2>2. CASE x > b
        <3>1. x - b \in 1 .. n /\ b + (x - b) = x
            BY <2>2
        <3>2. v[x] = t[x - b]
            BY <1>1, <1>2, <2>2, <3>1
        <3> QED BY <1>2, <3>1, <3>2
    <2>3. x \in Int /\ b \in Int
        OBVIOUS
    <2> HIDE DEF v
    <2> QED BY <2>1, <2>2, <2>3
<1> HIDE DEF v
<1>6. v = u
    BY <1>3, <1>4, <1>5, SeqEqual
<1> QED
    BY <1>1, <1>6 DEF s, t, u, v

\* What read() copies.
Taken(c, ring, n) == [k \in 1 .. n |-> ring[(c.rx_tail + k - 1) % RingSize]]

\* That is, from a ring that holds what follows the bytes read.
LEMMA ReadSpan ==
    ASSUME NEW c, NEW ring, RecvOk(c, ring), NEW n \in 0 .. Queued(c),
           Queued(c) \in Nat, Len(bytesRead) \in Nat
    PROVE  Taken(c, ring, n) = Span(Len(bytesRead), n)
<1>1. \A x \in 1 .. n : ring[(c.rx_tail + x - 1) % RingSize] = Len(bytesRead) + x
    <2> SUFFICES ASSUME NEW x \in 1 .. n
                 PROVE  ring[(c.rx_tail + x - 1) % RingSize] = Len(bytesRead) + x
        OBVIOUS
    <2>1. x \in 1 .. Queued(c)
        OBVIOUS
    <2> QED BY <2>1 DEF RecvOk
<1> QED
    BY <1>1 DEF Span, Taken

\* The ring after n bytes have been read from it.
LEMMA ReadFits ==
    ASSUME AppOk, NEW c, NEW ring, CtrlType(c), RecvOk(c, ring), NEW n \in 0 .. Queued(c), NEW d,
           d.state = c.state, d.remote = c.remote, d.rcv_nxt = c.rcv_nxt, d.rx_eof = c.rx_eof,
           d.rx_head = c.rx_head, d.rx_tail = c.rx_tail + n,
           bytesRead' = Bytes(Len(bytesRead) + n), peer' = peer
    PROVE  RecvOk(d, ring)'
<1> DEFINE b == Len(bytesRead)
           q == Queued(c)
<1>1. b \in Nat /\ q \in Nat /\ c.rx_tail \in Nat /\ c.rx_head \in Nat /\ q = c.rx_head - c.rx_tail
      /\ n \in Nat /\ n <= q
    BY Sizes DEF AppOk, CtrlType, Queued
<1>2. Queued(d) = q - n
    <2>1. Queued(d) = c.rx_head - (c.rx_tail + n)
        BY DEF Queued
    <2> HIDE DEF q
    <2> QED BY <1>1, <2>1
<1>3. /\ \A x \in 1 .. q : ring[(c.rx_tail + x - 1) % RingSize] = b + x
      /\ b + q <= peer[c.remote].sent
      /\ c.state = "ESTABLISHED" => ~c.rx_eof /\ c.rcv_nxt = PeerSeq(1 + (b + q))
      /\ c.state = "CLOSE_WAIT" => c.rx_eof /\ peer[c.remote].fin /\ b + q = peer[c.remote].sent
    BY DEF RecvOk
<1> HIDE DEF b, q
<1>4. Len(bytesRead') = b + n
    <2>1. b + n \in Nat
        BY <1>1
    <2>2. PICK m \in Nat : m = b + n
        BY <2>1
    <2>3. Len(Bytes(m)) = m
        BY BytesSpan
    <2> QED BY <2>2, <2>3 DEF b
<1>5. \A x \in 1 .. q - n : ring[(d.rx_tail + x - 1) % RingSize] = (b + n) + x
    <2> SUFFICES ASSUME NEW x \in 1 .. q - n
                 PROVE  ring[(d.rx_tail + x - 1) % RingSize] = (b + n) + x
        OBVIOUS
    <2>1. /\ n + x \in 1 .. q /\ c.rx_tail + (n + x) - 1 = (c.rx_tail + n) + x - 1
          /\ b + (n + x) = (b + n) + x
        <3>1. x \in Nat /\ 1 <= x /\ x <= q - n
            BY <1>1
        <3>2. n + x \in 1 .. q
            BY <1>1, <3>1
        <3>3. c.rx_tail + (n + x) - 1 = (c.rx_tail + n) + x - 1
            BY <1>1, <3>1
        <3>4. b + (n + x) = (b + n) + x
            BY <1>1, <3>1
        <3> QED BY <3>2, <3>3, <3>4
    <2>2. ring[(c.rx_tail + (n + x) - 1) % RingSize] = b + (n + x)
        BY <1>3, <2>1
    <2> QED BY <2>1, <2>2
<1>6. (b + n) + (q - n) = b + q
    BY <1>1
<1>7. Queued(d)' = q - n
    BY <1>2
<1> QED
    BY <1>3, <1>4, <1>5, <1>6, <1>7 DEF RecvOk

LEMMA ReadStep == ASSUME StreamInv, Read PROVE StreamInv'
<1>1. /\ World /\ AppOk /\ TimerOk /\ CtrlOk(ctrl, rx_ring) /\ CtrlType(ctrl) /\ IsCtrl(ctrl) /\ StageOk(ctrl)
      /\ app \in {"open", "reading"} /\ app' \in {"open", "reading"}
      /\ UNCHANGED <<rx_ring, connects, conn, left, written, timer, toServer, toPeer, peer>>
      /\ appWait' \in {"no", "conn"}
    BY DEF Read, StreamInv, Enters, Resumes, CtrlOk, CtrlType
<1>2. Sent = written /\ Sent' = Sent /\ (connected(ctrl) => ~ctrl.sender)
    <2>1. app # "writing" /\ app' # "writing"
        BY <1>1
    <2>2. Sent = written /\ Sent' = written
        BY <1>1, <2>1 DEF Sent, AppOk
    <2> QED BY <1>1, <2>1, <2>2 DEF CtrlOk, ConnOk, SendOk
<1>3. PICK d : d = ctrl'
    OBVIOUS
<1>4. PICK ring : ring = rx_ring
    OBVIOUS
<1>5. CASE Queued(ctrl) = 0 /\ ~ctrl.rx_eof /\ ctrl.state # "CLOSED"
    <2>1. ctrl' = ctrl /\ bytesRead' = bytesRead
        BY <1>5 DEF Read
    <2>2. StageOk(d)'
        BY <1>1, <1>3, <2>1 DEF StageOk
    <2>3. World' /\ CtrlOk(d, ring)'
        BY <1>1, <1>2, <1>3, <1>4, <2>1, <2>2, AppMoves
    <2>4. AppOk' /\ TimerOk'
        BY <1>1, <2>1 DEF AppOk, TimerOk
    <2> QED BY <1>1, <1>3, <1>4, <2>3, <2>4 DEF StreamInv
<1>6. CASE ~(Queued(ctrl) = 0 /\ ~ctrl.rx_eof /\ ctrl.state # "CLOSED")
    <2> DEFINE n == Min({ReadMax, Queued(ctrl)})
               data == [k \in 1 .. n |-> rx_ring[(ctrl.rx_tail + k - 1) % RingSize]]
               tail == ctrl.rx_tail + n
    <2>1. bytesRead' = bytesRead \o data /\ ctrl' = [ctrl EXCEPT !.rx_tail = tail]
        BY <1>6 DEF Read
    <2>2. Queued(ctrl) \in Nat /\ n \in 0 .. Queued(ctrl) /\ ctrl.rx_tail \in Nat /\ ctrl.rx_head \in Nat
          /\ Queued(ctrl) \in 0 .. RingSize /\ RingSize \in Nat
        <3>1. Queued(ctrl) \in 0 .. RingSize /\ RingSize \in Nat /\ ReadMax \in Nat /\ Queued(ctrl) \in Nat
            BY <1>1, Sizes DEF CtrlType
        <3>2. n \in 0 .. Queued(ctrl)
            BY <3>1 DEF Min
        <3> QED BY <1>1, <3>1, <3>2 DEF CtrlType
    <2> HIDE DEF n, tail, data
    <2>3. /\ d.rx_tail = tail /\ DOMAIN d = DOMAIN ctrl
          /\ d.state = ctrl.state /\ d.remote = ctrl.remote /\ d.snd_una = ctrl.snd_una
          /\ d.snd_nxt = ctrl.snd_nxt /\ d.rcv_nxt = ctrl.rcv_nxt
          /\ d.tx_flags = ctrl.tx_flags /\ d.tx_data = ctrl.tx_data /\ d.retries = ctrl.retries
          /\ d.sender = ctrl.sender /\ d.send_err = ctrl.send_err
          /\ d.rx_head = ctrl.rx_head /\ d.rx_eof = ctrl.rx_eof
        BY <1>1, <1>3, <2>1 DEF IsCtrl
    <2>4. CtrlType(d)
        <3>1. tail \in Nat /\ Queued(d) \in 0 .. RingSize
            <4>1. tail = ctrl.rx_tail + n
                BY DEF tail
            <4>2. Queued(d) = ctrl.rx_head - tail /\ Queued(ctrl) = ctrl.rx_head - ctrl.rx_tail
                BY <2>3 DEF Queued
            <4>3. n \in Nat
                BY <2>2
            <4> QED BY <2>2, <4>1, <4>2, <4>3
        <3> QED BY <1>1, <2>3, <3>1 DEF CtrlType, IsCtrl
    <2>5. StageOk(d)'
        BY <1>1, <2>3 DEF StageOk, connected, Ending
    <2>6. Len(bytesRead) \in Nat /\ bytesRead = Bytes(Len(bytesRead))
        BY <1>1 DEF AppOk
    <2>7. World' /\ \A p, k, m, fin : On(p, k, m, fin)' <=> On(p, k, m, fin)
        BY <1>1, WorldStays
    <2>8. CASE ctrl.state = "CLOSED"
        <3>1. FreeOk(ctrl) /\ n = 0 /\ tail = 0
            <4>1. FreeOk(ctrl)
                BY <1>1, <2>8 DEF CtrlOk
            <4>2. Queued(ctrl) = 0 /\ ctrl.rx_tail = 0
                BY <4>1 DEF FreeOk, Queued
            <4>3. n = 0
                BY <2>2, <4>2
            <4> QED BY <4>1, <4>2, <4>3 DEF tail
        <3>2. FreeOk(d)
            BY <2>3, <3>1 DEF FreeOk
        <3>3. CtrlOk(d, ring)'
            BY <2>3, <2>4, <2>5, <2>8, <3>2 DEF CtrlOk, connected, Ending
        <3>4. bytesRead' = bytesRead
            <4>1. data = <<>>
                BY <3>1 DEF data
            <4> QED BY <1>1, <2>1, <4>1 DEF AppOk
        <3>5. AppOk'
            BY <1>1, <3>4 DEF AppOk
        <3>6. TimerOk'
            BY <1>1, <1>3, <2>3 DEF TimerOk
        <3> QED BY <1>1, <1>3, <1>4, <2>7, <3>3, <3>5, <3>6 DEF StreamInv
    <2>9. CASE ctrl.state # "CLOSED"
        <3>1. connected(ctrl) /\ ctrl.remote = conn /\ ConnOk(ctrl, ring)
            BY <1>1, <1>4, <2>9 DEF StageOk, CtrlOk
        <3>2. data = Span(Len(bytesRead), n)
            <4>1. RecvOk(ctrl, rx_ring)
                BY <1>4, <3>1 DEF ConnOk
            <4>2. Taken(ctrl, rx_ring, n) = Span(Len(bytesRead), n)
                BY <2>2, <2>6, <4>1, ReadSpan
            <4> QED BY <4>2 DEF data, Taken
        <3>3. bytesRead' = Bytes(Len(bytesRead) + n) /\ Len(bytesRead) + n \in Nat
            <4>1. n \in Nat
                BY <2>2
            <4>2. Bytes(Len(bytesRead)) \o Span(Len(bytesRead), n) = Bytes(Len(bytesRead) + n)
                BY <2>6, <4>1, BytesSpan
            <4> QED BY <2>1, <2>6, <3>2, <4>1, <4>2
        <3>4. RecvOk(d, ring)'
            <4>1. d.rx_tail = ctrl.rx_tail + n
                BY <2>3 DEF tail
            <4>2. RecvOk(ctrl, ring) /\ peer' = peer
                BY <1>1, <3>1 DEF ConnOk
            <4> QED BY <1>1, <2>2, <2>3, <3>3, <4>1, <4>2, ReadFits
        <3>5. SendOk(d)'
            BY <1>1, <1>2, <2>3, <3>1 DEF ConnOk, SendOk
        <3>6. ConnOk(d, ring)'
            BY <1>1, <1>2, <2>3, <2>7, <3>1, <3>4, <3>5 DEF ConnOk
        <3>7. CtrlOk(d, ring)'
            BY <2>3, <2>4, <2>5, <3>1, <3>6 DEF CtrlOk, connected, Ending
        <3>8. AppOk'
            <4>1. PICK m \in Nat : m = Len(bytesRead) + n
                BY <3>3
            <4>2. bytesRead' = Bytes(m) /\ Len(bytesRead') = m /\ bytesRead' \in Seq(Nat)
                BY <3>3, <4>1, BytesSpan
            <4> QED BY <1>1, <4>2, <3>1 DEF AppOk
        <3>9. TimerOk'
            BY <1>1, <1>3, <2>3 DEF TimerOk
        <3> QED BY <1>1, <1>3, <1>4, <2>7, <3>7, <3>8, <3>9 DEF StreamInv
    <2> QED BY <2>8, <2>9
<1> QED
    BY <1>5, <1>6

LEMMA ChunkIs ==
    ASSUME AppOk, app = "writing"
    PROVE  /\ Chunk \in Nat /\ Chunk > 0 /\ Chunk <= left /\ left \in 0 .. WriteLen
           /\ written \in Nat /\ written + left <= MaxWritten /\ written + Chunk \in 0 .. MaxWritten
<1>1. /\ written \in 0 .. MaxWritten /\ MaxWritten \in Nat /\ left \in 0 .. WriteLen /\ left > 0
      /\ written + left <= MaxWritten /\ Mss \in Nat \ {0} /\ WriteLen \in Nat
    BY Sizes DEF AppOk
<1>2. Chunk \in Nat /\ Chunk > 0 /\ Chunk <= left
    <2>1. left \in Nat /\ Mss \in Nat
        BY <1>1
    <2> QED BY <1>1, <2>1 DEF Chunk, Min
<1> QED
    BY <1>1, <1>2

LEMMA SendDoneStep == ASSUME StreamInv, SendDone PROVE StreamInv'
<1>1. /\ World /\ AppOk /\ TimerOk /\ CtrlOk(ctrl, rx_ring) /\ CtrlType(ctrl) /\ StageOk(ctrl)
      /\ app = "writing" /\ appWait \in {"woken", "timed_out"}
      /\ UNCHANGED <<ctrl, rx_ring, connects, conn, bytesRead, timer, toServer, toPeer, peer>>
    BY DEF SendDone, StreamInv, Resumes, server, CtrlOk
<1>2. TimerOk'
    BY <1>1 DEF TimerOk
<1>3. CASE ctrl.sender
    <2>1. appWait' = "conn" /\ UNCHANGED <<app, left, written>>
        BY <1>3 DEF SendDone
    <2>2. AppStays
        BY <1>1, <2>1 DEF AppStays
    <2>3. World' /\ CtrlOk(ctrl, rx_ring)' /\ AppOk'
        BY <1>1, <2>1, <2>2, StaysStep
    <2> QED BY <1>2, <2>3 DEF StreamInv
<1>4. CASE ~ctrl.sender /\ ctrl.send_err < 0
    <2>1. appWait' = "no" /\ app' = "open" /\ left' = 0 /\ written' = written
        BY <1>4 DEF SendDone
    <2>2. ctrl.state = "CLOSED" /\ ~connected(ctrl) /\ ~Ending(ctrl) /\ FreeOk(ctrl)
        <3>1. ctrl.send_err # 0
            BY <1>4
        <3>2. ~connected(ctrl)
            BY <1>1, <1>4, <3>1 DEF StageOk
        <3>3. ctrl.state = "CLOSED"
            BY <1>1, <3>2 DEF StageOk
        <3> QED BY <1>1, <3>2, <3>3 DEF CtrlOk, Ending
    <2>3. StageOk(ctrl)'
        BY <1>1, <2>1, <2>2 DEF StageOk
    <2>4. CtrlOk(ctrl, rx_ring)'
        BY <1>1, <2>2, <2>3 DEF CtrlOk, connected, Ending
    <2>5. World'
        BY <1>1, WorldStays
    <2>6. AppOk'
        BY <1>1, <2>1, Sizes DEF AppOk
    <2> QED BY <1>2, <2>4, <2>5, <2>6 DEF StreamInv
<1>5. CASE ~ctrl.sender /\ ~(ctrl.send_err < 0)
    <2>1. /\ appWait' = "no" /\ written' = written + Chunk /\ left' = left - Chunk
          /\ app' = IF left' = 0 THEN "open" ELSE "writing"
        BY <1>5 DEF SendDone
    <2>2. ctrl.send_err = 0
        BY <1>1, <1>5 DEF CtrlType
    <2>3. Sent = written + Chunk /\ Sent' = written'
        BY <1>1, <2>1 DEF Sent
    <2>4. Sent <= Len(peer[conn].got)
        BY <1>1, <1>5, <2>2 DEF StageOk
    <2>5. PICK d : d = ctrl
        OBVIOUS
    <2>6. PICK ring : ring = rx_ring
        OBVIOUS
    <2>7. StageOk(d)'
        BY <1>1, <2>1, <2>5 DEF StageOk
    <2>8. World' /\ CtrlOk(d, ring)'
        BY <1>1, <1>5, <2>1, <2>3, <2>5, <2>6, <2>7, AppMoves
    <2>9. AppOk'
        <3>1. /\ written' \in 0 .. MaxWritten /\ left' \in 0 .. WriteLen
              /\ written' + left' <= MaxWritten /\ (left' # 0 => left' > 0)
            <4>1. /\ Chunk \in Nat /\ Chunk > 0 /\ Chunk <= left /\ left \in Nat /\ left <= WriteLen
                  /\ written \in Nat /\ written + left <= MaxWritten /\ written + Chunk \in 0 .. MaxWritten
                  /\ WriteLen \in Nat
                BY <1>1, ChunkIs, Sizes
            <4>2. written' = written + Chunk /\ left' = left - Chunk
                BY <2>1
            <4>3. left' \in 0 .. WriteLen /\ (left' # 0 => left' > 0)
                BY <4>1, <4>2
            <4>4. written' + left' = written + left
                BY <4>1, <4>2
            <4> QED BY <4>1, <4>2, <4>3, <4>4
        <3>2. conn # NoPort /\ conn \in Port
            BY <1>1 DEF AppOk
        <3> QED BY <1>1, <2>1, <2>3, <2>4, <3>1, <3>2 DEF AppOk
    <2> QED BY <1>1, <1>2, <2>5, <2>6, <2>8, <2>9 DEF StreamInv
<1> QED
    BY <1>3, <1>4, <1>5

\* A call of send_new() on a stretch that has sent nothing.
NewSent(e, b, flags, data) ==
    /\ IsStretch(e) /\ e.ring = b.ring /\ e.sent = {Resent(e.c)}
    /\ e.c = [b.c EXCEPT !.tx_flags = flags, !.tx_data = data, !.retries = 0]

LEMMA SendNewIs ==
    ASSUME NEW b, IsStretch(b), b.sent = {}, NEW flags, NEW data
    PROVE  NewSent(send_new(b, flags, data), b, flags, data)
<1> DEFINE f == [b EXCEPT !.c.tx_flags = flags, !.c.tx_data = data, !.c.retries = 0]
           u == send_unacked(f)
<1>1. send_new(b, flags, data) = Signal(u, "rto")
    BY DEF send_new
<1>2. /\ IsStretch(f) /\ f.ring = b.ring /\ f.sent = {}
      /\ f.c = [b.c EXCEPT !.tx_flags = flags, !.tx_data = data, !.retries = 0]
    BY DEF IsStretch
<1> HIDE DEF f
<1>3. IsStretch(u) /\ u.c = f.c /\ u.ring = b.ring /\ u.sent = {Resent(f.c)}
    BY <1>2, SendUnackedIs
<1> HIDE DEF u
<1>4. /\ IsStretch(Signal(u, "rto")) /\ Signal(u, "rto").c = f.c
      /\ Signal(u, "rto").ring = b.ring /\ Signal(u, "rto").sent = {Resent(f.c)}
    BY <1>3, SignalIs
<1> QED
    BY <1>1, <1>2, <1>4 DEF NewSent

\* New segments leave for the client of the connection.
LEMMA SendMoves ==
    ASSUME World, connects > 0, NEW r \in Port,
           NEW n \in 0 .. MaxWritten, On(r, connects, n, FALSE),
           NEW n2 \in 0 .. MaxWritten, n <= n2, NEW fin2 \in BOOLEAN,
           UNCHANGED <<connects, peer, toServer>>,
           \A x \in toPeer' : x \in toPeer \/ (x.port = r /\ Downward(x, connects, n2, fin2))
    PROVE  World' /\ On(r, connects, n2, fin2)'
<1>1. peer \in [Port -> ClientType] /\ connects \in Nat /\ connects \in 1 .. connects
    BY Sizes DEF World
<1>2. \A p \in Port : Len(peer[p].got) \in Nat
    BY <1>1 DEF ClientType
<1>3. PICK k0 : k0 = connects
    OBVIOUS
<1>4. On(r, k0, n2, fin2)'
    <2>1. On(r, k0, n, FALSE) /\ FALSE \in BOOLEAN /\ peer'[r] = peer[r] /\ Len(peer[r].got) \in Nat
        BY <1>2, <1>3
    <2>2. \A s \in toServer' : s.port = r => s \in toServer
        OBVIOUS
    <2>3. \A s \in toPeer' : s.port = r => s \in toPeer \/ Downward(s, k0, n2, fin2)
        BY <1>3
    <2> QED BY <2>1, <2>2, <2>3, OnKept
<1>5. ASSUME NEW p \in Port PROVE PeerOk(p)'
    <2>1. CASE p = r
        <3>1. Open(peer[r])
            BY DEF On
        <3> QED BY <1>1, <1>3, <1>4, <2>1, <3>1 DEF PeerOk
    <2>2. CASE p # r
        <3>1. \A x \in toPeer' : x.port = p => x \in toPeer
            BY <2>2
        <3>2. CASE Open(peer[p])
            <4>1. PICK k \in 1 .. connects, m \in 0 .. MaxWritten, fin \in BOOLEAN : On(p, k, m, fin)
                BY <3>2 DEF World, PeerOk
            <4>2. m <= m /\ peer'[p] = peer[p] /\ \A s \in toServer' : s.port = p => s \in toServer
                BY Sizes
            <4>3. On(p, k, m, fin)'
                BY <1>2, <3>1, <4>1, <4>2, OnKept
            <4> QED BY <3>2, <4>3 DEF PeerOk
        <3>3. CASE ~Open(peer[p])
            <4>1. PeerOk(p)
                BY DEF World
            <4>2. /\ peer[p].got = <<>> /\ peer[p].sent = 0 /\ ~peer[p].fin
                  /\ \A x \in toPeer' : x.port = p => Unopened(x)
                BY <3>1, <3>3, <4>1 DEF PeerOk
            <4>3. \A x : Unopened(x) => Unopened(x)'
                BY DEF Unopened
            <4> QED BY <3>3, <4>2, <4>3 DEF PeerOk
        <3> QED BY <3>2, <3>3
    <2> QED BY <2>1, <2>2
<1>6. World'
    <2>1. \A s \in toPeer' : s.port \in Port
        BY DEF World
    <2> QED BY <1>5, <2>1 DEF World
<1> QED
    BY <1>3, <1>4, <1>6

LEMMA SendDataStep == ASSUME Roomy, StreamInv, SendData PROVE StreamInv'
<1>1. /\ World /\ AppOk /\ TimerOk /\ CtrlOk(ctrl, rx_ring) /\ CtrlType(ctrl) /\ IsCtrl(ctrl) /\ StageOk(ctrl)
      /\ app = "writing" /\ appWait = "no" /\ Sent = written
      /\ UNCHANGED <<connects, conn, written, bytesRead, toServer, peer>>
    BY DEF SendData, StreamInv, Enters, CtrlOk, CtrlType, AppOk, Sent
<1>2. CASE ~connected(ctrl) \/ Outstanding(ctrl)
    <2>1. app' = "open" /\ left' = 0 /\ UNCHANGED <<ctrl, rx_ring, toPeer, timer, appWait>>
        BY <1>2 DEF SendData
    <2>2. Sent' = Sent
        BY <1>1, <2>1 DEF Sent, AppOk
    <2>3. PICK d : d = ctrl
        OBVIOUS
    <2>4. PICK ring : ring = rx_ring
        OBVIOUS
    <2>5. connected(d) => ~d.sender
        BY <1>1, <2>3 DEF CtrlOk, ConnOk, SendOk
    <2>6. StageOk(d)'
        BY <1>1, <2>1, <2>3 DEF StageOk
    <2>7. World' /\ CtrlOk(d, ring)'
        BY <1>1, <2>1, <2>2, <2>3, <2>4, <2>5, <2>6, AppMoves
    <2>8. AppOk' /\ TimerOk'
        BY <1>1, <2>1, Sizes DEF AppOk, TimerOk
    <2> QED BY <2>1, <2>3, <2>4, <2>7, <2>8 DEF StreamInv
<1>3. CASE connected(ctrl) /\ ~Outstanding(ctrl)
    <2> DEFINE nxt == Plus(ctrl.snd_nxt, Chunk)
               b == [Begin EXCEPT !.c.sender = TRUE, !.c.snd_nxt = nxt]
               data == [k \in 1 .. Chunk |-> written + k]
               e == send_new(b, {"PSH", "ACK"}, data)
    <2>1. Commit(e, toServer) /\ WakeTimer(e) /\ appWait' = "conn" /\ app' = app /\ left' = left
        BY <1>3 DEF SendData, Begin
    <2>2. /\ IsStretch(Begin) /\ Begin.c = ctrl /\ Begin.ring = rx_ring /\ Begin.sent = {}
        BY BeginIs
    <2> HIDE DEF nxt, data
    <2>3. /\ IsStretch(b) /\ b.ring = rx_ring /\ b.sent = {}
          /\ b.c = [ctrl EXCEPT !.sender = TRUE, !.snd_nxt = nxt]
        BY <2>2 DEF IsStretch
    <2> HIDE DEF b
    <2>4. /\ IsStretch(e) /\ e.ring = rx_ring /\ e.sent = {Resent(e.c)}
          /\ e.c = [b.c EXCEPT !.tx_flags = {"PSH", "ACK"}, !.tx_data = data, !.retries = 0]
        <3>1. NewSent(e, b, {"PSH", "ACK"}, data)
            BY <2>3, SendNewIs
        <3> HIDE DEF e
        <3> QED BY <2>3, <3>1 DEF NewSent
    <2> HIDE DEF e
    <2>5. PICK d : d = e.c
        OBVIOUS
    <2>6. /\ d.snd_nxt = nxt /\ DOMAIN d = DOMAIN ctrl
          /\ d.state = ctrl.state /\ d.remote = ctrl.remote /\ d.snd_una = ctrl.snd_una
          /\ d.rcv_nxt = ctrl.rcv_nxt
          /\ d.tx_flags = {"PSH", "ACK"} /\ d.tx_data = data /\ d.retries = 0
          /\ d.sender = TRUE /\ d.send_err = ctrl.send_err
          /\ d.rx_head = ctrl.rx_head /\ d.rx_tail = ctrl.rx_tail /\ d.rx_eof = ctrl.rx_eof
        BY <1>1, <2>3, <2>4, <2>5 DEF IsCtrl
    <2>7. PICK r \in Port : r = ctrl.remote
        BY <1>1, <1>3 DEF CtrlOk, ConnOk
    <2>8. /\ On(r, connects, written, FALSE) /\ RecvOk(ctrl, rx_ring) /\ connects > 0
          /\ ctrl.snd_nxt = At(connects, 1 + written) /\ ctrl.snd_una = At(connects, 1 + written)
          /\ written <= Len(peer[r].got)
        <3>1. ConnOk(ctrl, rx_ring) /\ SendOk(ctrl)
            BY <1>1, <1>3 DEF CtrlOk, ConnOk
        <3>2. ctrl.snd_nxt = At(connects, 1 + written) /\ ctrl.snd_una = ctrl.snd_nxt
            BY <1>1, <1>3, <3>1 DEF SendOk, Outstanding
        <3>3. written <= Len(peer[r].got)
            BY <1>1, <2>7, <3>1 DEF SendOk
        <3> QED BY <1>1, <2>7, <3>1, <3>2, <3>3 DEF ConnOk
    <2>18. PICK m : m = written + Chunk
        OBVIOUS
    <2>9. /\ written \in 0 .. MaxWritten /\ written \in Nat /\ Chunk \in Nat /\ m \in 0 .. MaxWritten
          /\ written <= m /\ written \in 0 .. m /\ m - Chunk = written /\ m - written = Chunk
          /\ Chunk <= m /\ Chunk <= Chunk
        <3>1. written \in Nat /\ Chunk \in Nat /\ m \in 0 .. MaxWritten
            BY <1>1, <2>18, ChunkIs
        <3> QED BY <1>1, <2>18, <3>1 DEF AppOk
    <2>10. connects \in 1 .. Len(Iss)
        BY <1>1, <2>8 DEF World
    <2>11. nxt = At(connects, 1 + m) /\ nxt \in Seqno
        <3>1. /\ 1 + written \in Nat /\ (1 + written) + Chunk < SeqWrap /\ (1 + written) + Chunk = 1 + m
              /\ 1 + m \in Nat /\ 1 + m < SeqWrap
            BY <2>9, Room
        <3>2. Iss[connects] \in Seqno
            BY <2>10, Room
        <3>3. Plus(Plus(Iss[connects], 1 + written), Chunk) = Plus(Iss[connects], (1 + written) + Chunk)
            BY <2>9, <3>1, <3>2, PlusPlus
        <3>4. Plus(Iss[connects], 1 + m) \in Seqno
            BY <3>1, <3>2, PlusValue
        <3> QED BY <2>8, <3>1, <3>3, <3>4 DEF nxt, At
    <2>12. data = Span(m - Chunk, Chunk) /\ Len(data) = Chunk /\ data \in Seq(Nat)
        <3>1. data = Span(written, Chunk)
            BY DEF data, Span
        <3>2. Len(Span(written, Chunk)) = Chunk /\ Span(written, Chunk) \in Seq(Nat)
            <4>1. 0 \in 0 .. Chunk /\ 0 \in 0 .. Chunk - 0
                BY <2>9
            <4> QED BY <2>9, <4>1, SpanPart
        <3> QED BY <2>9, <3>1, <3>2
    <2>13. Downward(Resent(d), connects, m, FALSE) /\ Resent(d).port = r
        <3>1. /\ d.snd_una = At(connects, 1 + written) /\ d.snd_nxt = At(connects, 1 + m)
              /\ d.tx_data \in Seq(Nat) /\ Len(d.tx_data) <= m /\ m - written <= Len(d.tx_data)
              /\ d.tx_data = Span(m - Len(d.tx_data), Len(d.tx_data)) /\ "FIN" \notin d.tx_flags
            BY <2>6, <2>8, <2>9, <2>11, <2>12
        <3>2. Downward(Resent(d), connects, m, FALSE) /\ Resent(d).port = d.remote
            BY <2>9, <2>10, <3>1, UnackedData
        <3> QED BY <2>6, <2>7, <3>2
    <2>14. /\ \A x \in toPeer' : x \in toPeer \/ (x.port = r /\ Downward(x, connects, m, FALSE))
           /\ ctrl' = d /\ rx_ring' = rx_ring
        BY <2>1, <2>4, <2>5, <2>13 DEF Commit
    <2>15. World' /\ On(r, connects, m, FALSE)'
        <3>1. PICK n1 : n1 = written
            OBVIOUS
        <3> QED BY <1>1, <2>8, <2>9, <2>14, <3>1, SendMoves
    <2>16. Sent' = m /\ connects' = connects /\ Len(bytesRead') = Len(bytesRead)
        BY <1>1, <2>1, <2>18 DEF Sent, Chunk
    <2>17. PICK ring : ring = rx_ring
        OBVIOUS
    <2>19. CtrlType(d) /\ Queued(d) = Queued(ctrl)
        <3>1. 0 \in 0 .. MaxRetries
            BY Sizes
        <3>2. Queued(d) = Queued(ctrl)
            BY <2>6 DEF Queued
        <3> QED BY <1>1, <2>6, <2>11, <3>1, <3>2 DEF CtrlType, IsCtrl
    <2>20. SendOk(d)'
        <3>1. /\ d.snd_una = At(connects', 1 + written) /\ d.snd_nxt = At(connects', 1 + m)
              /\ written <= Len(peer'[d.remote].got)
              /\ d.tx_data \in Seq(Nat) /\ Len(d.tx_data) <= m /\ m - written <= Len(d.tx_data)
              /\ d.tx_data = Span(m - Len(d.tx_data), Len(d.tx_data)) /\ "FIN" \notin d.tx_flags
              /\ d.sender /\ app' = "writing" /\ appWait' # "no" /\ written \in 0 .. m
            BY <1>1, <2>1, <2>6, <2>7, <2>8, <2>9, <2>11, <2>12
        <3>2. PICK u : u = written
            OBVIOUS
        <3> QED BY <2>16, <3>1, <3>2 DEF SendOk
    <2>21. RecvOk(d, ring)'
        <3>1. RecvOk(ctrl, ring)
            BY <2>8, <2>17
        <3> QED BY <1>1, <2>6, <2>16, <2>19, <3>1 DEF RecvOk
    <2>22. connected(d) /\ ConnOk(d, ring)'
        BY <1>3, <2>6, <2>7, <2>8, <2>15, <2>16, <2>20, <2>21 DEF ConnOk, connected
    <2>23. StageOk(d)'
        BY <1>1, <1>3, <2>1, <2>6, <2>22 DEF StageOk, connected, Ending
    <2>24. CtrlOk(d, ring)'
        BY <2>19, <2>22, <2>23 DEF CtrlOk, connected, Ending
    <2>25. AppOk'
        BY <1>1, <2>1 DEF AppOk
    <2>26. TimerOk'
        <3>1. timer' \in {timer, "woken"}
            BY <2>1 DEF WakeTimer
        <3> QED BY <1>1, <2>14, <2>22, <3>1, TimerMoves DEF connected
    <2> QED BY <2>14, <2>15, <2>17, <2>24, <2>25, <2>26 DEF StreamInv
<1> QED
    BY <1>2, <1>3

\* close() finds no connection any more.
LEMMA ClosedStep ==
    ASSUME World, AppOk, TimerOk, ctrl'.state = "CLOSED", CtrlType(ctrl'), FreeOk(ctrl'),
           UNCHANGED <<connects, peer, toServer, toPeer, left>>,
           app' = "idle", appWait' = "no", conn' = NoPort, written' = 0, bytesRead' = <<>>,
           timer' \in {timer, "woken"},
           ctrl'.retries = 0 \/ (ctrl.state \in {"CLOSED", "LISTEN"} /\ ctrl'.retries = ctrl.retries)
    PROVE  StreamInv'
<1>1. World'
    BY WorldStays
<1>2. AppOk'
    <2>1. Bytes(0) = <<>> /\ Len(<<>>) = 0 /\ <<>> \in Seq(Nat) /\ 0 \in 0 .. MaxWritten
        BY Sizes DEF Bytes
    <2> QED BY <2>1 DEF AppOk
<1>3. CtrlOk(ctrl, rx_ring)'
    <2>1. StageOk(ctrl)'
        BY DEF StageOk, Ending
    <2> QED BY <2>1 DEF CtrlOk, connected, Ending
<1>4. TimerOk'
    BY TimerMoves
<1> QED
    BY <1>1, <1>2, <1>3, <1>4 DEF StreamInv

LEMMA CloseStep == ASSUME Roomy, StreamInv, Close PROVE StreamInv'
<1> DEFINE b == [Begin EXCEPT !.c.rx_tail = ctrl.rx_head]
           st == IF ctrl.state = "ESTABLISHED" THEN "FIN_WAIT_1" ELSE "LAST_ACK"
           nxt == Plus(ctrl.snd_nxt, 1)
           f == [b EXCEPT !.c.state = st, !.c.snd_nxt = nxt]
           g == [b EXCEPT !.c.state = st, !.c.snd_nxt = Plus(@, 1)]
           e == send_new(f, {"FIN", "ACK"}, <<>>)
<1>1. /\ World /\ AppOk /\ TimerOk /\ CtrlOk(ctrl, rx_ring) /\ CtrlType(ctrl) /\ IsCtrl(ctrl) /\ StageOk(ctrl)
      /\ app = "open" /\ appWait = "no" /\ Sent = written /\ written \in 0 .. MaxWritten
    BY DEF Close, StreamInv, Enters, CtrlOk, CtrlType, AppOk, Sent
<1>2. CloseLoop(IF connected(ctrl) /\ ~Outstanding(ctrl)
                THEN send_new(g, {"FIN", "ACK"}, <<>>) ELSE b)
    BY DEF Close
<1>3. IsStretch(Begin) /\ Begin.c = ctrl /\ Begin.ring = rx_ring /\ Begin.sent = {}
    BY BeginIs
<1>4. /\ IsStretch(b) /\ b.ring = rx_ring /\ b.sent = {}
      /\ b.c = [ctrl EXCEPT !.rx_tail = ctrl.rx_head]
    BY <1>3 DEF IsStretch
<1> HIDE DEF b
<1>5. b.c.snd_nxt = ctrl.snd_nxt
    BY <1>1, <1>4 DEF IsCtrl
<1>6. CASE ctrl.state = "CLOSED"
    <2>1. CloseLoop(b)
        BY <1>2, <1>6 DEF connected
    <2>2. FreeOk(ctrl)
        BY <1>1, <1>6 DEF CtrlOk
    <2>3. /\ DOMAIN b.c = DOMAIN ctrl /\ b.c.rx_tail = 0
          /\ b.c.state = "CLOSED" /\ b.c.remote = ctrl.remote /\ b.c.snd_una = ctrl.snd_una
          /\ b.c.snd_nxt = ctrl.snd_nxt /\ b.c.rcv_nxt = ctrl.rcv_nxt
          /\ b.c.tx_flags = ctrl.tx_flags /\ b.c.tx_data = ctrl.tx_data /\ b.c.retries = ctrl.retries
          /\ b.c.sender = ctrl.sender /\ b.c.send_err = ctrl.send_err
          /\ b.c.rx_head = ctrl.rx_head /\ b.c.rx_eof = ctrl.rx_eof
        BY <1>1, <1>4, <1>6, <2>2 DEF IsCtrl, FreeOk
    <2>4. FreeOk(b.c)
        BY <2>2, <2>3 DEF FreeOk
    <2>5. CtrlType(b.c)
        <3>1. Queued(b.c) = Queued(ctrl) /\ 0 \in Nat
            BY <2>2, <2>3 DEF FreeOk, Queued
        <3>2. IsCtrl(b.c) /\ b.c.rx_tail \in Nat
            BY <1>1, <2>3 DEF IsCtrl
        <3>3. PICK c : c = b.c
            OBVIOUS
        <3>4. CtrlType(c)
            BY <1>1, <1>6, <2>3, <3>1, <3>2, <3>3 DEF CtrlType
        <3> QED BY <3>3, <3>4
    <2>6. /\ ctrl' = b.c /\ toPeer' = toPeer /\ toServer' = toServer
          /\ app' = "idle" /\ appWait' = "no" /\ conn' = NoPort /\ written' = 0 /\ bytesRead' = <<>>
          /\ UNCHANGED <<connects, left, peer>> /\ timer' \in {timer, "woken"}
        BY <1>4, <2>1, <2>3 DEF CloseLoop, Commit, WakeTimer
    <2> QED BY <1>1, <1>6, <2>3, <2>4, <2>5, <2>6, ClosedStep
<1>7. CASE ctrl.state # "CLOSED"
    <2>1. connected(ctrl) /\ ctrl.remote = conn /\ ConnOk(ctrl, rx_ring) /\ SendOk(ctrl)
        BY <1>1, <1>7 DEF StageOk, CtrlOk, ConnOk
    <2>2. PICK n : n = written
        OBVIOUS
    <2>3. /\ ctrl.sender \in BOOLEAN /\ ~ctrl.sender /\ n \in 0 .. MaxWritten
          /\ ctrl.snd_nxt = At(connects, 1 + n) /\ ctrl.snd_una = At(connects, 1 + n)
          /\ connects > 0
        BY <1>1, <2>1, <2>2 DEF SendOk, CtrlType, ConnOk
    <2>4. CloseLoop(e)
        <3>1. ~Outstanding(ctrl)
            BY <2>3 DEF Outstanding
        <3>2. g = f
            BY <1>4, <1>5
        <3> HIDE DEF f, g
        <3> QED BY <1>2, <2>1, <3>1, <3>2
    <2> HIDE DEF st, nxt
    <2>5. IsStretch(f) /\ f.ring = rx_ring /\ f.sent = {} /\ f.c = [b.c EXCEPT !.state = st, !.snd_nxt = nxt]
        BY <1>4 DEF IsStretch
    <2> HIDE DEF f
    <2>6. NewSent(e, f, {"FIN", "ACK"}, <<>>)
        BY <2>5, SendNewIs
    <2> HIDE DEF e
    <2>7. PICK d : d = e.c
        OBVIOUS
    <2>8. /\ DOMAIN b.c = DOMAIN ctrl /\ b.c.rx_tail = ctrl.rx_head
          /\ b.c.remote = ctrl.remote /\ b.c.snd_una = ctrl.snd_una /\ b.c.rcv_nxt = ctrl.rcv_nxt
          /\ b.c.sender = ctrl.sender /\ b.c.send_err = ctrl.send_err
          /\ b.c.rx_head = ctrl.rx_head /\ b.c.rx_eof = ctrl.rx_eof
        BY <1>1, <1>4 DEF IsCtrl
    <2>9. /\ DOMAIN d = DOMAIN ctrl /\ d.rx_tail = ctrl.rx_head /\ d.state = st /\ d.snd_nxt = nxt
          /\ d.remote = ctrl.remote /\ d.snd_una = ctrl.snd_una /\ d.rcv_nxt = ctrl.rcv_nxt
          /\ d.sender = ctrl.sender /\ d.send_err = ctrl.send_err
          /\ d.rx_head = ctrl.rx_head /\ d.rx_eof = ctrl.rx_eof
          /\ d.tx_flags = {"FIN", "ACK"} /\ d.tx_data = <<>> /\ d.retries = 0
        BY <1>1, <2>5, <2>6, <2>7, <2>8 DEF NewSent, IsCtrl
    <2>10. st \in {"FIN_WAIT_1", "LAST_ACK"}
        BY DEF st
    <2>11. connects \in 1 .. Len(Iss) /\ Iss[connects] \in Seqno
        <3>1. connects \in 1 .. Len(Iss)
            BY <1>1, <2>3 DEF World
        <3> QED BY <3>1, Room
    <2>12. nxt = At(connects, 2 + n) /\ nxt \in Seqno
        <3>1. /\ 1 + n \in Nat /\ 1 \in Nat /\ (1 + n) + 1 < SeqWrap /\ (1 + n) + 1 = 2 + n
              /\ 2 + n \in Nat /\ 2 + n < SeqWrap
            BY <2>3, Room
        <3>2. Plus(Plus(Iss[connects], 1 + n), 1) = Plus(Iss[connects], (1 + n) + 1)
            BY <2>11, <3>1, PlusPlus
        <3>3. Plus(Iss[connects], 2 + n) \in Seqno
            BY <2>11, <3>1, PlusValue
        <3> QED BY <2>3, <3>1, <3>2, <3>3 DEF nxt, At
    <2>13. PICK r \in Port : r = ctrl.remote
        BY <2>1 DEF ConnOk
    <2>14. On(r, connects, n, FALSE)
        BY <1>1, <2>1, <2>2, <2>13 DEF ConnOk
    <2>15. Downward(Resent(d), connects, n, TRUE) /\ Resent(d).port = r
        <3>1. /\ Resent(d).data = <<>> /\ Resent(d).flags = {"FIN", "ACK"}
              /\ Resent(d).seq = At(connects, 1 + n) /\ Resent(d).port = r
            <4>1. d.tx_data = <<>> /\ d.snd_una \in Seqno /\ d.snd_nxt \in Seqno
                BY <1>1, <2>9, <2>12 DEF IsCtrl
            <4> QED BY <2>3, <2>9, <2>13, <4>1, ResentEmpty
        <3> QED BY <3>1, EmptySeq DEF Downward
    <2>16. /\ \A x \in toPeer' : x \in toPeer \/ (x.port = r /\ Downward(x, connects, n, TRUE))
           /\ ctrl' = d /\ rx_ring' = rx_ring /\ toServer' = toServer
           /\ app' = "closing" /\ appWait' = "conn"
           /\ UNCHANGED <<conn, written, bytesRead, connects, left, peer>> /\ timer' \in {timer, "woken"}
        <3>1. /\ Commit(e, toServer) /\ WakeTimer(e) /\ e.c.state # "CLOSED"
              /\ e.sent = {Resent(d)} /\ e.ring = rx_ring
            BY <2>4, <2>5, <2>6, <2>7, <2>9, <2>10 DEF CloseLoop, NewSent
        <3> QED BY <2>4, <2>7, <2>15, <3>1 DEF CloseLoop, Commit, WakeTimer
    <2>17. World' /\ On(r, connects, n, TRUE)'
        <3>1. n <= n /\ TRUE \in BOOLEAN
            BY <2>3, Sizes
        <3> QED BY <1>1, <2>3, <2>14, <2>16, <3>1, SendMoves
    <2>18. Sent' = n /\ connects' = connects
        <3>1. Sent' = written'
            <4>1. written' \in 0 .. MaxWritten
                BY <1>1, <2>16
            <4> QED BY <2>16, <4>1 DEF Sent
        <3> QED BY <2>2, <2>16, <3>1
    <2>19. CtrlType(d)
        <3>1. 0 \in 0 .. MaxRetries /\ 0 \in 0 .. RingSize
            BY Sizes
        <3>2. Queued(d) = 0
            BY <1>1, <2>9 DEF Queued, CtrlType
        <3> QED BY <1>1, <2>9, <2>10, <2>12, <3>1, <3>2 DEF CtrlType, IsCtrl, State
    <2>20. EndingOk(d)'
        <3>1. /\ On(d.remote, connects, Sent, TRUE)' /\ d.remote \in Port /\ connects' > 0
            BY <2>3, <2>9, <2>13, <2>17, <2>18
        <3>2. d.snd_una = At(connects', 1 + Sent') /\ d.snd_nxt = At(connects', 2 + Sent')
            BY <2>3, <2>9, <2>12, <2>18
        <3> QED BY <2>3, <2>9, <3>1, <3>2 DEF EndingOk
    <2>21. StageOk(d)'
        BY <2>1, <2>9, <2>10, <2>16 DEF StageOk, Ending
    <2>22. PICK ring : ring = rx_ring
        OBVIOUS
    <2>23. CtrlOk(d, ring)'
        BY <2>9, <2>10, <2>19, <2>20, <2>21 DEF CtrlOk, connected, Ending
    <2>24. AppOk'
        BY <1>1, <2>16 DEF AppOk
    <2>25. TimerOk'
        BY <1>1, <2>9, <2>10, <2>16, TimerMoves
    <2> QED BY <2>16, <2>17, <2>22, <2>23, <2>24, <2>25 DEF StreamInv
<1> QED
    BY <1>6, <1>7

LEMMA CloseResumeStep == ASSUME StreamInv, CloseResume PROVE StreamInv'
<1> DEFINE e == IF appWait = "timed_out" THEN disconnect(Begin) ELSE Begin
<1>1. /\ World /\ AppOk /\ TimerOk /\ CtrlOk(ctrl, rx_ring) /\ CtrlType(ctrl)
      /\ app = "closing" /\ appWait \in {"woken", "timed_out"} /\ CloseLoop(e)
    BY DEF CloseResume, StreamInv, Resumes, CtrlOk
<1>2. IsStretch(Begin) /\ Begin.c = ctrl /\ Begin.ring = rx_ring /\ Begin.sent = {}
    BY BeginIs
<1>3. /\ e.sent = {}
      /\ e.c.state = "CLOSED" => CtrlType(e.c) /\ FreeOk(e.c)
      /\ e.c = ctrl \/ (e.c.state = "CLOSED" /\ e.c.retries = 0)
      /\ e.c = ctrl => e.ring = rx_ring \/ e.c.state = "CLOSED"
    <2>1. CASE appWait = "timed_out"
        <3> DEFINE err == IF ctrl.sender THEN -1 ELSE 0
        <3>1. e.c = [Zero EXCEPT !.send_err = err] /\ e.sent = {} /\ err \in {0, -1}
            BY <1>2, <2>1, DisconnectIs
        <3> HIDE DEF err, e
        <3> QED BY <3>1, ZeroIs
    <2>2. CASE appWait # "timed_out"
        BY <1>1, <1>2, <2>2 DEF CtrlOk
    <2> QED BY <2>1, <2>2
<1> HIDE DEF e
<1>4. ctrl' = e.c /\ rx_ring' = e.ring /\ toPeer' = toPeer /\ toServer' = toServer
      /\ UNCHANGED <<connects, left, peer>> /\ timer' \in {timer, "woken"}
    BY <1>1, <1>3 DEF CloseLoop, Commit, WakeTimer
<1>5. CASE e.c.state = "CLOSED"
    <2>1. app' = "idle" /\ appWait' = "no" /\ conn' = NoPort /\ written' = 0 /\ bytesRead' = <<>>
        BY <1>1, <1>5 DEF CloseLoop
    <2> QED BY <1>1, <1>3, <1>4, <1>5, <2>1, ClosedStep
<1>6. CASE e.c.state # "CLOSED"
    <2>1. app' = "closing" /\ appWait' = "conn" /\ UNCHANGED <<conn, written, bytesRead>>
        BY <1>1, <1>6 DEF CloseLoop
    <2>2. ctrl' = ctrl /\ rx_ring' = rx_ring /\ AppStays
        BY <1>1, <1>3, <1>4, <1>6, <2>1 DEF AppStays
    <2>3. World' /\ CtrlOk(ctrl, rx_ring)' /\ AppOk'
        BY <1>1, <1>4, <2>1, <2>2, StaysStep
    <2>4. TimerOk'
        BY <1>1, <1>4, <2>2 DEF TimerOk
    <2> QED BY <2>3, <2>4 DEF StreamInv
<1> QED
    BY <1>5, <1>6

LEMMA ApplicationStep == ASSUME Roomy, StreamInv, Application PROVE StreamInv'
BY ListenStep, UnlistenStep, AcceptStep, ReadStep, WriteStep, SendDataStep, SendDoneStep,
   CloseStep, CloseResumeStep DEF Application

-----------------------------------------------------------------------------
(* The clients and the network.                                            *)

\* A client becomes q.
GrownTo(o, q) ==
    /\ Len(o.got) <= Len(q.got) /\ o.sent <= q.sent
    /\ o.fin => q.fin /\ q.sent = o.sent
    /\ Open(o) => Open(q)

\* What a client has sent it has sent when it has gone on.
LEMMA UpwardGrows ==
    ASSUME NEW s, NEW o \in ClientType, NEW q \in ClientType, Upward(s, o), GrownTo(o, q)
    PROVE  Upward(s, q)
<1>1. o.sent \in Nat /\ q.sent \in Nat /\ o.sent <= q.sent
    BY Sizes DEF ClientType, GrownTo
<1>2. ASSUME s.data # <<>>
      PROVE  \E i \in 0 .. q.sent :
                 /\ s.seq = PeerSeq(1 + i) /\ s.data = Span(i, Len(s.data))
                 /\ i + Len(s.data) <= q.sent
                 /\ "FIN" \in s.flags => i + Len(s.data) = q.sent
    <2>1. PICK i \in 0 .. o.sent :
              /\ s.seq = PeerSeq(1 + i) /\ s.data = Span(i, Len(s.data))
              /\ i + Len(s.data) <= o.sent
              /\ "FIN" \in s.flags => i + Len(s.data) = o.sent
        BY <1>2 DEF Upward
    <2>2. Len(s.data) \in Nat
        BY DEF Upward
    <2>3. i \in 0 .. q.sent /\ i + Len(s.data) <= q.sent
        BY <1>1, <2>1, <2>2
    <2>4. "FIN" \in s.flags => i + Len(s.data) = q.sent
        BY <2>1 DEF Upward, GrownTo
    <2> QED BY <2>1, <2>3, <2>4
<1> QED
    BY <1>2 DEF Upward, GrownTo

\* What is on a connection that client p has opened stays on it.
OnStays(p) ==
    \A k \in 1 .. connects, n \in 0 .. MaxWritten, fin \in BOOLEAN :
        On(p, k, n, fin) => On(p, k, n, fin)'

\* What client p opens is a connection.
Opened(p) ==
    Open(peer'[p]) /\ ~Open(peer[p]) => \E k \in 1 .. connects : On(p, k, 0, FALSE)'

LEMMA ClientStep ==
    ASSUME World, AppOk, CtrlOk(ctrl, rx_ring), UNCHANGED <<server, application>>,
           NEW p \in Port, NEW q \in ClientType, peer' = [peer EXCEPT ![p] = q],
           toPeer' \subseteq toPeer,
           \A x \in toServer' : x \in toServer \/ (x.port = p /\ Upward(x, q)),
           GrownTo(peer[p], q) \/ p \notin {conn, ctrl.remote},
           GrownTo(peer[p], q) \/ \A x \in toServer : x.port # p,
           OnStays(p) \/ p \notin {conn, ctrl.remote}, Open(peer[p]) /\ Open(q) => OnStays(p),
           Opened(p),
           ~Open(q) => q.got = <<>> /\ q.sent = 0 /\ ~q.fin /\ (Open(peer[p]) => \A x \in toPeer : x.port # p)
    PROVE  World' /\ CtrlOk(ctrl, rx_ring)' /\ AppOk'
<1>1. /\ peer \in [Port -> ClientType] /\ peer' \in [Port -> ClientType] /\ peer'[p] = q
      /\ \A r \in Port : r # p => peer'[r] = peer[r]
    BY DEF World
<1>2. /\ UNCHANGED <<ctrl, rx_ring, connects, listening, app, appWait, conn, left, written, bytesRead>>
      /\ AppStays /\ connects \in 0 .. Len(Iss)
    BY DEF server, application, AppStays, World
<1>3. \A r \in Port : Len(peer[r].got) \in Nat /\ peer[r].sent \in Nat
                      /\ Len(peer'[r].got) \in Nat /\ peer'[r].sent \in Nat
    BY <1>1, Sizes DEF ClientType
<1>4. ASSUME NEW r \in Port, r # p PROVE OnStays(r)
    <2> SUFFICES ASSUME NEW k \in 1 .. connects, NEW n \in 0 .. MaxWritten, NEW fin \in BOOLEAN,
                        On(r, k, n, fin)
                 PROVE  On(r, k, n, fin)'
        BY DEF OnStays
    <2>1. n <= n /\ peer'[r] = peer[r] /\ Len(peer[r].got) \in Nat
        BY <1>1, <1>3, <1>4, Sizes
    <2>2. \A x \in toServer' : x.port = r => x \in toServer
        BY <1>4
    <2>3. \A x \in toPeer' : x.port = r => x \in toPeer \/ Downward(x, k, n, fin)
        OBVIOUS
    <2> QED BY <2>1, <2>2, <2>3, OnKept
<1>5. ASSUME NEW r \in Port, r # p PROVE Grown(r)
    BY <1>1, <1>3, <1>5 DEF Grown
<1>6. p \in {conn, ctrl.remote} => OnStays(p) /\ Grown(p)
    BY <1>1, <1>3 DEF Grown, GrownTo
<1>7. \A x : Unopened(x) => Unopened(x)'
    BY <1>2 DEF Unopened
<1>8. 0 \in 0 .. MaxWritten /\ FALSE \in BOOLEAN
    BY Sizes
<1>9. World'
    <2>1. ASSUME NEW r \in Port, r # p PROVE PeerOk(r)'
        <3>1. CASE Open(peer[r])
            <4>1. PICK k \in 1 .. connects, n \in 0 .. MaxWritten, fin \in BOOLEAN : On(r, k, n, fin)
                BY <3>1 DEF World, PeerOk
            <4>2. On(r, k, n, fin)'
                BY <1>4, <2>1, <4>1 DEF OnStays
            <4> QED BY <1>1, <1>2, <2>1, <3>1, <4>2 DEF PeerOk
        <3>2. CASE ~Open(peer[r])
            <4>1. PeerOk(r)
                BY DEF World
            <4>2. \A x \in toPeer' : x.port = r => Unopened(x)'
                BY <1>7, <3>2, <4>1 DEF PeerOk
            <4> QED BY <1>1, <2>1, <3>2, <4>1, <4>2 DEF PeerOk
        <3> QED BY <3>1, <3>2
    <2>2. PeerOk(p)'
        <3>1. CASE Open(peer[p]) /\ Open(q)
            <4>1. PICK k \in 1 .. connects, n \in 0 .. MaxWritten, fin \in BOOLEAN : On(p, k, n, fin)
                BY <3>1 DEF World, PeerOk
            <4>2. On(p, k, n, fin)'
                BY <3>1, <4>1 DEF OnStays
            <4> QED BY <1>1, <1>2, <3>1, <4>2 DEF PeerOk
        <3>2. CASE ~Open(peer[p]) /\ Open(q)
            <4>1. PICK k \in 1 .. connects : On(p, k, 0, FALSE)'
                BY <1>1, <3>2 DEF Opened
            <4> QED BY <1>1, <1>2, <1>8, <3>2, <4>1 DEF PeerOk
        <3>3. CASE ~Open(q)
            <4>1. \A x \in toPeer' : x.port = p => Unopened(x)'
                <5>1. CASE Open(peer[p])
                    BY <3>3, <5>1
                <5>2. CASE ~Open(peer[p])
                    <6>1. PeerOk(p)
                        BY DEF World
                    <6> QED BY <1>7, <5>2, <6>1 DEF PeerOk
                <5> QED BY <5>1, <5>2
            <4> QED BY <1>1, <3>3, <4>1 DEF PeerOk
        <3> QED BY <3>1, <3>2, <3>3
    <2>3. ASSUME NEW x \in toServer' PROVE x.port \in Port /\ Upward(x, peer'[x.port])
        <3>1. CASE x \notin toServer
            BY <1>1, <3>1
        <3>2. CASE x \in toServer
            <4>1. x.port \in Port /\ Upward(x, peer[x.port])
                BY <3>2 DEF World
            <4>2. CASE x.port # p
                BY <1>1, <4>1, <4>2
            <4>3. CASE x.port = p
                <5>1. GrownTo(peer[p], q) /\ peer[p] \in ClientType
                    BY <1>1, <3>2, <4>3
                <5>2. Upward(x, peer[p])
                    BY <4>1, <4>3
                <5>3. Upward(x, q)
                    BY <5>1, <5>2, UpwardGrows
                <5> QED BY <1>1, <4>3, <5>3
            <4> QED BY <4>2, <4>3
        <3> QED BY <3>1, <3>2
    <2>4. \A x \in toPeer' : x.port \in Port
        BY DEF World
    <2> QED BY <1>1, <1>2, <2>1, <2>2, <2>3, <2>4 DEF World
<1>10. conn # NoPort => Grown(conn)
    BY <1>5, <1>6 DEF AppOk
<1>11. CtrlOk(ctrl, rx_ring)'
    <2>1. PICK c : c = ctrl
        OBVIOUS
    <2>2. PICK ring : ring = rx_ring
        OBVIOUS
    <2>3. CtrlOk(c, ring)
        BY <2>1, <2>2
    <2>4. c.state \notin {"CLOSED", "LISTEN"} => c.remote \in Port
        BY <2>3 DEF CtrlOk, CtrlType, State, ConnOk, OpeningOk, EndingOk, connected, Ending
    <2>5. c.state \notin {"CLOSED", "LISTEN"} => Grown(c.remote) /\ OnStays(c.remote)
        BY <1>4, <1>5, <1>6, <2>1, <2>4
    <2>6. c.state \notin {"CLOSED", "LISTEN"} => Opened(c.remote)
        BY <1>1, <2>4 DEF Opened
    <2>7. c.state \notin {"CLOSED", "LISTEN"} =>
               /\ Grown(c.remote)
               /\ \A k \in 1 .. connects, n \in 0 .. MaxWritten, fin \in BOOLEAN :
                     Known(c, k, n, fin) /\ On(c.remote, k, n, fin) => On(c.remote, k, n, fin)'
               /\ Open(peer'[c.remote]) /\ ~Open(peer[c.remote]) =>
                     \E k \in 1 .. connects : On(c.remote, k, 0, FALSE)'
        BY <2>5, <2>6 DEF OnStays, Opened
    <2>8. CtrlOk(c, ring)'
        BY <1>2, <1>10, <2>3, <2>7, CtrlKept
    <2> QED BY <1>2, <2>1, <2>2, <2>8
<1>12. AppOk'
    <2>1. appWait' \in {"no", "listen", "conn", "woken", "timed_out"}
        BY <1>2 DEF AppOk
    <2> QED BY <1>2, <1>10, <2>1, AppKept
<1> QED
    BY <1>9, <1>11, <1>12

\* A client sends, from where it is.
LEMMA TalkStep ==
    ASSUME StreamInv, NEW p \in Port, NEW q \in ClientType, peer' = [peer EXCEPT ![p] = q],
           GrownTo(peer[p], q), Open(q) => Open(peer[p]),
           q.got = peer[p].got, q.rcv_nxt = peer[p].rcv_nxt, ~Open(q) => q.sent = 0 /\ ~q.fin,
           UNCHANGED <<server, application, timer>>, toPeer' \subseteq toPeer,
           NEW x, x.port = p, "ACK" \in x.flags => x.ack = peer[p].rcv_nxt, Upward(x, q),
           toServer' \subseteq toServer \cup {x}
    PROVE  StreamInv'
<1>1. World /\ AppOk /\ CtrlOk(ctrl, rx_ring) /\ TimerOk
    BY DEF StreamInv
<1>2. peer \in [Port -> ClientType] /\ peer'[p] = q
    BY <1>1 DEF World
<1>3. OnStays(p)
    <2> SUFFICES ASSUME NEW k \in 1 .. connects, NEW n \in 0 .. MaxWritten, NEW fin \in BOOLEAN,
                        On(p, k, n, fin)
                 PROVE  On(p, k, n, fin)'
        BY DEF OnStays
    <2> DEFINE got == Len(peer[p].got)
    <2>1. got \in Nat /\ got = Len(q.got)
        BY <1>2 DEF ClientType
    <2>2. PICK f \in 0 .. 2 : peer[p].rcv_nxt = At(k, 1 + got + f) /\ (f > 0 => fin /\ got = n)
        BY DEF On
    <2>3. Acks(x, k, got, fin)
        <3> SUFFICES ASSUME "ACK" \in x.flags
                     PROVE  \E m \in 0 .. got + (IF fin THEN 2 ELSE 0) : x.ack = At(k, 1 + m)
            BY DEF Acks
        <3> DEFINE a == IF fin THEN 2 ELSE 0
        <3>1. f \in 0 .. a /\ a \in Nat
            BY <2>2
        <3> HIDE DEF a, got
        <3>2. PICK m : m = got + f
            OBVIOUS
        <3>3. m \in 0 .. got + a /\ 1 + m = 1 + got + f
            BY <2>1, <3>1, <3>2
        <3>4. x.ack = At(k, 1 + m)
            BY <2>2, <3>3
        <3> QED BY <3>3, <3>4 DEF a
    <2>4. \A s \in toServer' : s.port = p => Acks(s, k, got, fin)
        BY <2>3 DEF On
    <2>5. \A s \in toPeer' : s.port = p => Downward(s, k, n, fin)
        BY DEF On
    <2>6. Open(q) /\ q.got = Bytes(got) /\ got <= n
        BY DEF On, GrownTo
    <2> QED BY <1>2, <2>1, <2>2, <2>4, <2>5, <2>6 DEF On
<1>4. Opened(p)
    BY <1>2 DEF Opened
<1>5. ~Open(q) => q.got = <<>>
    <2>1. ~Open(q) => ~Open(peer[p])
        BY DEF GrownTo
    <2> QED BY <1>1, <2>1 DEF World, PeerOk
<1>6. UNCHANGED <<server, application>> /\ timer' = timer /\ ctrl' = ctrl
      /\ \A s \in toServer' : s \in toServer \/ (s.port = p /\ Upward(s, q))
    BY DEF server
<1>7. ~Open(q) => (Open(peer[p]) => \A s \in toPeer : s.port # p)
    BY DEF GrownTo
<1>8. World' /\ CtrlOk(ctrl, rx_ring)' /\ AppOk'
    BY <1>1, <1>3, <1>4, <1>5, <1>6, <1>7, ClientStep
<1>9. TimerOk'
    BY <1>1, <1>6 DEF TimerOk
<1> QED
    BY <1>8, <1>9 DEF StreamInv

LEMMA ClientIs ==
    ASSUME World, NEW p \in Port
    PROVE  /\ peer[p] \in ClientType /\ peer \in [Port -> ClientType]
           /\ DOMAIN peer[p] = {"state", "sent", "fin", "rcv_nxt", "got"}
           /\ peer[p].sent \in 0 .. PeerBytes /\ peer[p].sent \in Nat /\ PeerBytes \in Nat
           /\ peer[p].got \in Seq(Nat) /\ Len(peer[p].got) \in Nat /\ peer[p].fin \in BOOLEAN
           /\ peer[p].rcv_nxt \in Seqno
           /\ ~Open(peer[p]) => peer[p].got = <<>> /\ peer[p].sent = 0 /\ ~peer[p].fin
<1>1. peer \in [Port -> ClientType] /\ PeerOk(p) /\ peer[p] \in ClientType
    BY DEF World
<1>2. /\ DOMAIN peer[p] = {"state", "sent", "fin", "rcv_nxt", "got"}
      /\ peer[p].sent \in 0 .. PeerBytes /\ peer[p].got \in Seq(Nat) /\ peer[p].fin \in BOOLEAN
      /\ peer[p].rcv_nxt \in Seqno
    BY <1>1 DEF ClientType
<1>3. peer[p].sent \in Nat /\ PeerBytes \in Nat /\ Len(peer[p].got) \in Nat
    BY <1>2, Sizes
<1> QED
    BY <1>1, <1>2, <1>3 DEF PeerOk

\* Wherever the application of the client leaves it, but for its state.
LEMMA StateGrown ==
    ASSUME World, NEW p \in Port, NEW st \in {"new", "syn_sent", "open", "gone"},
           Open(peer[p]) => st \in {"open", "gone"}
    PROVE  LET q == [peer[p] EXCEPT !.state = st]
           IN  /\ q \in ClientType /\ GrownTo(peer[p], q) /\ q.state = st
               /\ q.got = peer[p].got /\ q.rcv_nxt = peer[p].rcv_nxt /\ q.sent = peer[p].sent
               /\ q.fin = peer[p].fin
<1> DEFINE q == [peer[p] EXCEPT !.state = st]
<1>1. /\ peer[p] \in ClientType /\ peer[p].sent \in Nat /\ Len(peer[p].got) \in Nat
    BY ClientIs
<1>2. /\ q \in ClientType /\ q.state = st
      /\ q.got = peer[p].got /\ q.rcv_nxt = peer[p].rcv_nxt /\ q.sent = peer[p].sent
      /\ q.fin = peer[p].fin
    BY <1>1 DEF ClientType
<1> HIDE DEF q
<1>3. GrownTo(peer[p], q)
    BY <1>1, <1>2 DEF GrownTo, Open
<1> QED
    BY <1>2, <1>3 DEF q

\* The segment of PeerSend.
LEMMA PeerSendIs ==
    ASSUME NEW p, NEW seq, NEW flags, NEW data, PeerSend(p, seq, flags, data)
    PROVE  \E x : /\ toServer' \subseteq toServer \cup {x} /\ x.port = p /\ x.seq = seq
                  /\ x.flags = flags /\ x.data = data
                  /\ "ACK" \in x.flags => x.ack = peer[p].rcv_nxt
<1> DEFINE x == Segment(p, seq, IF "ACK" \in flags THEN peer[p].rcv_nxt ELSE 0, flags, data)
<1>1. toServer' = toServer \cup {x}
    BY DEF PeerSend
<1>2. /\ x.port = p /\ x.seq = seq /\ x.flags = flags /\ x.data = data
      /\ "ACK" \in flags => x.ack = peer[p].rcv_nxt
    BY DEF Segment
<1> HIDE DEF x
<1> QED
    BY <1>1, <1>2

LEMMA PeerSynStep == ASSUME StreamInv, NEW p \in Port, PeerSyn(p) PROVE StreamInv'
<1> DEFINE q == [peer[p] EXCEPT !.state = "syn_sent"]
<1>1. World
    BY DEF StreamInv
<1>2. /\ peer' = [peer EXCEPT ![p] = q] /\ ~Open(peer[p])
      /\ PeerSend(p, Isn, {"SYN"}, <<>>) /\ UNCHANGED <<server, application, timer, toPeer>>
    BY DEF PeerSyn, Open
<1>3. /\ q \in ClientType /\ GrownTo(peer[p], q) /\ q.state = "syn_sent"
      /\ q.got = peer[p].got /\ q.rcv_nxt = peer[p].rcv_nxt /\ q.sent = peer[p].sent
      /\ q.fin = peer[p].fin
    BY <1>1, <1>2, StateGrown
<1> HIDE DEF q
<1>4. ~Open(q) /\ q.sent = 0 /\ ~q.fin
    BY <1>1, <1>2, <1>3, ClientIs DEF Open
<1>5. PICK x : /\ toServer' \subseteq toServer \cup {x} /\ x.port = p /\ x.seq = Isn
               /\ x.flags = {"SYN"} /\ x.data = <<>>
               /\ "ACK" \in x.flags => x.ack = peer[p].rcv_nxt
    BY <1>2, PeerSendIs
<1>6. Upward(x, q)
    BY <1>5, EmptySeq DEF Upward
<1>7. toPeer' \subseteq toPeer
    BY <1>2
<1> QED
    BY <1>2, <1>3, <1>4, <1>5, <1>6, <1>7, TalkStep

LEMMA PeerAckStep == ASSUME StreamInv, NEW p \in Port, PeerAck(p) PROVE StreamInv'
<1> DEFINE q == peer[p]
           seq == PeerSeq(1 + peer[p].sent + IF peer[p].fin THEN 1 ELSE 0)
<1>1. World
    BY DEF StreamInv
<1>2. peer' = peer /\ Open(q) /\ PeerSend(p, seq, {"ACK"}, <<>>)
      /\ UNCHANGED <<server, application, timer, toPeer>>
    BY DEF PeerAck, Open
<1> HIDE DEF seq
<1>3. q \in ClientType /\ q.sent \in Nat /\ Len(q.got) \in Nat /\ peer \in [Port -> ClientType]
    BY <1>1, ClientIs
<1>4. GrownTo(peer[p], q) /\ peer' = [peer EXCEPT ![p] = q]
    BY <1>2, <1>3 DEF GrownTo
<1>5. PICK x : /\ toServer' \subseteq toServer \cup {x} /\ x.port = p /\ x.seq = seq
               /\ x.flags = {"ACK"} /\ x.data = <<>>
               /\ "ACK" \in x.flags => x.ack = peer[p].rcv_nxt
    BY <1>2, PeerSendIs
<1>6. Upward(x, q)
    BY <1>2, <1>5, EmptySeq DEF Upward
<1>7. toPeer' \subseteq toPeer
    BY <1>2
<1> QED
    BY <1>2, <1>3, <1>4, <1>5, <1>6, <1>7, TalkStep

LEMMA PeerAbortStep == ASSUME StreamInv, NEW p \in Port, PeerAbort(p) PROVE StreamInv'
<1> DEFINE q == [peer[p] EXCEPT !.state = "gone"]
           seq == PeerSeq(1 + peer[p].sent + IF peer[p].fin THEN 1 ELSE 0)
<1>1. World
    BY DEF StreamInv
<1>2. /\ peer' = [peer EXCEPT ![p] = q] /\ Open(peer[p])
      /\ PeerSend(p, seq, {"RST"}, <<>>) /\ UNCHANGED <<server, application, timer, toPeer>>
    BY DEF PeerAbort, Open
<1> HIDE DEF seq
<1>3. /\ q \in ClientType /\ GrownTo(peer[p], q) /\ q.state = "gone"
      /\ q.got = peer[p].got /\ q.rcv_nxt = peer[p].rcv_nxt
    BY <1>1, StateGrown
<1> HIDE DEF q
<1>4. Open(q)
    BY <1>3 DEF Open
<1>5. PICK x : /\ toServer' \subseteq toServer \cup {x} /\ x.port = p /\ x.seq = seq
               /\ x.flags = {"RST"} /\ x.data = <<>>
               /\ "ACK" \in x.flags => x.ack = peer[p].rcv_nxt
    BY <1>2, PeerSendIs
<1>6. Upward(x, q)
    BY <1>5, EmptySeq DEF Upward
<1>7. toPeer' \subseteq toPeer
    BY <1>2
<1> QED
    BY <1>2, <1>3, <1>4, <1>5, <1>6, <1>7, TalkStep

LEMMA PeerFinStep == ASSUME StreamInv, NEW p \in Port, PeerFin(p) PROVE StreamInv'
<1> DEFINE q == [peer[p] EXCEPT !.fin = TRUE]
           seq == PeerSeq(1 + peer[p].sent)
<1>1. World
    BY DEF StreamInv
<1>2. /\ peer' = [peer EXCEPT ![p] = q] /\ Open(peer[p])
      /\ PeerSend(p, seq, {"FIN", "ACK"}, <<>>) /\ UNCHANGED <<server, application, timer, toPeer>>
    BY DEF PeerFin, Open
<1>3. /\ q \in ClientType /\ q.state = peer[p].state /\ q.fin /\ q.sent = peer[p].sent
      /\ q.got = peer[p].got /\ q.rcv_nxt = peer[p].rcv_nxt
      /\ q.sent \in Nat /\ Len(q.got) \in Nat
    <2>1. peer[p] \in ClientType /\ peer[p].sent \in Nat /\ Len(peer[p].got) \in Nat
        BY <1>1, ClientIs
    <2> QED BY <2>1 DEF ClientType
<1> HIDE DEF q
<1>4. Open(q) /\ GrownTo(peer[p], q)
    BY <1>2, <1>3 DEF Open, GrownTo
<1>5. PICK x : /\ toServer' \subseteq toServer \cup {x} /\ x.port = p /\ x.seq = seq
               /\ x.flags = {"FIN", "ACK"} /\ x.data = <<>>
               /\ "ACK" \in x.flags => x.ack = peer[p].rcv_nxt
    <2> HIDE DEF seq
    <2> QED BY <1>2, PeerSendIs
<1>6. Upward(x, q)
    <2>1. x.seq = PeerSeq(1 + q.sent)
        BY <1>3, <1>5
    <2> QED BY <1>3, <1>4, <1>5, <2>1, EmptySeq DEF Upward
<1>7. toPeer' \subseteq toPeer
    BY <1>2
<1> QED
    BY <1>2, <1>3, <1>4, <1>5, <1>6, <1>7, TalkStep

LEMMA PeerDataStep == ASSUME StreamInv, NEW p \in Port, PeerData(p) PROVE StreamInv'
<1>1. World
    BY DEF StreamInv
<1>2. PICK i \in 1 .. PeerBytes, j \in 1 .. PeerBytes :
          /\ i <= j /\ i <= peer[p].sent + 1
          /\ peer[p].fin => j <= peer[p].sent
          /\ \E flags \in {{"ACK"}} \cup (IF peer[p].fin /\ j = peer[p].sent
                                          THEN {{"FIN", "ACK"}} ELSE {}) :
                PeerSend(p, PeerSeq(i), flags, [k \in 1 .. j - i + 1 |-> i + k - 1])
          /\ peer' = [peer EXCEPT ![p].sent = IF j > @ THEN j ELSE @]
    BY DEF PeerData
<1> DEFINE sent == IF j > peer[p].sent THEN j ELSE peer[p].sent
           q == [peer[p] EXCEPT !.sent = sent]
           data == [k \in 1 .. j - i + 1 |-> i + k - 1]
           len == j - i + 1
<1>3. PICK flags \in {{"ACK"}} \cup (IF peer[p].fin /\ j = peer[p].sent
                                     THEN {{"FIN", "ACK"}} ELSE {}) :
          PeerSend(p, PeerSeq(i), flags, data)
    BY <1>2
<1>4. /\ flags \in {{"ACK"}, {"FIN", "ACK"}}
      /\ "FIN" \in flags => peer[p].fin /\ j = peer[p].sent
    BY <1>3
<1>5. /\ peer[p] \in ClientType /\ peer[p].sent \in 0 .. PeerBytes /\ peer[p].sent \in Nat /\ PeerBytes \in Nat
      /\ Len(peer[p].got) \in Nat
    BY <1>1, ClientIs
<1>6. /\ sent \in 0 .. PeerBytes /\ sent \in Nat /\ peer[p].sent <= sent /\ j <= sent
      /\ peer[p].fin => sent = peer[p].sent
      /\ i \in Nat /\ j \in Nat /\ 1 <= i /\ len \in Nat /\ len > 0
      /\ i - 1 \in 0 .. sent /\ (i - 1) + len = j /\ 1 + (i - 1) = i
    <2>1. /\ i \in Nat /\ j \in Nat /\ 1 <= i /\ i <= j /\ j <= PeerBytes /\ i <= peer[p].sent + 1
          /\ peer[p].fin => j <= peer[p].sent
        BY <1>2, <1>5
    <2>2. PICK o : o = peer[p].sent
        OBVIOUS
    <2>3. /\ sent \in 0 .. PeerBytes /\ sent \in Nat /\ o <= sent /\ j <= sent
          /\ peer[p].fin => sent = o
        BY <1>5, <2>1, <2>2
    <2> HIDE DEF sent
    <2>4. len \in Nat /\ len > 0 /\ (i - 1) + len = j /\ 1 + (i - 1) = i
        BY <2>1
    <2>5. i - 1 \in 0 .. sent
        BY <2>1, <2>3
    <2> QED BY <2>1, <2>2, <2>3, <2>4, <2>5
<1>7. data = Span(i - 1, len) /\ data \in Seq(Nat) /\ Len(data) = len /\ data # <<>>
    <2>1. \A k \in 1 .. len : i + k - 1 = (i - 1) + k
        BY <1>6
    <2>2. data = Span(i - 1, len)
        BY <2>1 DEF Span
    <2>3. Span(i - 1, len) \in Seq(Nat) /\ Len(Span(i - 1, len)) = len
        <3>1. PICK a \in Nat : a = i - 1
            BY <1>6
        <3> HIDE DEF len
        <3>2. 0 \in 0 .. len /\ 0 \in 0 .. len - 0
            BY <1>6
        <3>3. len \in Nat
            BY <1>6
        <3>4. Span(a, len) \in Seq(Nat) /\ Len(Span(a, len)) = len
            BY <3>2, <3>3, SpanPart
        <3> QED BY <3>1, <3>4
    <2> HIDE DEF data, len
    <2> QED BY <1>6, <2>2, <2>3
<1> HIDE DEF sent, data, len
<1>8. /\ q \in ClientType /\ q.state = peer[p].state /\ q.fin = peer[p].fin /\ q.sent = sent
      /\ q.got = peer[p].got /\ q.rcv_nxt = peer[p].rcv_nxt
    BY <1>5, <1>6 DEF ClientType
<1>9. /\ peer' = [peer EXCEPT ![p] = q] /\ Open(peer[p])
      /\ UNCHANGED <<server, application, timer, toPeer>>
    BY <1>2 DEF PeerData, Open, sent
<1> HIDE DEF q
<1>10. Open(q) /\ GrownTo(peer[p], q)
    BY <1>5, <1>6, <1>8, <1>9 DEF Open, GrownTo
<1>11. PICK x : /\ toServer' \subseteq toServer \cup {x} /\ x.port = p /\ x.seq = PeerSeq(i)
                /\ x.flags = flags /\ x.data = data
                /\ "ACK" \in x.flags => x.ack = peer[p].rcv_nxt
    BY <1>3, PeerSendIs
<1>12. Upward(x, q)
    <2>1. \E i0 \in 0 .. q.sent :
              /\ x.seq = PeerSeq(1 + i0) /\ x.data = Span(i0, Len(x.data))
              /\ i0 + Len(x.data) <= q.sent
              /\ "FIN" \in x.flags => i0 + Len(x.data) = q.sent
        <3>1. PICK i0 : i0 = i - 1
            OBVIOUS
        <3>2. "FIN" \in x.flags => j = q.sent
            BY <1>4, <1>6, <1>8, <1>11
        <3>3. /\ i0 \in 0 .. q.sent /\ x.seq = PeerSeq(1 + i0) /\ x.data = Span(i0, Len(x.data))
              /\ i0 + Len(x.data) = j /\ j <= q.sent
            BY <1>6, <1>7, <1>8, <1>11, <3>1
        <3> QED BY <3>2, <3>3
    <2> QED BY <1>4, <1>7, <1>8, <1>10, <1>11, <2>1 DEF Upward
<1>13. toPeer' \subseteq toPeer
    BY <1>9
<1> QED
    BY <1>8, <1>9, <1>10, <1>11, <1>12, <1>13, TalkStep

LEMMA PeerReturnsStep == ASSUME StreamInv, NEW p \in Port, PeerReturns(p) PROVE StreamInv'
<1> DEFINE q == NewPeer
<1>1. World /\ AppOk /\ CtrlOk(ctrl, rx_ring) /\ TimerOk
    BY DEF StreamInv
<1>2. /\ peer' = [peer EXCEPT ![p] = q] /\ p \notin {conn, ctrl.remote}
      /\ \A s \in toServer : s.port # p /\ \A x \in toPeer : x.port # p
      /\ UNCHANGED <<server, application, timer, toServer, toPeer>>
    BY DEF PeerReturns
<1>3. /\ q \in ClientType /\ q.state = "new" /\ q.got = <<>> /\ q.sent = 0 /\ q.fin = FALSE
    <2>1. 0 \in 0 .. PeerBytes /\ 0 \in Seqno /\ <<>> \in Seq(Nat)
        BY Sizes
    <2> QED BY <2>1 DEF NewPeer, ClientType
<1> HIDE DEF q
<1>4. ~Open(q)
    BY <1>3 DEF Open
<1>5. Opened(p)
    BY <1>1, <1>2, <1>4, ClientIs DEF Opened
<1>6. \A x \in toPeer : x.port # p
    BY <1>2 DEF PeerReturns
<1>7. \A x \in toServer : x.port # p
    BY DEF PeerReturns
<1>8. \A x \in toServer' : x \in toServer \/ (x.port = p /\ Upward(x, q))
    BY <1>2
<1>9. World' /\ CtrlOk(ctrl, rx_ring)' /\ AppOk'
    BY <1>1, <1>2, <1>3, <1>4, <1>5, <1>6, <1>7, <1>8, ClientStep
<1>10. TimerOk'
    BY <1>1, <1>2 DEF TimerOk, server
<1> QED
    BY <1>9, <1>10 DEF StreamInv

LEMMA LoseStep == ASSUME StreamInv, Lose PROVE StreamInv'
<1>1. /\ World /\ AppOk /\ CtrlOk(ctrl, rx_ring) /\ TimerOk
      /\ UNCHANGED <<ctrl, rx_ring, connects, app, appWait, conn, left, written, bytesRead, timer, peer>>
      /\ toServer' \subseteq toServer /\ toPeer' \subseteq toPeer
    BY DEF StreamInv, Lose, server, application
<1>2. AppStays /\ appWait' \in {"no", "listen", "conn", "woken", "timed_out"}
    BY <1>1 DEF AppStays, AppOk
<1>3. PICK c : c = ctrl
    OBVIOUS
<1>4. PICK ring : ring = rx_ring
    OBVIOUS
<1>5. World' /\ CtrlOk(c, ring)' /\ AppOk'
    BY <1>1, <1>2, <1>3, <1>4, StretchKept
<1>6. TimerOk'
    BY <1>1 DEF TimerOk
<1> QED
    BY <1>1, <1>3, <1>4, <1>5, <1>6 DEF StreamInv

\* Where a client is that has opened a connection.
LEMMA OnIs ==
    ASSUME Roomy, World, NEW p \in Port, NEW k \in 1 .. connects, NEW n \in 0 .. MaxWritten,
           NEW fin \in BOOLEAN, On(p, k, n, fin)
    PROVE  /\ Iss[k] \in Seqno /\ Len(peer[p].got) \in 0 .. n /\ Len(peer[p].got) \in Nat /\ n \in Nat
           /\ peer[p].got = Bytes(Len(peer[p].got))
           /\ \E f \in 0 .. 2 : /\ peer[p].rcv_nxt = At(k, 1 + Len(peer[p].got) + f)
                                /\ (f > 0 => fin /\ Len(peer[p].got) = n)
<1>1. k \in 1 .. Len(Iss)
    BY Sizes DEF World
<1>2. Len(peer[p].got) \in Nat /\ n \in Nat /\ Len(peer[p].got) <= n
    BY ClientIs, Sizes DEF On
<1>3. Iss[k] \in Seqno /\ Len(peer[p].got) \in 0 .. n
    BY <1>1, <1>2, Room
<1>4. \E f \in 0 .. 2 : /\ peer[p].rcv_nxt = At(k, 1 + Len(peer[p].got) + f)
                       /\ (f > 0 => fin /\ Len(peer[p].got) = n)
    BY DEF On
<1>5. peer[p].got = Bytes(Len(peer[p].got))
    BY DEF On
<1> QED
    BY <1>2, <1>3, <1>4, <1>5

\* A FIN in order comes after all bytes.
LEMMA FinTaken ==
    ASSUME Roomy, World, NEW p \in Port, NEW s \in toPeer, s.port = p, "FIN" \in s.flags,
           (peer[p].rcv_nxt - s.seq) % SeqWrap = 0,
           NEW q, peer'[p] = q, q.got = peer[p].got, q.rcv_nxt = Plus(peer[p].rcv_nxt, 1), Open(q),
           toServer' \subseteq toServer, toPeer' \subseteq toPeer
    PROVE  OnStays(p)
<1> SUFFICES ASSUME NEW k \in 1 .. connects, NEW n \in 0 .. MaxWritten, NEW fin \in BOOLEAN,
                    On(p, k, n, fin)
             PROVE  On(p, k, n, fin)'
    BY DEF OnStays
<1> DEFINE got == Len(peer[p].got)
<1>1. Iss[k] \in Seqno /\ got \in 0 .. n /\ got \in Nat /\ n \in Nat /\ peer[p].got = Bytes(got)
    BY OnIs
<1>2. PICK f \in 0 .. 2 : peer[p].rcv_nxt = At(k, 1 + got + f) /\ (f > 0 => fin /\ got = n)
    BY OnIs
<1>3. Downward(s, k, n, fin)
    BY DEF On
<1>4. PICK g \in {1, 2} : s.seq = At(k, g + n) /\ fin
    BY <1>3 DEF Downward
<1> HIDE DEF got
<1> DEFINE i == 1 + got + f
           j == g + n
<1>5. /\ i \in Nat /\ j \in Nat /\ i < SeqWrap /\ j < SeqWrap /\ i + 1 < SeqWrap /\ SeqWrap \in Nat
    <2>1. /\ got \in Nat /\ n \in Nat /\ got <= n /\ n <= MaxWritten /\ MaxWritten \in Nat /\ SeqWrap \in Nat
          /\ 2 * (MaxWritten + 4) < SeqWrap
        BY <1>1, Room
    <2>2. f \in Nat /\ f <= 2 /\ g \in Nat /\ g <= 2
        BY <1>2, <1>4
    <2> QED BY <2>1, <2>2
<1>6. i = j
    <2>1. (Plus(Iss[k], i) - Plus(Iss[k], j)) % SeqWrap = IF i >= j THEN i - j ELSE i - j + SeqWrap
        <3> HIDE DEF i, j
        <3> QED BY <1>1, <1>5, PlusDiff
    <2>2. (Plus(Iss[k], i) - Plus(Iss[k], j)) % SeqWrap = 0
        BY <1>2, <1>4 DEF At
    <2> HIDE DEF i, j
    <2> QED BY <1>5, <2>1, <2>2
<1>7. got = n /\ f + 1 \in 0 .. 2 /\ 1 + got + (f + 1) = i + 1
    BY <1>1, <1>2, <1>4, <1>6
<1>8. q.rcv_nxt = At(k, i + 1)
    <2>1. q.rcv_nxt = Plus(Plus(Iss[k], i), 1)
        BY <1>2 DEF At
    <2> HIDE DEF i
    <2>2. Plus(Plus(Iss[k], i), 1) = Plus(Iss[k], i + 1)
        BY <1>1, <1>5, PlusPlus
    <2> QED BY <2>1, <2>2 DEF At
<1>9. PICK f2 : f2 = f + 1
    OBVIOUS
<1>10. f2 \in 0 .. 2 /\ q.rcv_nxt = At(k, 1 + got + f2) /\ fin /\ got = n
    BY <1>4, <1>7, <1>8, <1>9
<1>11. \A x \in toServer' : x.port = p => Acks(x, k, got, fin)
    BY DEF On, got
<1>12. \A x \in toPeer' : x.port = p => Downward(x, k, n, fin)
    BY DEF On
<1>13. Len(q.got) = got /\ q.got = Bytes(got) /\ got <= n
    BY <1>1 DEF got
<1> QED
    BY <1>10, <1>11, <1>12, <1>13 DEF On

\* More of the stream is acknowledged when more of it has arrived.
LEMMA AcksGrow ==
    ASSUME NEW s, NEW k, NEW got \in Nat, NEW fin \in BOOLEAN, Acks(s, k, got, fin),
           NEW got2 \in Nat, got <= got2
    PROVE  Acks(s, k, got2, fin)
<1> DEFINE a == IF fin THEN 2 ELSE 0
<1>1. a \in Nat
    OBVIOUS
<1>2. "ACK" \in s.flags => \E m \in 0 .. got + a : s.ack = At(k, 1 + m)
    BY DEF Acks
<1> HIDE DEF a
<1>3. \A m \in 0 .. got + a : m \in 0 .. got2 + a
    BY <1>1
<1>4. "ACK" \in s.flags => \E m \in 0 .. got2 + a : s.ack = At(k, 1 + m)
    BY <1>2, <1>3
<1> QED
    BY <1>4 DEF Acks, a

\* The bytes of segment s that client o has had.
Skipped(o, s, skip) == skip = (o.rcv_nxt - s.seq) % SeqWrap

\* Client q has, more than o, the m bytes of s after those that o has had.
HasPart(o, q, s, skip, m) ==
    /\ m \in 1 .. Len(s.data) - skip
    /\ q.got = o.got \o SubSeq(s.data, skip + 1, skip + m)
    /\ q.rcv_nxt = Plus(o.rcv_nxt, m)

\* Data in order, or what is new of it, is the next of the stream.
LEMMA DataTaken ==
    ASSUME Roomy, World, NEW p \in Port, NEW s \in toPeer, s.port = p, s.data # <<>>,
           NEW skip, Skipped(peer[p], s, skip), skip < Len(s.data),
           NEW m, NEW q, peer'[p] = q, HasPart(peer[p], q, s, skip, m), Open(q),
           toServer' \subseteq toServer, toPeer' \subseteq toPeer
    PROVE  OnStays(p)
<1>0. /\ m \in 1 .. Len(s.data) - skip
      /\ q.got = peer[p].got \o SubSeq(s.data, skip + 1, skip + m)
      /\ q.rcv_nxt = Plus(peer[p].rcv_nxt, m)
    BY DEF HasPart
<1> SUFFICES ASSUME NEW k \in 1 .. connects, NEW n \in 0 .. MaxWritten, NEW fin \in BOOLEAN,
                    On(p, k, n, fin)
             PROVE  On(p, k, n, fin)'
    BY DEF OnStays
<1> DEFINE got == Len(peer[p].got)
           len == Len(s.data)
<1>1. Iss[k] \in Seqno /\ got \in Nat /\ got <= n /\ n \in Nat /\ peer[p].got = Bytes(got)
    BY OnIs
<1>2. PICK f \in 0 .. 2 : peer[p].rcv_nxt = At(k, 1 + got + f) /\ (f > 0 => fin /\ got = n)
    BY OnIs
<1>3. Downward(s, k, n, fin)
    BY DEF On
<1>4. PICK i \in 0 .. n : s.seq = At(k, 1 + i) /\ s.data = Span(i, len) /\ i + len <= n
    BY <1>3 DEF Downward
<1>5. len \in Nat
    BY <1>3 DEF Downward
<1>6. \A x \in toServer : x.port = p => Acks(x, k, got, fin)
    BY DEF On
<1>7. m \in 1 .. len - skip /\ skip < len
    BY <1>0
<1> HIDE DEF got, len
<1> DEFINE a == 1 + got + f
           b == 1 + i
<1>8. /\ n <= MaxWritten /\ MaxWritten \in Nat /\ SeqWrap \in Nat /\ 2 * (MaxWritten + 4) < SeqWrap
      /\ i \in Nat /\ i <= n /\ f \in Nat /\ f <= 2
    BY <1>1, <1>2, <1>4, Room
<1>9. /\ a \in Nat /\ b \in Nat /\ a < SeqWrap /\ b < SeqWrap
    BY <1>1, <1>8
<1>10. skip = IF a >= b THEN a - b ELSE a - b + SeqWrap
    <2>1. (Plus(Iss[k], a) - Plus(Iss[k], b)) % SeqWrap = IF a >= b THEN a - b ELSE a - b + SeqWrap
        <3> HIDE DEF a, b
        <3> QED BY <1>1, <1>9, PlusDiff
    <2>2. skip = (Plus(Iss[k], a) - Plus(Iss[k], b)) % SeqWrap
        BY <1>2, <1>4 DEF At, Skipped
    <2> HIDE DEF a, b
    <2> QED BY <2>1, <2>2
<1>21. /\ skip \in Int /\ a - b = got + f - i
       /\ a >= b => skip = a - b
       /\ ~(a >= b) => skip = a - b + SeqWrap
    <2>1. a - b = got + f - i
        BY <1>1, <1>8
    <2> HIDE DEF a, b
    <2> QED BY <1>8, <1>9, <1>10, <2>1
<1>11. a >= b
    <2>1. CASE ~(a >= b)
        <3>1. skip = got + f - i + SeqWrap
            BY <1>21, <2>1
        <3>2. n < SeqWrap /\ n \in Nat /\ SeqWrap \in Nat
            BY <1>1, <1>8
        <3>3. i + len <= n /\ i \in Nat /\ len \in Nat /\ got \in Nat /\ f \in Nat
            BY <1>1, <1>4, <1>5, <1>8
        <3>4. got + f - i + SeqWrap < len
            BY <1>7, <3>1
        <3> HIDE DEF a, b
        <3> QED BY <3>2, <3>3, <3>4
    <2> QED BY <2>1
<1>12. f = 0
    <2>1. skip = got + f - i
        <3> HIDE DEF a, b
        <3> QED BY <1>11, <1>21
    <2>2. f > 0 => got = n
        BY <1>2
    <2>3. i + len <= n /\ skip < len
        BY <1>4, <1>7
    <2> HIDE DEF a, b
    <2>4. ASSUME f > 0 PROVE FALSE
        <3>1. skip = n + f - i
            BY <2>1, <2>2, <2>4
        <3>2. n - i < len
            BY <1>1, <1>5, <1>8, <2>3, <2>4, <3>1
        <3>3. len <= n - i
            BY <1>1, <1>5, <1>8, <2>3
        <3> QED BY <1>1, <1>5, <1>8, <3>2, <3>3
    <2> QED BY <1>8, <2>4
<1>13. /\ skip \in Nat /\ i + skip = got /\ skip \in 0 .. len /\ m \in 0 .. len - skip /\ m \in Nat
       /\ got + m \in Nat /\ got <= got + m /\ got + m <= n /\ 1 + got \in Nat /\ (1 + got) + m < SeqWrap
       /\ (1 + got) + m = 1 + (got + m) /\ 1 + got + f = 1 + got
    <2>1. skip = got - i /\ got >= i
        <3>1. skip = got + f - i
            <4> HIDE DEF a, b
            <4> QED BY <1>11, <1>21
        <3>2. got + f >= i
            BY <1>1, <1>8, <1>11
        <3> QED BY <1>1, <1>8, <1>12, <3>1, <3>2
    <2>2. m \in Nat /\ m <= len - skip
        BY <1>5, <1>7, <1>21
    <2>3. skip \in Nat /\ i + skip = got /\ skip \in 0 .. len
        BY <1>1, <1>5, <1>7, <1>8, <2>1
    <2>4. m \in 0 .. len - skip /\ i + len <= n
        BY <1>4, <1>5, <2>2, <2>3
    <2>5. got + m \in Nat /\ got <= got + m /\ got + m <= n /\ 1 + got \in Nat
        BY <1>1, <1>5, <1>8, <2>2, <2>3, <2>4
    <2>6. (1 + got) + m < SeqWrap /\ (1 + got) + m = 1 + (got + m) /\ 1 + got + f = 1 + got
        BY <1>1, <1>8, <1>12, <2>2, <2>5
    <2> QED BY <2>2, <2>3, <2>4, <2>5, <2>6
<1>14. q.got = Bytes(got + m)
    <2>1. SubSeq(Span(i, len), skip + 1, skip + m) = Span(i + skip, m)
        <3>1. i \in Nat /\ len \in Nat /\ skip \in 0 .. len /\ m \in 0 .. len - skip
            BY <1>5, <1>8, <1>13
        <3> QED BY <3>1, SpanPart
    <2>2. SubSeq(s.data, skip + 1, skip + m) = Span(got, m)
        BY <1>4, <1>13, <2>1
    <2>3. Bytes(got) \o Span(got, m) = Bytes(got + m)
        BY <1>1, <1>13, BytesSpan
    <2> QED BY <1>0, <1>1, <2>2, <2>3
<1>15. q.rcv_nxt = At(k, 1 + (got + m))
    <2>1. Plus(Plus(Iss[k], 1 + got), m) = Plus(Iss[k], (1 + got) + m)
        BY <1>1, <1>13, PlusPlus
    <2> QED BY <1>0, <1>2, <1>13, <2>1 DEF At
<1>16. PICK g \in Nat : g = got + m
    BY <1>13
<1>17. Len(q.got) = g /\ q.got = Bytes(g) /\ g <= n
    BY <1>13, <1>14, <1>16, BytesSpan
<1>18. \A x \in toServer' : x.port = p => Acks(x, k, g, fin)
    BY <1>1, <1>6, <1>13, <1>16, AcksGrow
<1>19. \A x \in toPeer' : x.port = p => Downward(x, k, n, fin)
    BY DEF On
<1>20. \E f2 \in 0 .. 2 : q.rcv_nxt = At(k, 1 + g + f2) /\ (f2 > 0 => fin /\ g = n)
    <2>1. q.rcv_nxt = At(k, 1 + g + 0)
        BY <1>15, <1>16
    <2> QED BY <2>1
<1> QED
    BY <1>17, <1>18, <1>19, <1>20 DEF On

\* What a client makes of a segment.
TakesPart(o, q, s, skip) ==
    /\ s.data # <<>> /\ skip < Len(s.data)
    /\ \E n \in 1 .. Len(s.data) - skip :
          q = [o EXCEPT !.got = o.got \o SubSeq(s.data, skip + 1, skip + n),
                        !.rcv_nxt = Plus(o.rcv_nxt, n)]

LEMMA PeerTakesIs ==
    ASSUME NEW o, NEW s, NEW q \in PeerTakes(o, s),
           NEW skip, Skipped(o, s, skip)
    PROVE  \/ q = o
           \/ o.state = "open" /\ q = [o EXCEPT !.state = "gone"]
           \/ /\ o.state = "syn_sent" /\ {"SYN", "ACK"} \subseteq s.flags
              /\ q = [o EXCEPT !.state = "open", !.rcv_nxt = Plus(s.seq, 1)]
           \/ /\ o.state = "open" /\ "FIN" \in s.flags /\ skip = 0
              /\ q = [o EXCEPT !.rcv_nxt = Plus(o.rcv_nxt, 1)]
           \/ o.state = "open" /\ TakesPart(o, q, s, skip)
BY DEF PeerTakes, Skipped, TakesPart

LEMMA GoStep ==
    ASSUME StreamInv, NEW p \in Port, NEW q \in ClientType, peer' = [peer EXCEPT ![p] = q],
           GrownTo(peer[p], q), Open(q), OnStays(p), Opened(p),
           UNCHANGED <<server, application, timer, toServer>>, toPeer' \subseteq toPeer
    PROVE  StreamInv'
<1>1. World /\ AppOk /\ CtrlOk(ctrl, rx_ring) /\ TimerOk
    BY DEF StreamInv
<1>2. \A x \in toServer' : x \in toServer \/ (x.port = p /\ Upward(x, q))
    OBVIOUS
<1>3. World' /\ CtrlOk(ctrl, rx_ring)' /\ AppOk'
    BY <1>1, <1>2, ClientStep
<1>4. TimerOk'
    BY <1>1 DEF TimerOk, server
<1> QED
    BY <1>3, <1>4 DEF StreamInv

\* A client's SYN is answered: whichever connection it is, nothing of the
\* client's was acknowledged on it yet.
LEMMA OpenTaken ==
    ASSUME Roomy, World, NEW p \in Port, NEW s \in toPeer, s.port = p, ~Open(peer[p]),
           {"SYN", "ACK"} \subseteq s.flags,
           NEW q, peer'[p] = q, q.got = <<>>, q.rcv_nxt = Plus(s.seq, 1), Open(q),
           toServer' \subseteq toServer, toPeer' \subseteq toPeer
    PROVE  OnStays(p) /\ Opened(p)
<1>1. PeerOk(p) /\ \A x \in toPeer : x.port = p => Unopened(x)
    BY DEF World, PeerOk
<1>2. PICK k \in 1 .. connects : s.seq = At(k, 0)
    BY <1>1 DEF Unopened
<1>3. Iss[k] \in Seqno
    <2>1. k \in 1 .. Len(Iss)
        BY <1>2, Sizes DEF World
    <2> QED BY <2>1, Room
<1>4. q.rcv_nxt = At(k, 1 + 0 + 0)
    <2>1. Plus(Plus(Iss[k], 0), 1) = Plus(Iss[k], 0 + 1)
        BY <1>3, Room, PlusPlus
    <2> QED BY <1>2, <2>1 DEF At
<1>5. \A x \in toServer' : x.port = p => "ACK" \notin x.flags
    BY DEF World, Upward
<1>6. \A x \in toPeer' : x.port = p => Downward(x, k, 0, FALSE)
    BY <1>1, UnopenedDown
<1>7. Len(q.got) = 0 /\ q.got = Bytes(0)
    BY DEF Bytes
<1>8. On(p, k, 0, FALSE)'
    <2>1. \A x \in toServer' : x.port = p => Acks(x, k, 0, FALSE)
        BY <1>5 DEF Acks
    <2>2. \E f \in 0 .. 2 : q.rcv_nxt = At(k, 1 + 0 + f) /\ (f > 0 => FALSE /\ 0 = 0)
        BY <1>4
    <2>3. 0 <= 0
        OBVIOUS
    <2> QED BY <1>6, <1>7, <2>1, <2>2, <2>3 DEF On
<1>9. OnStays(p)
    BY DEF OnStays, On
<1> QED
    BY <1>2, <1>8, <1>9 DEF Opened

LEMMA PeerRecvStep == ASSUME Roomy, StreamInv, NEW s \in toPeer, PeerRecv(s) PROVE StreamInv'
<1>1. World
    BY DEF StreamInv
<1>2. PICK p \in Port : p = s.port
    BY <1>1 DEF World
<1>3. PICK q \in PeerTakes(peer[p], s) : peer' = [peer EXCEPT ![p] = q]
    BY <1>2 DEF PeerRecv
<1>4. PICK skip : Skipped(peer[p], s, skip)
    BY DEF Skipped
<1>5. /\ UNCHANGED <<server, application, timer>> /\ toPeer' \subseteq toPeer
      /\ IF peer[p].state \in {"new", "gone"} /\ "RST" \notin s.flags
         THEN PeerSend(p, s.ack, {"RST"}, <<>>) ELSE UNCHANGED toServer
    BY <1>2 DEF PeerRecv
<1>6. /\ peer[p] \in ClientType /\ peer \in [Port -> ClientType]
      /\ peer[p].sent \in Nat /\ peer[p].got \in Seq(Nat) /\ Len(peer[p].got) \in Nat /\ peer[p].fin \in BOOLEAN
      /\ ~Open(peer[p]) => peer[p].got = <<>> /\ peer[p].sent = 0 /\ ~peer[p].fin
      /\ peer[p].rcv_nxt \in Seqno
    BY <1>1, ClientIs
<1>7. peer'[p] = q
    BY <1>3, <1>6
<1>8. \E x : /\ x.port = p /\ Upward(x, peer[p]) /\ "ACK" \notin x.flags
             /\ toServer' \subseteq toServer \cup {x}
    <2>1. ASSUME NEW x, x.flags = {"RST"}, x.data = <<>> PROVE Upward(x, peer[p]) /\ "ACK" \notin x.flags
        BY <2>1, EmptySeq DEF Upward
    <2>2. CASE PeerSend(p, s.ack, {"RST"}, <<>>)
        <3>1. PICK x : /\ toServer' \subseteq toServer \cup {x} /\ x.port = p
                       /\ x.flags = {"RST"} /\ x.data = <<>>
            BY <2>2, PeerSendIs
        <3> QED BY <2>1, <3>1
    <2>3. CASE toServer' = toServer
        <3>1. PICK x : x = Segment(p, 0, 0, {"RST"}, <<>>)
            OBVIOUS
        <3>2. x.port = p /\ x.flags = {"RST"} /\ x.data = <<>>
            BY <3>1 DEF Segment
        <3> QED BY <2>1, <2>3, <3>2
    <2> QED BY <1>5, <2>2, <2>3
<1>9. CASE q = peer[p]
    <2>1. GrownTo(peer[p], q)
        BY <1>6, <1>9 DEF GrownTo
    <2> QED BY <1>3, <1>5, <1>6, <1>8, <1>9, <2>1, TalkStep
<1>10. CASE peer[p].state = "open" /\ q = [peer[p] EXCEPT !.state = "gone"]
    <2>1. Open(peer[p])
        BY <1>10 DEF Open
    <2>2. /\ q \in ClientType /\ GrownTo(peer[p], q) /\ q.state = "gone"
          /\ q.got = peer[p].got /\ q.rcv_nxt = peer[p].rcv_nxt
        BY <1>1, <1>10, StateGrown
    <2>3. Open(q)
        BY <2>2 DEF Open
    <2>4. PICK x : /\ x.port = p /\ Upward(x, peer[p]) /\ "ACK" \notin x.flags
                   /\ toServer' \subseteq toServer \cup {x}
        BY <1>8
    <2>5. Upward(x, q)
        BY <1>6, <2>2, <2>4, UpwardGrows
    <2> QED BY <1>3, <1>5, <2>1, <2>2, <2>3, <2>4, <2>5, TalkStep
<1>11. CASE /\ peer[p].state = "syn_sent" /\ {"SYN", "ACK"} \subseteq s.flags
            /\ q = [peer[p] EXCEPT !.state = "open", !.rcv_nxt = Plus(s.seq, 1)]
    <2>1. ~Open(peer[p]) /\ toServer' = toServer
        BY <1>5, <1>11 DEF Open
    <2>2. Plus(s.seq, 1) \in Seqno
        <3>1. SeqWrap \in Nat \ {0}
            BY Sizes
        <3>2. PICK k \in 1 .. connects : s.seq = At(k, 0)
            BY <1>1, <1>2, <1>11, <2>1 DEF World, PeerOk, Unopened
        <3>3. Iss[k] \in Seqno
            <4>1. k \in 1 .. Len(Iss)
                BY <1>1, <3>2, Sizes DEF World
            <4> QED BY <4>1, Room
        <3>4. s.seq \in Seqno
            BY <3>2, <3>3, Room, PlusValue DEF At
        <3> QED BY <3>4, Room, PlusValue
    <2>3. /\ q \in ClientType /\ q.state = "open" /\ q.got = <<>> /\ q.rcv_nxt = Plus(s.seq, 1)
          /\ q.got = peer[p].got /\ q.sent = peer[p].sent /\ q.fin = peer[p].fin
        BY <1>6, <1>11, <2>1, <2>2 DEF ClientType
    <2>4. Open(q) /\ GrownTo(peer[p], q)
        BY <1>6, <2>1, <2>3 DEF Open, GrownTo
    <2>5. OnStays(p) /\ Opened(p)
        BY <1>1, <1>2, <1>5, <1>7, <1>11, <2>1, <2>3, <2>4, OpenTaken
    <2> QED BY <1>3, <1>5, <2>1, <2>3, <2>4, <2>5, GoStep
<1>12. CASE /\ peer[p].state = "open" /\ "FIN" \in s.flags /\ skip = 0
            /\ q = [peer[p] EXCEPT !.rcv_nxt = Plus(peer[p].rcv_nxt, 1)]
    <2>1. Open(peer[p]) /\ toServer' = toServer
        BY <1>5, <1>12 DEF Open
    <2>2. Plus(peer[p].rcv_nxt, 1) \in Seqno
        BY <1>6, Room, PlusValue
    <2>3. /\ q \in ClientType /\ q.state = "open" /\ q.rcv_nxt = Plus(peer[p].rcv_nxt, 1)
          /\ q.got = peer[p].got /\ q.sent = peer[p].sent /\ q.fin = peer[p].fin
        BY <1>6, <1>12, <2>2 DEF ClientType
    <2>4. Open(q) /\ GrownTo(peer[p], q)
        BY <1>6, <2>3 DEF Open, GrownTo
    <2>5. (peer[p].rcv_nxt - s.seq) % SeqWrap = 0
        BY <1>4, <1>12 DEF Skipped
    <2>6. OnStays(p)
        BY <1>1, <1>2, <1>5, <1>7, <1>12, <2>1, <2>3, <2>4, <2>5, FinTaken
    <2>7. Opened(p)
        BY <2>1 DEF Opened
    <2> QED BY <1>3, <1>5, <2>1, <2>3, <2>4, <2>6, <2>7, GoStep
<1>13. CASE peer[p].state = "open" /\ TakesPart(peer[p], q, s, skip)
    <2>0. s.data # <<>> /\ skip < Len(s.data)
        BY <1>13 DEF TakesPart
    <2>1. Open(peer[p]) /\ toServer' = toServer
        BY <1>5, <1>13 DEF Open
    <2>2. PICK n \in 1 .. Len(s.data) - skip :
              q = [peer[p] EXCEPT !.got = peer[p].got \o SubSeq(s.data, skip + 1, skip + n),
                                  !.rcv_nxt = Plus(peer[p].rcv_nxt, n)]
        BY <1>13 DEF TakesPart
    <2> DEFINE part == SubSeq(s.data, skip + 1, skip + n)
               nxt == Plus(peer[p].rcv_nxt, n)
               got == peer[p].got \o part
    <2>3. s.data \in Seq(Nat) /\ skip \in Nat
        <3>1. PICK k \in 1 .. connects, m \in 0 .. MaxWritten, fin \in BOOLEAN : On(p, k, m, fin)
            BY <1>1, <2>1 DEF World, PeerOk
        <3>2. s.data \in Seq(Nat)
            BY <1>2, <3>1 DEF On, Downward
        <3>3. PICK i \in 0 .. m : s.seq = At(k, 1 + i)
            BY <1>2, <2>0, <3>1 DEF On, Downward
        <3>4. Iss[k] \in Seqno /\ 1 + i \in Nat /\ 1 + i < SeqWrap
            <4>1. Iss[k] \in Seqno
                BY <1>1, <3>1, OnIs
            <4>2. m \in Nat /\ m <= MaxWritten /\ i \in Nat /\ i <= m
                BY <3>1, <3>3, Sizes
            <4>3. 2 * (MaxWritten + 4) < SeqWrap /\ SeqWrap \in Nat /\ MaxWritten \in Nat
                BY Room
            <4>4. 1 + i \in Nat /\ 1 + i < SeqWrap
                BY <4>2, <4>3
            <4> QED BY <4>1, <4>4
        <3>5. s.seq \in Seqno
            BY <3>3, <3>4, PlusValue DEF At
        <3>6. skip = IF peer[p].rcv_nxt >= s.seq THEN peer[p].rcv_nxt - s.seq
                     ELSE peer[p].rcv_nxt - s.seq + SeqWrap
            BY <1>4, <1>6, <3>5, DiffValue DEF Skipped
        <3>7. peer[p].rcv_nxt \in 0 .. SeqWrap - 1 /\ s.seq \in 0 .. SeqWrap - 1 /\ SeqWrap \in Nat
            BY <1>6, <3>5, Sizes DEF Seqno
        <3>8. skip \in Nat
            <4>1. PICK v, w : v = peer[p].rcv_nxt /\ w = s.seq
                OBVIOUS
            <4>2. v \in 0 .. SeqWrap - 1 /\ w \in 0 .. SeqWrap - 1 /\ SeqWrap \in Nat
                BY <3>7, <4>1
            <4>3. skip = IF v >= w THEN v - w ELSE v - w + SeqWrap
                BY <3>6, <4>1
            <4> QED BY <4>2, <4>3
        <3> QED BY <3>2, <3>8
    <2>4. nxt \in Seqno
        <3>1. n \in Nat
            BY <2>3
        <3>2. SeqWrap \in Nat \ {0} /\ peer[p].rcv_nxt \in Nat
            BY <1>6, Sizes DEF Seqno
        <3> QED BY <3>1, <3>2 DEF Plus, Seqno
    <2>5. got \in Seq(Nat) /\ Len(peer[p].got) <= Len(got)
        <3>1. part \in Seq(Nat)
            <4>1. skip + 1 \in 1 .. Len(s.data) /\ skip + n \in 1 .. Len(s.data)
                BY <2>2, <2>3
            <4> QED BY <2>3, <4>1
        <3> HIDE DEF part
        <3> QED BY <1>6, <3>1
    <2> HIDE DEF part, nxt
    <2>6. q = [peer[p] EXCEPT !.got = got, !.rcv_nxt = nxt]
        BY <2>2 DEF part, nxt
    <2> HIDE DEF got
    <2>7. /\ q \in ClientType /\ q.state = "open" /\ q.rcv_nxt = nxt
          /\ q.got = got /\ q.sent = peer[p].sent /\ q.fin = peer[p].fin
        BY <1>6, <1>13, <2>4, <2>5, <2>6 DEF ClientType
    <2>8. Open(q) /\ GrownTo(peer[p], q)
        BY <1>6, <2>5, <2>7 DEF Open, GrownTo
    <2>9. OnStays(p)
        <3>1. HasPart(peer[p], q, s, skip, n)
            BY <2>2, <2>7 DEF got, part, nxt, HasPart
        <3>2. /\ s.port = p /\ s.data # <<>> /\ Skipped(peer[p], s, skip) /\ skip < Len(s.data)
              /\ peer'[p] = q /\ Open(q) /\ toServer' \subseteq toServer /\ toPeer' \subseteq toPeer
            BY <1>2, <1>4, <1>5, <1>7, <2>0, <2>1, <2>8
        <3> HIDE DEF got, part, nxt
        <3> QED BY <1>1, <3>1, <3>2, DataTaken
    <2>10. Opened(p)
        BY <2>1 DEF Opened
    <2> QED BY <1>3, <1>5, <2>1, <2>7, <2>8, <2>9, <2>10, GoStep
<1>14. \/ q = peer[p]
       \/ peer[p].state = "open" /\ q = [peer[p] EXCEPT !.state = "gone"]
       \/ /\ peer[p].state = "syn_sent" /\ {"SYN", "ACK"} \subseteq s.flags
          /\ q = [peer[p] EXCEPT !.state = "open", !.rcv_nxt = Plus(s.seq, 1)]
       \/ /\ peer[p].state = "open" /\ "FIN" \in s.flags /\ skip = 0
          /\ q = [peer[p] EXCEPT !.rcv_nxt = Plus(peer[p].rcv_nxt, 1)]
       \/ peer[p].state = "open" /\ TakesPart(peer[p], q, s, skip)
    BY <1>3, <1>4, PeerTakesIs
<1> QED
    BY <1>9, <1>10, <1>11, <1>12, <1>13, <1>14

LEMMA PeerStep == ASSUME Roomy, StreamInv, Peer PROVE StreamInv'
BY PeerSynStep, PeerDataStep, PeerAckStep, PeerFinStep, PeerAbortStep, PeerReturnsStep,
   PeerRecvStep DEF Peer

-----------------------------------------------------------------------------
(* The specification.                                                      *)

LEMMA StreamStart == ASSUME Init PROVE StreamInv
<1>1. ctrl = [Zero EXCEPT !.send_err = 0]
    <2>1. Zero = [Zero EXCEPT !.send_err = Zero.send_err]
        BY DEF Zero
    <2>2. Zero.send_err = 0
        BY DEF Zero
    <2> QED BY <2>1, <2>2 DEF Init
<1>2. CtrlType(ctrl) /\ FreeOk(ctrl) /\ ctrl.state = "CLOSED" /\ ctrl.retries = 0 /\ ctrl.send_err = 0
    BY <1>1, ZeroIs
<1>3. \A p \in Port : /\ peer[p].state = "new" /\ peer[p].got = <<>>
                      /\ peer[p].sent = 0 /\ peer[p].fin = FALSE /\ peer[p].rcv_nxt = 0
    BY DEF Init, NewPeer
<1>4. NewPeer \in ClientType
    BY Sizes, EmptySeq DEF NewPeer, ClientType
<1>5. World
    <2>1. connects \in 0 .. Len(Iss)
        BY Sizes DEF Init
    <2>2. peer \in [Port -> ClientType]
        BY <1>4 DEF Init
    <2>3. toServer = {} /\ toPeer = {}
        BY DEF Init
    <2>4. \A p \in Port : PeerOk(p)
        BY <1>3, <2>3 DEF PeerOk, Open
    <2> QED BY <2>1, <2>2, <2>3, <2>4 DEF World
<1>6. AppOk
    BY Sizes, EmptySeq DEF Init, AppOk, Bytes
<1>7. CtrlOk(ctrl, rx_ring)
    <2>1. StageOk(ctrl)
        BY <1>2 DEF Init, StageOk, Ending, connected
    <2> QED BY <1>2, <2>1 DEF CtrlOk, connected, Ending
<1>8. TimerOk
    BY <1>2 DEF Init, TimerOk
<1> QED
    BY <1>5, <1>6, <1>7, <1>8 DEF StreamInv

LEMMA StreamNext == ASSUME Roomy, StreamInv, [Next]_vars PROVE StreamInv'
<1>1. CASE \E s \in toServer : tcp_recv(s)
    BY <1>1, RecvStep
<1>2. CASE Timer
    BY <1>2, TimerStep
<1>3. CASE Application
    BY <1>3, ApplicationStep
<1>4. CASE Peer
    BY <1>4, PeerStep
<1>5. CASE Lose
    BY <1>5, LoseStep
<1>6. CASE UNCHANGED vars
    <2>1. /\ UNCHANGED <<ctrl, rx_ring, toServer, toPeer, peer>> /\ AppStays
          /\ appWait' = appWait /\ timer' = timer
        BY <1>6 DEF vars, AppStays
    <2>2. appWait' \in {"no", "listen", "conn", "woken", "timed_out"}
        BY <2>1 DEF StreamInv, AppOk
    <2>3. World' /\ CtrlOk(ctrl, rx_ring)' /\ AppOk'
        BY <2>1, <2>2, StaysStep
    <2>4. TimerOk'
        BY <2>1 DEF StreamInv, TimerOk
    <2> QED BY <2>3, <2>4 DEF StreamInv
<1> QED
    BY <1>1, <1>2, <1>3, <1>4, <1>5, <1>6 DEF Next

LEMMA StreamHolds == Roomy /\ Spec => []StreamInv
<1> SUFFICES ASSUME Roomy PROVE Spec => []StreamInv
    OBVIOUS
<1>1. Init => StreamInv
    BY StreamStart
<1>2. StreamInv /\ [Next]_vars => StreamInv'
    BY StreamNext
<1> QED
    BY <1>1, <1>2, PTL DEF Spec

-----------------------------------------------------------------------------
(* What the invariant says of the two streams.                             *)

\* No two numbers of a connection are half the sequence space apart.
LEMMA NotHalf ==
    ASSUME Roomy, Iss[connects] \in Seqno, NEW i \in 0 .. MaxWritten + 3, NEW j \in 0 .. MaxWritten + 3
    PROVE  2 * ((At(connects, i) - At(connects, j)) % SeqWrap) # SeqWrap
<1>1. /\ i \in Nat /\ j \in Nat /\ i <= MaxWritten + 3 /\ j <= MaxWritten + 3
      /\ SeqWrap \in Nat /\ MaxWritten \in Nat /\ 2 * (MaxWritten + 4) < SeqWrap
      /\ i < SeqWrap /\ j < SeqWrap
    BY Room
<1> DEFINE d == (At(connects, i) - At(connects, j)) % SeqWrap
<1>2. d = IF i >= j THEN i - j ELSE i - j + SeqWrap
    BY <1>1, PlusDiff DEF At
<1> HIDE DEF d
<1>3. 2 * d # SeqWrap
    BY <1>1, <1>2
<1> QED
    BY <1>3 DEF d

\* The number the server waits to have acknowledged, with nothing outstanding.
LEMMA AllAcked ==
    ASSUME Roomy, StreamInv, ctrl.remote \in Port, ~Outstanding(ctrl)
    PROVE  \E fin \in BOOLEAN, j \in 0 .. MaxWritten + 3 :
               On(ctrl.remote, connects, Sent, fin) /\ ctrl.snd_una = At(connects, j) /\ connects > 0
<1>1. World /\ AppOk /\ CtrlOk(ctrl, rx_ring)
    BY DEF StreamInv
<1>2. Sent \in 0 .. MaxWritten /\ MaxWritten \in Nat
    BY <1>1, SentBounds, Sizes
<1>3. ctrl.state \notin {"CLOSED", "LISTEN"} /\ ctrl.state \in State
    BY <1>1, Sizes DEF CtrlOk, FreeOk, CtrlType
<1>4. CASE ctrl.state = "SYN_RCVD"
    <2>1. connects > 0 /\ ctrl.snd_una = At(connects, 0) /\ ctrl.snd_nxt = At(connects, 1)
        BY <1>1, <1>4 DEF CtrlOk, OpeningOk
    <2>2. connects \in 1 .. Len(Iss)
        BY <1>1, <2>1 DEF World
    <2>3. Iss[connects] \in Seqno
        BY <2>2, Room
    <2>4. 0 \in 0 .. MaxWritten + 3 /\ 1 \in 0 .. MaxWritten + 3 /\ 0 # 1
        BY <1>2
    <2>5. At(connects, 0) # At(connects, 1)
        BY <2>3, <2>4, AtOrder
    <2> QED BY <2>1, <2>5 DEF Outstanding
<1>5. CASE connected(ctrl)
    <2>1. ConnOk(ctrl, rx_ring)
        BY <1>1, <1>5 DEF CtrlOk
    <2>2. PICK u \in 0 .. Sent : ctrl.snd_una = At(connects, 1 + u)
        BY <2>1 DEF ConnOk, SendOk
    <2>3. 1 + u \in 0 .. MaxWritten + 3
        BY <1>2, <2>2
    <2> QED BY <2>1, <2>2, <2>3 DEF ConnOk
<1>6. CASE Ending(ctrl)
    <2>1. EndingOk(ctrl)
        BY <1>1, <1>6 DEF CtrlOk
    <2>2. PICK f \in {1, 2} : ctrl.snd_una = At(connects, f + Sent)
        BY <2>1 DEF EndingOk
    <2>3. f + Sent \in 0 .. MaxWritten + 3
        BY <1>2, <2>2
    <2> QED BY <2>1, <2>2, <2>3 DEF EndingOk
<1> QED
    BY <1>3, <1>4, <1>5, <1>6 DEF State, connected, Ending

LEMMA AcksStaySane == ASSUME Roomy, StreamInv PROVE AcksSane
<1> SUFFICES ASSUME NEW s \in toServer, "ACK" \in s.flags PROVE AckSane(s)
    BY DEF AcksSane, AckSane
<1>1. World /\ AppOk
    BY DEF StreamInv
<1>2. PICK p \in Port : p = s.port
    BY <1>1 DEF World
<1>3. Open(peer[p])
    BY <1>1, <1>2 DEF World, Upward
<1>4. PICK k \in 1 .. connects, n \in 0 .. MaxWritten, fin \in BOOLEAN : On(p, k, n, fin)
    BY <1>1, <1>3 DEF World, PeerOk
<1>5. s.ack \in Seqno
    <2>1. PICK m \in 0 .. Len(peer[p].got) + (IF fin THEN 2 ELSE 0) : s.ack = At(k, 1 + m)
        BY <1>2, <1>4 DEF On, Acks
    <2>2. Iss[k] \in Seqno /\ Len(peer[p].got) \in 0 .. n /\ n \in Nat
        BY <1>1, <1>4, OnIs
    <2>3. n <= MaxWritten /\ MaxWritten \in Nat /\ SeqWrap \in Nat /\ 2 * (MaxWritten + 4) < SeqWrap
        BY <1>4, Room
    <2>4. 1 + m \in Nat /\ 1 + m < SeqWrap
        <3> DEFINE got == Len(peer[p].got)
                   d == IF fin THEN 2 ELSE 0
        <3>1. d \in {0, 2} /\ got \in 0 .. n /\ m \in 0 .. got + d
            BY <2>1, <2>2
        <3> HIDE DEF got, d
        <3> QED BY <2>2, <2>3, <3>1
    <2> QED BY <2>1, <2>2, <2>4, PlusValue DEF At
<1>6. ASSUME s.port = ctrl.remote, ~Outstanding(ctrl)
      PROVE  2 * ((ctrl.snd_una - s.ack) % SeqWrap) # SeqWrap
    <2>1. PICK g \in BOOLEAN, j \in 0 .. MaxWritten + 3 :
              On(p, connects, Sent, g) /\ ctrl.snd_una = At(connects, j) /\ connects > 0
        BY <1>2, <1>6, AllAcked
    <2>2. Sent \in 0 .. MaxWritten /\ MaxWritten \in Nat
        BY <1>1, SentBounds, Sizes
    <2>3. PICK z \in 0 .. MaxWritten : z = Sent
        BY <2>2
    <2>4. On(p, connects, z, g)
        BY <2>1, <2>3
    <2>5. /\ Acks(s, connects, Len(peer[p].got), g)
          /\ Len(peer[p].got) \in 0 .. z /\ Iss[connects] \in Seqno
        <3>1. s.port = p /\ connects > 0 /\ World
            BY <1>1, <1>2, <2>1
        <3> QED BY <2>4, <3>1, AckOn
    <2>6. PICK m \in 0 .. Len(peer[p].got) + (IF g THEN 2 ELSE 0) : s.ack = At(connects, 1 + m)
        BY <2>5 DEF Acks
    <2>7. 1 + m \in 0 .. MaxWritten + 3
        <3> DEFINE got == Len(peer[p].got)
                   d == IF g THEN 2 ELSE 0
        <3>1. d \in {0, 2} /\ got \in 0 .. z /\ m \in 0 .. got + d
            BY <2>5, <2>6
        <3> HIDE DEF got, d
        <3> QED BY <2>2, <2>3, <3>1
    <2> QED BY <2>1, <2>5, <2>6, <2>7, NotHalf
<1> QED
    BY <1>5, <1>6 DEF AckSane

\* The sequence numbers stay unsigneds and the ring's two counters a ring's
\* length apart at most, the application's places and the timer's are those of
\* tcp.c, and no acknowledgement of a client is half the space away.
THEOREM StreamTypes == Roomy /\ Spec => []TypeOK
<1> SUFFICES ASSUME Roomy PROVE Spec => []TypeOK
    OBVIOUS
<1>1. StreamInv => TypeOK
    <2> SUFFICES ASSUME StreamInv PROVE TypeOK
        OBVIOUS
    <2>1. CtrlType(ctrl) /\ AppOk /\ World /\ TimerOk
        BY DEF StreamInv, CtrlOk
    <2>2. {ctrl.snd_una, ctrl.snd_nxt, ctrl.rcv_nxt} \subseteq Seqno
        BY <2>1 DEF CtrlType, IsCtrl
    <2> QED BY <2>1, <2>2, AcksStaySane DEF TypeOK, CtrlType, AppOk, World, TimerOk
<1> QED
    BY <1>1, StreamHolds, PTL

\* tcp_conn_read gives the bytes the client sent, in order, none twice and none
\* missing, whatever the network loses, repeats and reorders; the end of the
\* file is all the client sent before its FIN.
THEOREM ReadsWhatWasSent == Roomy /\ Spec => []StreamIn
<1> SUFFICES ASSUME Roomy PROVE Spec => []StreamIn
    OBVIOUS
<1>1. StreamInv => StreamIn
    <2> SUFFICES ASSUME StreamInv, app \in {"open", "reading", "writing"}
                 PROVE  /\ bytesRead \o Unread = Bytes(Len(bytesRead \o Unread))
                        /\ ctrl.rx_eof => /\ peer[conn].fin
                                          /\ Len(bytesRead \o Unread) = peer[conn].sent
        BY DEF StreamIn
    <2> DEFINE b == Len(bytesRead)
               n == Queued(ctrl)
    <2>1. CtrlOk(ctrl, rx_ring) /\ AppOk
        BY DEF StreamInv
    <2>2. b \in Nat /\ bytesRead = Bytes(b) /\ bytesRead \in Seq(Nat)
        BY <2>1 DEF AppOk
    <2>3. n \in Nat /\ StageOk(ctrl)
        BY <2>1 DEF CtrlOk, CtrlType
    <2>4. Unread = Taken(ctrl, rx_ring, n)
        BY DEF Unread, Taken
    <2>5. CASE ctrl.state = "CLOSED"
        <3>1. n = 0 /\ ~ctrl.rx_eof
            BY <2>1, <2>5 DEF CtrlOk, FreeOk, Queued
        <3>2. Unread = <<>>
            BY <2>4, <3>1 DEF Taken
        <3>3. bytesRead \o Unread = bytesRead
            BY <2>2, <3>2
        <3> QED BY <2>2, <3>1, <3>3
    <2>6. CASE connected(ctrl) /\ ctrl.remote = conn
        <3>1. RecvOk(ctrl, rx_ring)
            BY <2>1, <2>6 DEF CtrlOk, ConnOk
        <3>2. n \in 0 .. n
            BY <2>3
        <3>3. Unread = Span(b, n)
            BY <2>2, <2>3, <2>4, <3>1, <3>2, ReadSpan
        <3> HIDE DEF b, n
        <3>4. bytesRead \o Unread = Bytes(b + n) /\ Len(Bytes(b + n)) = b + n
            <4>1. b + n \in Nat
                BY <2>2, <2>3
            <4> QED BY <2>2, <2>3, <3>3, <4>1, BytesSpan
        <3>5. ctrl.rx_eof => peer[conn].fin /\ b + n = peer[conn].sent
            BY <2>6, <3>1 DEF RecvOk, connected, b, n
        <3> QED BY <3>4, <3>5
    <2> QED BY <2>3, <2>5, <2>6 DEF StageOk
<1> QED
    BY <1>1, StreamHolds, PTL

\* Whatever the client takes for the next of its stream, from whichever
\* repetition of whichever part, is what the application wrote next.
THEOREM SendsWhatWasWritten == Roomy /\ Spec => []StreamOut
<1> SUFFICES ASSUME Roomy PROVE Spec => []StreamOut
    OBVIOUS
<1>1. StreamInv => StreamOut
    <2> SUFFICES ASSUME StreamInv, NEW p \in Port PROVE peer[p].got = Bytes(Len(peer[p].got))
        BY DEF StreamOut
    <2>1. PeerOk(p)
        BY DEF StreamInv, World
    <2>2. CASE Open(peer[p])
        BY <2>1, <2>2 DEF PeerOk, On
    <2>3. CASE ~Open(peer[p])
        BY <2>1, <2>3, EmptySeq DEF PeerOk, Bytes
    <2> QED BY <2>2, <2>3
<1> QED
    BY <1>1, StreamHolds, PTL

\* tcp.h:9: a chunk that send_data has returned 0 for has reached the client,
\* every byte of it.
THEOREM AckedHasArrived == Roomy /\ Spec => []AckedArrived
<1> SUFFICES ASSUME Roomy PROVE Spec => []AckedArrived
    OBVIOUS
<1>1. StreamInv => AckedArrived
    BY DEF StreamInv, AppOk, AckedArrived
<1> QED
    BY <1>1, StreamHolds, PTL

\* The assumption of TimerStaysArmed holds of roomy connections: while a
\* segment is outstanding the timer's process is counting.
THEOREM TimerArmed == Roomy /\ Spec => []RtoArmed
<1>1. Roomy /\ StreamInv => AcksSane
    BY AcksStaySane
<1>2. Roomy /\ Spec => []AcksSane
    <2> SUFFICES ASSUME Roomy PROVE Spec => []AcksSane
        OBVIOUS
    <2>1. StreamInv => AcksSane
        BY <1>1
    <2> QED BY <2>1, StreamHolds, PTL
<1> QED
    BY <1>2, TimerStaysArmed, PTL
=============================================================================
