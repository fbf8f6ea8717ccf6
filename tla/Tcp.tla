-------------------------------- MODULE Tcp --------------------------------
(***************************************************************************)
(* The one-connection tcp server of teatime-os (src/device/net/tcp.c): the *)
(* application that accepts, reads, writes and closes, the receive path    *)
(* that ipv4_proc runs, the retransmission timer's process, and the peers  *)
(* at the other end of a network that loses, repeats, delays and reorders. *)
(*                                                                         *)
(* Every access to tcp_ctrl is made with tcp_ctrl_mutex held, so the code  *)
(* between taking the mutex and giving it up (unlock or wait) is one step. *)
(* A condition wait that was signalled, or timed out, continues in a later *)
(* step, when the mutex has been taken again.  Delays are not measured: a  *)
(* timed wait may end at any moment.                                       *)
(*                                                                         *)
(* A peer is one port of a remote host.  Bytes are numbered, in each       *)
(* direction, in the order they are written.                               *)
(***************************************************************************)
EXTENDS Integers, SequencesExt

CONSTANTS
    Port,        \* the remote ports that connect
    NoPort,      \* remote_port after a memset
    Isn,         \* a peer's initial sequence number
    Iss,         \* the initial sequence numbers rng_read() gives, in turn
    SeqWrap,     \* sequence numbers are unsigneds of this many values
    Mss,         \* TCP_MSS
    RingSize,    \* RX_RING_SIZE
    Window,      \* TCP_WINDOW
    MaxRetries,  \* MAX_RETRIES
    ReadMax,     \* n of a read()
    WriteLen,    \* n of a write()
    PeerBytes,   \* bytes a peer sends before its FIN
    MaxWritten,  \* bound on the bytes the application writes to a connection
    NetCap       \* bound on the segments under way

Seqno == 0 .. SeqWrap - 1
Slot == 0 .. RingSize - 1

ASSUME TcpAssumption ==
    /\ SeqWrap \in Nat \ {0} /\ RingSize \in Nat \ {0}
    /\ {Mss, Window, ReadMax, WriteLen} \subseteq Nat \ {0}
    /\ MaxRetries \in Nat \ {0}   \* with 0 a spurious timeout would clear send_err
    /\ {PeerBytes, MaxWritten, NetCap} \subseteq Nat
    /\ Isn \in Seqno /\ Iss \in Seq(Seqno)
    /\ NoPort \notin Port

VARIABLES
    ctrl,        \* tcp_ctrl
    rx_ring,
    listening,   \* listener.port # 0
    connects,    \* connections begun (numbers taken from rng_read)
    app,         \* what the application is doing
    appWait,     \* the condition it is parked on, or how its wait ended
    conn,        \* the port of the connection it accepted
    left,        \* bytes its write() has still to send
    written,     \* bytes of that connection it knows to be acknowledged
    bytesRead,   \* the bytes it has read from that connection
    timer,       \* how tcp_timer_proc waits, or how its wait ended
    toServer, toPeer,   \* the segments under way
    peer         \* the peers, by port

server == <<ctrl, rx_ring, connects>>
application == <<listening, app, appWait, conn, left, written, bytesRead>>
vars == <<ctrl, rx_ring, listening, connects, app, appWait, conn, left,
          written, bytesRead, timer, toServer, toPeer, peer>>

State == {"CLOSED", "LISTEN", "SYN_RCVD", "ESTABLISHED", "CLOSE_WAIT",
          "FIN_WAIT_1", "FIN_WAIT_2", "LAST_ACK"}

\* memset(&tcp_ctrl, 0, sizeof(tcp_ctrl)).
Zero == [state |-> "CLOSED", remote |-> NoPort, snd_una |-> 0, snd_nxt |-> 0,
         rcv_nxt |-> 0, tx_flags |-> {}, tx_data |-> <<>>, retries |-> 0,
         sender |-> FALSE, send_err |-> 0, rx_head |-> 0, rx_tail |-> 0,
         rx_eof |-> FALSE]

\* Wrong: the sum does not wrap.
Plus_Wide(a, n) == a + n

Plus(a, n) == (a + n) % SeqWrap
\* (int)(a - b) on sequence numbers.
Diff(a, b) ==
    LET d == (a - b) % SeqWrap IN IF 2 * d >= SeqWrap THEN d - SeqWrap ELSE d
SEQ_LT(a, b) == Diff(a, b) < 0
SEQ_LEQ(a, b) == Diff(a, b) <= 0

connected(c) == c.state \in {"ESTABLISHED", "CLOSE_WAIT"}
Outstanding(c) == c.snd_una # c.snd_nxt
Queued(c) == c.rx_head - c.rx_tail
rx_room(c) == RingSize - Queued(c)

-----------------------------------------------------------------------------
(* What a stretch of code under the mutex does: the tcp_ctrl it leaves, the *)
(* segments it sends and the conditions it signals, built up call by call.  *)

Begin == [c |-> ctrl, ring |-> rx_ring, sent |-> {}, woken |-> {}]

Segment(port, seq, ack, flags, data) ==
    [port |-> port, seq |-> seq, ack |-> ack, flags |-> flags, data |-> data]

Signal(e, cond) == [e EXCEPT !.woken = @ \cup {cond}]

send(e, seq, flags, data) ==
    [e EXCEPT !.sent = @ \cup {Segment(e.c.remote, seq, e.c.rcv_nxt, flags, data)}]

send_ack(e) == send(e, e.c.snd_nxt, {"ACK"}, <<>>)

\* Wrong: a partial acknowledgement does not move the data along.
send_unacked_FromStart(e) == send(e, e.c.snd_una, e.c.tx_flags, e.c.tx_data)

\* The part of the last segment that is not acknowledged.
send_unacked(e) ==
    LET outstanding == (e.c.snd_nxt - e.c.snd_una) % SeqWrap
        len == Len(e.c.tx_data)
        acked == IF outstanding < len THEN len - outstanding ELSE 0
    IN  send(e, e.c.snd_una, e.c.tx_flags, SubSeq(e.c.tx_data, acked + 1, len))

\* Wrong: the timer's process is not told.
send_new_Silent(e, flags, data) ==
    send_unacked([e EXCEPT !.c.tx_flags = flags, !.c.tx_data = data,
                           !.c.retries = 0])

send_new(e, flags, data) ==
    Signal(send_unacked([e EXCEPT !.c.tx_flags = flags, !.c.tx_data = data,
                                  !.c.retries = 0]), "rto")

\* Wrong: whoever is blocked on the connection is not told.
disconnect_Silent(e) ==
    Signal([e EXCEPT !.c = [Zero EXCEPT !.send_err = IF e.c.sender THEN -1 ELSE 0]],
           "listen")

disconnect(e) ==
    Signal(Signal([e EXCEPT !.c = [Zero EXCEPT !.send_err =
                                      IF e.c.sender THEN -1 ELSE 0]],
                  "conn"), "listen")

rx_put(e, data) ==
    [e EXCEPT !.ring = [i \in Slot |->
                  IF \E k \in DOMAIN data : (e.c.rx_head + k - 1) % RingSize = i
                  THEN data[CHOOSE k \in DOMAIN data :
                               (e.c.rx_head + k - 1) % RingSize = i]
                  ELSE e.ring[i]],
              !.c.rx_head = @ + Len(data)]

\* The effect becomes the next state.  Each segment sent may be lost; one to
\* the zeroed address reaches nobody.
Commit(e, in) ==
    /\ toServer' = in
    /\ ctrl' = e.c /\ rx_ring' = e.ring
    /\ \E kept \in SUBSET {s \in e.sent : s.port \in Port} :
          toPeer' = toPeer \cup kept
    /\ Cardinality(toServer') + Cardinality(toPeer') <= NetCap

\* Signals reach the processes that are parked on the condition.
WakeTimer(e) ==
    timer' = IF "rto" \in e.woken /\ timer \in {"idle", "rto"} THEN "woken" ELSE timer
WakeApp(e) ==
    appWait' = IF appWait \in e.woken THEN "woken" ELSE appWait

-----------------------------------------------------------------------------
(* tcp_recv.                                                               *)

Opens(s) == ctrl.state = "LISTEN" /\ "SYN" \in s.flags /\ s.flags \cap {"RST", "ACK"} = {}

RecvListen(s) ==
    LET iss == Iss[connects + 1]
    IN  IF Opens(s)
        THEN send_new([Begin EXCEPT !.c.remote = s.port,
                                    !.c.rcv_nxt = Plus(s.seq, 1),
                                    !.c.snd_una = iss,
                                    !.c.snd_nxt = Plus(iss, 1),
                                    !.c.state = "SYN_RCVD"],
                      {"SYN", "ACK"}, <<>>)
        ELSE IF "ACK" \in s.flags /\ "RST" \notin s.flags
        THEN [Begin EXCEPT !.sent = {Segment(s.port, s.ack, 0, {"RST"}, <<>>)}]
        ELSE Begin

\* Nothing is outstanding any more: a sender is released, the state moves on.
Acknowledged(e) ==
    LET f == Signal(e, "rto")
        g == IF f.c.sender
             THEN Signal([f EXCEPT !.c.sender = FALSE, !.c.send_err = 0], "conn") ELSE f
    IN  CASE g.c.state = "SYN_RCVD" -> Signal([g EXCEPT !.c.state = "ESTABLISHED"], "listen")
          [] g.c.state = "FIN_WAIT_1" -> [g EXCEPT !.c.state = "FIN_WAIT_2"]
          [] g.c.state = "LAST_ACK" -> disconnect(g)
          [] OTHER -> g

NewAck(c, s) == "ACK" \in s.flags /\ SEQ_LT(c.snd_una, s.ack) /\ SEQ_LEQ(s.ack, c.snd_nxt)

\* Wrong: an acknowledgement of a part is taken for one of the whole.
TakeAck_Partial(e, s) ==
    IF NewAck(e.c, s) THEN Acknowledged([e EXCEPT !.c.snd_una = e.c.snd_nxt]) ELSE e

TakeAck(e, s) ==
    LET f == [e EXCEPT !.c.snd_una = s.ack]
    IN  IF ~NewAck(e.c, s) THEN e
        ELSE IF Outstanding(f.c) THEN f ELSE Acknowledged(f)

\* Wrong: data is taken wherever it begins.
TakeData_Unordered(e, s) ==
    IF Len(s.data) > rx_room(e.c) THEN send_ack(e)
    ELSE LET f == [e EXCEPT !.c.rcv_nxt = Plus(@, Len(s.data))]
             g == IF f.c.state = "ESTABLISHED" THEN rx_put(f, s.data) ELSE f
         IN  Signal(send_ack(g), "conn")

Acceptable(c, s) == s.seq = c.rcv_nxt /\ Len(s.data) <= rx_room(c)

\* Data after our FIN is acknowledged and dropped.
TakeData(e, s) ==
    IF ~Acceptable(e.c, s) THEN send_ack(e)
    ELSE LET f == [e EXCEPT !.c.rcv_nxt = Plus(@, Len(s.data))]
             g == IF f.c.state = "ESTABLISHED" THEN rx_put(f, s.data) ELSE f
         IN  Signal(send_ack(g), "conn")

TakeFin(e, s) ==
    LET f == send_ack([e EXCEPT !.c.rcv_nxt = Plus(@, 1)])
    IN  IF s.data = <<>> /\ s.seq # e.c.rcv_nxt THEN send_ack(e)
        ELSE CASE e.c.state = "ESTABLISHED" ->
                     Signal([f EXCEPT !.c.state = "CLOSE_WAIT", !.c.rx_eof = TRUE], "conn")
               [] e.c.state = "FIN_WAIT_2" -> disconnect(f)
               [] OTHER -> e

\* A segment of the connection, neither RST nor a repeated SYN.
RecvSegment(s) ==
    LET a == TakeAck(Begin, s)
        d == IF s.data # <<>> /\ a.c.state # "CLOSED" THEN TakeData(a, s) ELSE a
    IN  IF a.c.state = "CLOSED" \/ "FIN" \notin s.flags THEN d
        ELSE IF s.data # <<>> /\ ~Acceptable(a.c, s) THEN d
        ELSE TakeFin(d, s)

InWindow(s) == SEQ_LEQ(ctrl.rcv_nxt, s.seq) /\ SEQ_LT(s.seq, Plus(ctrl.rcv_nxt, Window))

recv(s) ==
    IF ctrl.state = "LISTEN" THEN RecvListen(s)
    ELSE IF ctrl.state = "CLOSED" \/ s.port # ctrl.remote THEN Begin
    ELSE IF "RST" \in s.flags THEN IF InWindow(s) THEN disconnect(Begin) ELSE Begin
    ELSE IF "SYN" \in s.flags /\ ctrl.state = "SYN_RCVD" THEN send_unacked(Begin)
    ELSE RecvSegment(s)

\* A segment arrives; the network may deliver it again later.
tcp_recv(s) ==
    /\ s \in toServer
    /\ Opens(s) => connects < Len(Iss)
    /\ connects' = IF Opens(s) THEN connects + 1 ELSE connects
    /\ \E in \in {toServer, toServer \ {s}} : Commit(recv(s), in)
    /\ WakeTimer(recv(s)) /\ WakeApp(recv(s))
    /\ UNCHANGED <<listening, app, conn, left, written, bytesRead, peer>>

-----------------------------------------------------------------------------
(* tcp_timer_proc: from the end of its wait to the next.                   *)

TimerTimeout ==
    /\ timer = "rto" /\ timer' = "timed_out"
    /\ UNCHANGED <<server, application, toServer, toPeer, peer>>

\* What it does about a timeout.
Expired ==
    IF ctrl.retries >= MaxRetries THEN disconnect(Begin)
    ELSE send_unacked([Begin EXCEPT !.c.retries = @ + 1])

TimerRun ==
    /\ timer \in {"woken", "timed_out"}
    /\ LET e == IF timer = "timed_out" THEN Expired ELSE Begin
       IN  /\ Commit(e, toServer) /\ WakeApp(e)
           /\ timer' = IF Outstanding(e.c) THEN "rto" ELSE "idle"
    /\ UNCHANGED <<connects, listening, app, conn, left, written, bytesRead,
                   toServer, peer>>

-----------------------------------------------------------------------------
(* The application: listen, accept, and then read, write and close.        *)

Listen ==
    /\ app = "idle" /\ ~listening
    /\ listening' = TRUE
    /\ UNCHANGED <<server, app, appWait, conn, left, written, bytesRead, timer,
                   toServer, toPeer, peer>>

\* close() of the listener.
Unlisten ==
    /\ app = "idle" /\ listening /\ ctrl.state \in {"CLOSED", "LISTEN"}
    /\ ctrl' = [ctrl EXCEPT !.state = "CLOSED"]
    /\ listening' = FALSE
    /\ UNCHANGED <<rx_ring, connects, app, appWait, conn, left, written,
                   bytesRead, timer, toServer, toPeer, peer>>

Enters(o) == app = o /\ appWait = "no"
Resumes(o) == app = o /\ appWait \in {"woken", "timed_out"}

\* The loop of TCP_ACCEPT.
Accept ==
    /\ listening /\ (Enters("idle") \/ Resumes("accepting"))
    /\ IF connected(ctrl)
       THEN /\ app' = "open" /\ appWait' = "no" /\ conn' = ctrl.remote
            /\ UNCHANGED ctrl
       ELSE /\ ctrl' = IF ctrl.state = "CLOSED"
                       THEN [ctrl EXCEPT !.state = "LISTEN"] ELSE ctrl
            /\ app' = "accepting" /\ appWait' = "listen"
            /\ UNCHANGED conn
    /\ UNCHANGED <<rx_ring, connects, listening, left, written, bytesRead,
                   timer, toServer, toPeer, peer>>

\* tcp_conn_read, with n = ReadMax.
Read ==
    /\ Enters("open") \/ Resumes("reading")
    /\ IF Queued(ctrl) = 0 /\ ~ctrl.rx_eof /\ ctrl.state # "CLOSED"
       THEN /\ app' = "reading" /\ appWait' = "conn"
            /\ UNCHANGED <<ctrl, bytesRead>>
       ELSE LET n == Min({ReadMax, Queued(ctrl)})
            IN  /\ bytesRead' = bytesRead \o
                      [k \in 1 .. n |-> rx_ring[(ctrl.rx_tail + k - 1) % RingSize]]
                /\ ctrl' = [ctrl EXCEPT !.rx_tail = @ + n]
                /\ app' = "open" /\ appWait' = "no"
    /\ UNCHANGED <<rx_ring, connects, listening, conn, left, written, timer,
                   toServer, toPeer, peer>>

Write ==
    /\ Enters("open") /\ written + WriteLen <= MaxWritten
    /\ app' = "writing" /\ left' = WriteLen
    /\ UNCHANGED <<server, listening, appWait, conn, written, bytesRead, timer,
                   toServer, toPeer, peer>>

Chunk == Min({Mss, left})

\* send_data up to its wait, or write's return when the connection is gone.
SendData ==
    /\ Enters("writing")
    /\ IF ~connected(ctrl) \/ Outstanding(ctrl)
       THEN /\ app' = "open" /\ left' = 0
            /\ UNCHANGED <<ctrl, rx_ring, toPeer, timer, appWait>>
       ELSE LET e == send_new([Begin EXCEPT !.c.sender = TRUE,
                                            !.c.snd_nxt = Plus(@, Chunk)],
                              {"PSH", "ACK"}, [k \in 1 .. Chunk |-> written + k])
            IN  /\ Commit(e, toServer) /\ WakeTimer(e)
                /\ appWait' = "conn" /\ UNCHANGED <<app, left>>
    /\ UNCHANGED <<connects, listening, conn, written, bytesRead, toServer, peer>>

\* send_data's loop after a wake-up, and write's after send_data.
SendDone ==
    /\ Resumes("writing")
    /\ IF ctrl.sender THEN appWait' = "conn" /\ UNCHANGED <<app, left, written>>
       ELSE /\ appWait' = "no"
            /\ IF ctrl.send_err < 0
               THEN app' = "open" /\ left' = 0 /\ UNCHANGED written
               ELSE /\ written' = written + Chunk /\ left' = left - Chunk
                    /\ app' = IF left' = 0 THEN "open" ELSE "writing"
    /\ UNCHANGED <<server, listening, conn, bytesRead, timer, toServer, toPeer, peer>>

\* The end of tcp_conn_close's loop: parked again, or closed.
CloseLoop(e) ==
    /\ Commit(e, toServer) /\ WakeTimer(e)
    /\ IF e.c.state = "CLOSED"
       THEN /\ app' = "idle" /\ appWait' = "no" /\ conn' = NoPort
            /\ written' = 0 /\ bytesRead' = <<>>
       ELSE /\ app' = "closing" /\ appWait' = "conn"
            /\ UNCHANGED <<conn, written, bytesRead>>
    /\ UNCHANGED <<connects, listening, left, toServer, peer>>

Close ==
    /\ Enters("open")
    /\ LET e == [Begin EXCEPT !.c.rx_tail = ctrl.rx_head]
           state == IF ctrl.state = "ESTABLISHED" THEN "FIN_WAIT_1" ELSE "LAST_ACK"
       IN  CloseLoop(IF connected(ctrl) /\ ~Outstanding(ctrl)
                     THEN send_new([e EXCEPT !.c.state = state,
                                             !.c.snd_nxt = Plus(@, 1)],
                                   {"FIN", "ACK"}, <<>>)
                     ELSE e)

\* CLOSE_TICKS have passed.
CloseTimeout ==
    /\ app = "closing" /\ appWait = "conn"
    /\ appWait' = "timed_out"
    /\ UNCHANGED <<server, listening, app, conn, left, written, bytesRead, timer,
                   toServer, toPeer, peer>>

\* Wrong: a close that has waited long enough waits on.
CloseResume_Patient == Resumes("closing") /\ CloseLoop(Begin)

CloseResume ==
    /\ Resumes("closing")
    /\ CloseLoop(IF appWait = "timed_out" THEN disconnect(Begin) ELSE Begin)

-----------------------------------------------------------------------------
(* The peers: one host's clients, which keep to the protocol but may send  *)
(* anything they have sent before, disregard the window, acknowledge part  *)
(* of a segment, and give up.                                              *)

NewPeer == [state |-> "new", sent |-> 0, fin |-> FALSE, rcv_nxt |-> 0, got |-> <<>>]

PeerSeq(n) == Plus(Isn, n)

\* A segment of p's own enters the network (one that is lost need not).
PeerSend(p, seq, flags, data) ==
    /\ toServer' = toServer \cup
          {Segment(p, seq, IF "ACK" \in flags THEN peer[p].rcv_nxt ELSE 0, flags, data)}
    /\ Cardinality(toServer') + Cardinality(toPeer) <= NetCap

PeerSyn(p) ==
    /\ peer[p].state \in {"new", "syn_sent"}
    /\ peer' = [peer EXCEPT ![p].state = "syn_sent"]
    /\ PeerSend(p, Isn, {"SYN"}, <<>>)
    /\ UNCHANGED <<server, application, timer, toPeer>>

PeerData(p) ==
    /\ peer[p].state = "open"
    /\ \E i, j \in 1 .. PeerBytes :
          /\ i <= j /\ j - i < Mss /\ i <= peer[p].sent + 1
          /\ peer[p].fin => j <= peer[p].sent
          /\ \E flags \in {{"ACK"}} \cup IF peer[p].fin /\ j = peer[p].sent
                                         THEN {{"FIN", "ACK"}} ELSE {} :
                PeerSend(p, PeerSeq(i), flags, [k \in 1 .. j - i + 1 |-> i + k - 1])
          /\ peer' = [peer EXCEPT ![p].sent = IF j > @ THEN j ELSE @]
    /\ UNCHANGED <<server, application, timer, toPeer>>

PeerAck(p) ==
    /\ peer[p].state = "open"
    /\ PeerSend(p, PeerSeq(1 + peer[p].sent + IF peer[p].fin THEN 1 ELSE 0), {"ACK"}, <<>>)
    /\ UNCHANGED <<server, application, timer, toPeer, peer>>

PeerFin(p) ==
    /\ peer[p].state = "open"
    /\ peer' = [peer EXCEPT ![p].fin = TRUE]
    /\ PeerSend(p, PeerSeq(1 + peer[p].sent), {"FIN", "ACK"}, <<>>)
    /\ UNCHANGED <<server, application, timer, toPeer>>

PeerAbort(p) ==
    /\ peer[p].state = "open"
    /\ peer' = [peer EXCEPT ![p].state = "gone"]
    /\ PeerSend(p, PeerSeq(1 + peer[p].sent + IF peer[p].fin THEN 1 ELSE 0), {"RST"}, <<>>)
    /\ UNCHANGED <<server, application, timer, toPeer>>

\* What a segment makes of its peer; of data in order it keeps a part.
PeerTakes(q, s) ==
    LET skip == (q.rcv_nxt - s.seq) % SeqWrap
    IN  CASE q.state = "syn_sent" ->
               {IF {"SYN", "ACK"} \subseteq s.flags /\ s.ack = PeerSeq(1)
                THEN [q EXCEPT !.state = "open", !.rcv_nxt = Plus(s.seq, 1)] ELSE q}
          [] q.state = "open" /\ "RST" \in s.flags -> {[q EXCEPT !.state = "gone"]}
          [] q.state = "open" /\ "FIN" \in s.flags ->
               {IF skip = 0 THEN [q EXCEPT !.rcv_nxt = Plus(@, 1)] ELSE q}
          [] q.state = "open" /\ s.data # <<>> /\ skip < Len(s.data) ->
               {[q EXCEPT !.got = @ \o SubSeq(s.data, skip + 1, skip + n),
                          !.rcv_nxt = Plus(@, n)] : n \in 1 .. Len(s.data) - skip}
          [] OTHER -> {q}

\* A segment reaches its peer, which refuses it when it has no connection.
PeerRecv(s) ==
    /\ s \in toPeer
    /\ toPeer' \in {toPeer, toPeer \ {s}}
    /\ \E q \in PeerTakes(peer[s.port], s) : peer' = [peer EXCEPT ![s.port] = q]
    /\ IF peer[s.port].state \in {"new", "gone"} /\ "RST" \notin s.flags
       THEN PeerSend(s.port, s.ack, {"RST"}, <<>>) ELSE UNCHANGED toServer
    /\ UNCHANGED <<server, application, timer>>

\* A client that is done with a connection, as the server is, connects again
\* once the network has forgotten its segments (its own time-wait).
PeerReturns(p) ==
    /\ peer[p].state \in {"open", "gone"} /\ p \notin {conn, ctrl.remote}
    /\ \A s \in toServer \cup toPeer : s.port # p
    /\ peer' = [peer EXCEPT ![p] = NewPeer]
    /\ UNCHANGED <<server, application, timer, toServer, toPeer>>

\* A segment is lost under way.
Lose ==
    /\ \/ \E s \in toServer : toServer' = toServer \ {s} /\ UNCHANGED toPeer
       \/ \E s \in toPeer : toPeer' = toPeer \ {s} /\ UNCHANGED toServer
    /\ UNCHANGED <<server, application, timer, peer>>

-----------------------------------------------------------------------------
Init ==
    /\ ctrl = Zero /\ rx_ring = [i \in Slot |-> 0]
    /\ listening = FALSE /\ connects = 0
    /\ app = "idle" /\ appWait = "no" /\ conn = NoPort
    /\ left = 0 /\ written = 0 /\ bytesRead = <<>>
    /\ timer = "woken"
    /\ toServer = {} /\ toPeer = {}
    /\ peer = [p \in Port |-> NewPeer]

Application ==
    \/ Listen \/ Unlisten \/ Accept \/ Read \/ Write \/ SendData \/ SendDone
    \/ Close \/ CloseTimeout \/ CloseResume
Timer == TimerTimeout \/ TimerRun
Peer ==
    \/ \E p \in Port :
          \/ PeerSyn(p) \/ PeerData(p) \/ PeerAck(p) \/ PeerFin(p)
          \/ PeerAbort(p) \/ PeerReturns(p)
    \/ \E s \in toPeer : PeerRecv(s)

Next ==
    \/ \E s \in toServer : tcp_recv(s)
    \/ Timer \/ Application \/ Peer \/ Lose

Spec == Init /\ [][Next]_vars

\* The server's processes run when they can and their waits time out; the
\* network and the peers owe nothing.
Fairness ==
    /\ WF_vars(Timer) /\ WF_vars(CloseTimeout)
    /\ WF_vars(SendData) /\ WF_vars(SendDone) /\ WF_vars(CloseResume)
    /\ WF_vars((app = "reading") /\ Read)
FairSpec == Spec /\ Fairness

-----------------------------------------------------------------------------
(* Properties.                                                             *)

Bytes(n) == [k \in 1 .. n |-> k]

\* What is acknowledged is an unsigned, and on a connection with nothing
\* outstanding never exactly half the space away: SEQ_LT and SEQ_LEQ would
\* both hold of that number and tcp_recv would take it for new.
AckSane(s) ==
    "ACK" \in s.flags =>
        /\ s.ack \in Seqno
        /\ s.port = ctrl.remote /\ ~Outstanding(ctrl) =>
              2 * ((ctrl.snd_una - s.ack) % SeqWrap) # SeqWrap
AcksSane == \A s \in toServer : AckSane(s)

\* Every variable has its type: the sequence numbers stay unsigneds, those
\* the clients acknowledge are sane, and the ring's two counters are a ring's
\* length apart at most.
TypeOK ==
    /\ AcksSane
    /\ ctrl.state \in State /\ ctrl.remote \in Port \cup {NoPort}
    /\ {ctrl.snd_una, ctrl.snd_nxt, ctrl.rcv_nxt} \subseteq Seqno
    /\ ctrl.retries \in 0 .. MaxRetries
    /\ ctrl.sender \in BOOLEAN /\ ctrl.send_err \in {0, -1} /\ ctrl.rx_eof \in BOOLEAN
    /\ Queued(ctrl) \in 0 .. RingSize
    /\ app \in {"idle", "accepting", "open", "reading", "writing", "closing"}
    /\ appWait \in {"no", "listen", "conn", "woken", "timed_out"}
    /\ timer \in {"idle", "rto", "woken", "timed_out"}
    /\ written \in 0 .. MaxWritten /\ left \in 0 .. WriteLen
    /\ connects \in 0 .. Len(Iss)

\* What the receive ring holds beyond what has been read.
Unread == [k \in 1 .. Queued(ctrl) |-> rx_ring[(ctrl.rx_tail + k - 1) % RingSize]]

\* tcp_conn_read gives the peer's bytes in order, none twice and none
\* missing, whatever the network did to the segments; and it reports the end
\* (rx_eof) only when the peer has ended and all it sent has arrived.
StreamIn ==
    app \in {"open", "reading", "writing"} =>
        LET in == bytesRead \o Unread
        IN  /\ in = Bytes(Len(in))
            /\ ctrl.rx_eof => peer[conn].fin /\ Len(in) = peer[conn].sent

\* What the peer takes for the next bytes of its stream (send_unacked, also
\* of a segment acknowledged in part) are the next bytes the application
\* wrote.
StreamOut ==
    \A p \in Port : peer[p].got = Bytes(Len(peer[p].got))

\* tcp.h:9: write blocks until acked.  A chunk send_data has returned 0 for
\* has reached the peer, every byte of it.
AckedArrived == conn # NoPort => written <= Len(peer[conn].got)

\* While a segment is outstanding the timer's process counts it down or is
\* about to look again: it never sits in the unbounded wait of
\* tcp_timer_proc, which would leave a lost segment lost.
RtoArmed == Outstanding(ctrl) => timer # "idle"

\* send_data: a write comes to an end, acknowledged or not, however much the
\* network loses.
WriteReturns == app = "writing" ~> app # "writing"

\* tcp.c:34: close() is bounded, also when the peer never answers our FIN.
CloseReturns == app = "closing" ~> app # "closing"

\* tcp_conn_read: a reader for whom there are bytes, or whose connection has
\* ended or is gone, is released.
ReaderReleased ==
    (app = "reading" /\ (Queued(ctrl) > 0 \/ ctrl.rx_eof \/ ctrl.state = "CLOSED"))
        ~> app # "reading"

\* tcp.c:155: "the timer process is parked with nothing outstanding": it
\* resends, or gives a connection up, for a segment that is outstanding.
TimerHasCause ==
    [][TimerRun /\ timer = "timed_out" => Outstanding(ctrl)]_vars
=============================================================================
