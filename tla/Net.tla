-------------------------------- MODULE Net ---------------------------------
(***************************************************************************)
(* A packet's way through the machine, both ways.                          *)
(*                                                                         *)
(* In: the receive DMA fills descriptors, the NMI drains them into a stage *)
(* ring, the servicer decodes the stage ring, answers ARP and puts IP      *)
(* packets into a second ring, ipv4_proc takes them out, answers pings and *)
(* hands datagrams to the sockets (wifi_fiq.c, wifi_rx.c, net.c, ipv4.c,   *)
(* icmp.c, udp.c).  Out: net_send with its ARP cache and the transmit      *)
(* path with its one descriptor, which all three processes share (net.c,   *)
(* wifi_tx.c).  The third process is a client: it runs dhcp_proc, then     *)
(* resolves names (dhcp.c, dns.c).                                         *)
(*                                                                         *)
(* Every call that blocks is a step of its own.  A wait expires freely when*)
(* nothing is left that could answer it; when it expires all the same, the *)
(* answer was slow, and that is one of the MaxFaults faults, as are lost   *)
(* and repeated frames, frames the MAC gives up and a link that goes down. *)
(***************************************************************************)
EXTENDS Integers, Sequences, FiniteSets, SequencesExt

CONSTANTS
    DmaSlots,    \* RX_BUF_NUM
    StageSlots,  \* STAGE_SLOTS
    IpSlots,     \* IPV4_RING_SLOTS
    UdpSlots,    \* UDP_RING_SLOTS
    Wrap,        \* modulus of the free-running counters: 2^32 in the code
    CacheSize,   \* ARP_CACHE_SIZE
    ArpRetries,  \* ARP_RETRIES
    Retries,     \* dhcp.c's RETRIES
    Servers,     \* the DHCP servers on the network
    Questions,   \* the names are resolved in the order 1 .. Questions
    Noise,       \* frames the neighbour sends
    MaxFaults

ASSUME NetAssumption ==
    /\ {DmaSlots, StageSlots, IpSlots, UdpSlots, CacheSize, ArpRetries, Retries} \subseteq Nat \ {0}
    /\ Wrap \in Nat
    /\ \A slots \in {StageSlots, IpSlots} : Wrap > slots /\ Wrap % slots = 0
    /\ {Questions, Noise, MaxFaults} \subseteq Nat
    /\ IsFiniteSet(Servers)

VARIABLES
    dma,     \* the received descriptors from rx_cursor on
    stage,   \* wifi_rx.c: slot, stage_head, stage_tail
    ring,    \* ipv4.c: slot, ring_head, ring_tail, ring_sem
    busy,    \* has a process handled the slot at its ring's tail
    tx,      \* wifi_tx.c: descriptor_busy, tx_buf, tx_seq, fiq_tx_count; the queue
    call,    \* where each process is in wifi_tx_frame
    cache,   \* arp_cache, up to arp_cache_next
    sock,    \* the queue of each bound port
    cl,      \* the client
    up,      \* wpa_state = WPA_DONE
    air,     \* the last frame on the air
    lan, leases, noise, faults

rxVars == <<dma, stage, ring, busy>>
envVars == <<lan, leases, noise>>
vars == <<rxVars, tx, call, cache, sock, cl, up, air, envVars, faults>>

Proc == {"servicer", "ipv4", "client"}
Nobody == "nobody"
All == "all"          \* the broadcast address, of either layer
Router == "router"    \* the gateway and the pinging neighbour are on the
Neighbour == "host"   \* network, the name server is behind the gateway
NameServer == "ns"

\* host: the other end's hardware address; ip: its IP address, or the one an
\* ARP request asks for; body: the datagram's.
Frame(kind, host, ip, body) == [kind |-> kind, host |-> host, ip |-> ip, body |-> body]
NoFrame == Frame("none", Nobody, Nobody, <<>>)
IsPacket(f) == f.kind \in {"echo", "udp"}
Port(f) == IF f.body[1] = "answer" THEN "dns" ELSE "dhcp"

Count(r) == (r.head - r.tail) % Wrap
SlotOf(r, i, slots) == r.slot[(r.tail + i) % slots]
\* Nobody reads what a free slot still holds, so it is forgotten.
Released(r, slots) ==
    [r EXCEPT !.slot[r.tail % slots] = NoFrame, !.tail = (@ + 1) % Wrap]
Idle == [at |-> "idle", frame |-> NoFrame, prev |-> 0]

Init ==
    /\ dma = <<>>
    /\ stage = [slot |-> [i \in 0 .. StageSlots - 1 |-> NoFrame], head |-> 0, tail |-> 0]
    /\ ring = [slot |-> [i \in 0 .. IpSlots - 1 |-> NoFrame], head |-> 0, tail |-> 0, sem |-> 0]
    /\ busy = [servicer |-> FALSE, ipv4 |-> FALSE]
    /\ tx = [busy |-> FALSE, buf |-> [seq |-> 0, frame |-> NoFrame], seq |-> 0, count |-> 0, armed |-> FALSE, done |-> FALSE]
    /\ call = [p \in Proc |-> Idle]
    /\ cache = <<>>
    /\ sock = [p \in {"dhcp"} |-> <<>>]
    /\ cl = [phase |-> "discover", at |-> "write", tries |-> 0, arp |-> 0,
             offer |-> Nobody, ip |-> Nobody, id |-> 0, answer |-> 0]
    /\ up = TRUE
    /\ air = [seq |-> -1, frame |-> NoFrame]
    /\ lan = <<>> /\ leases = {} /\ noise = 0
    /\ faults = 0

Fault == faults < MaxFaults /\ faults' = faults + 1

\* Nothing is under way: what a process still waits for does not come.
Quiet ==
    /\ lan = <<>> /\ dma = <<>> /\ Count(stage) = 0 /\ Count(ring) = 0
    /\ ~tx.armed /\ ~tx.done
    /\ \A p \in Proc : call[p].at = "idle"

Expired == (Quiet /\ UNCHANGED faults) \/ (~Quiet /\ Fault)

\* The NMI is not masked: no process takes a step while a descriptor waits.
NoNmi == dma = <<>>

(***************************************************************************)
(* The NMI and the servicer.                                               *)
(***************************************************************************)
\* The stage ring after the descriptor's frame has been copied or dropped.
Staged_Overrun(r, f) ==
    IF Count(r) <= StageSlots
    THEN [r EXCEPT !.slot[r.head % StageSlots] = f, !.head = (@ + 1) % Wrap]
    ELSE r

Staged(r, f) ==
    IF Count(r) < StageSlots
    THEN [r EXCEPT !.slot[r.head % StageSlots] = f, !.head = (@ + 1) % Wrap]
    ELSE r

wifi_rx_nmi_drain ==
    /\ dma' = <<>>
    /\ LET drained[i \in 0 .. Len(dma)] == IF i = 0 THEN stage ELSE Staged(drained[i - 1], dma[i])
       IN  stage' = drained[Len(dma)]

wifi_fiq_dispatch ==
    /\ tx.done \/ dma # <<>>
    /\ tx' = IF tx.done THEN [tx EXCEPT !.done = FALSE, !.count = (@ + 1) % Wrap] ELSE tx
    /\ wifi_rx_nmi_drain
    /\ UNCHANGED <<ring, busy, call, cache, sock, cl, up, air, envVars, faults>>

\* wifi_tx_frame is called with the frame; the caller goes on in TxReturn.
Transmit(p, frame) ==
    call' = [call EXCEPT ![p] = [at |-> "fill", frame |-> frame, prev |-> 0]]

\* The last slot is overwritten when the cache is full.
arp_cache_store(ip, host) ==
    LET i == IF \E j \in DOMAIN cache : cache[j].ip = ip
             THEN CHOOSE j \in DOMAIN cache : cache[j].ip = ip
             ELSE IF Len(cache) < CacheSize THEN Len(cache) + 1 ELSE CacheSize
    IN  cache' = [j \in 1 .. Len(cache) \cup {i} |->
                    IF j = i THEN [ip |-> ip, host |-> host] ELSE cache[j]]

\* The broadcast wakes a sender that waits, not one that is about to.
arp_recv(f) ==
    /\ arp_cache_store(IF f.kind = "arp_reply" THEN f.ip ELSE f.host, f.host)
    /\ cl' = IF cl.at = "arp" THEN [cl EXCEPT !.at = "lookup"] ELSE cl
    /\ IF f.kind = "arp_request" /\ f.ip = cl.ip
       THEN Transmit("servicer", Frame("arp_reply", f.host, f.host, <<>>))
       ELSE UNCHANGED call
    /\ UNCHANGED ring

ipv4_enqueue(f) ==
    /\ ring' = IF Count(ring) >= IpSlots THEN ring
               ELSE [ring EXCEPT !.slot[ring.head % IpSlots] = f,
                                 !.head = (@ + 1) % Wrap, !.sem = @ + 1]
    /\ UNCHANGED <<call, cache, cl>>

net_recv(f) == IF IsPacket(f) THEN ipv4_enqueue(f) ELSE arp_recv(f)

rx_dump ==
    /\ NoNmi /\ Count(stage) > 0 /\ ~busy.servicer
    /\ busy' = [busy EXCEPT !.servicer = TRUE]
    /\ net_recv(SlotOf(stage, 0, StageSlots))
    /\ UNCHANGED <<dma, stage, tx, sock, up, air, envVars, faults>>

\* The slot goes back to the NMI when what it held has been answered.
wifi_rx_servicer ==
    /\ NoNmi /\ busy.servicer /\ call.servicer.at = "idle"
    /\ stage' = Released(stage, StageSlots)
    /\ busy' = [busy EXCEPT !.servicer = FALSE]
    /\ UNCHANGED <<dma, ring, tx, call, cache, sock, cl, up, air, envVars, faults>>

(***************************************************************************)
(* ipv4_proc.                                                              *)
(***************************************************************************)
udp_recv(f) ==
    sock' = IF Port(f) \in DOMAIN sock /\ Len(sock[Port(f)]) < UdpSlots
            THEN [sock EXCEPT ![Port(f)] = Append(@, f)] ELSE sock

icmp_recv(f) == Transmit("ipv4", Frame("echo_reply", f.host, f.ip, <<>>))

ipv4_recv(f) ==
    \/ f.kind = "echo" /\ f.body = <<cl.ip>> /\ icmp_recv(f) /\ UNCHANGED sock
    \/ f.kind = "echo" /\ f.body # <<cl.ip>> /\ UNCHANGED <<call, sock>>
    \/ f.kind = "udp" /\ udp_recv(f) /\ UNCHANGED call

ipv4_proc ==
    /\ NoNmi /\ ~busy.ipv4 /\ ring.sem > 0
    /\ ring' = [ring EXCEPT !.sem = @ - 1]
    /\ busy' = [busy EXCEPT !.ipv4 = TRUE]
    /\ ipv4_recv(SlotOf(ring, 0, IpSlots))
    /\ UNCHANGED <<dma, stage, tx, cache, cl, up, air, envVars, faults>>

ipv4_release ==
    /\ NoNmi /\ busy.ipv4 /\ call.ipv4.at = "idle"
    /\ ring' = Released(ring, IpSlots)
    /\ busy' = [busy EXCEPT !.ipv4 = FALSE]
    /\ UNCHANGED <<dma, stage, tx, call, cache, sock, cl, up, air, envVars, faults>>

(***************************************************************************)
(* wifi_tx_frame, for whichever process calls it.                          *)
(***************************************************************************)
\* What the client does when its write has returned: dhcp_proc reads in any
\* case, dns_resolve gives up.
Sent(c, rc) ==
    [c EXCEPT !.at = IF c.phase = "resolve" /\ rc < 0 THEN "ask" ELSE "read"]

Returned(p, rc) ==
    /\ call' = [call EXCEPT ![p] = Idle]
    /\ cl' = IF p # "client" THEN cl
             ELSE IF call[p].frame.kind = "arp_request" THEN [cl EXCEPT !.at = "arp"]
             ELSE Sent(cl, rc)

\* Sequence and packet number are assigned in launch order, under the lock.  seq
\* is the packet number; the 12-bit sequence number would be seq % 4096.
Fill(p) ==
    /\ call[p].at = "fill" /\ ~tx.busy
    /\ tx' = [tx EXCEPT !.busy = TRUE, !.seq = @ + 1,
                        !.buf = [seq |-> tx.seq, frame |-> call[p].frame]]
    /\ call' = [call EXCEPT ![p].at = "launch"]
    /\ UNCHANGED <<cl, faults>>

DescriptorExpires_Frees(p) ==
    /\ call[p].at = "fill" /\ tx.busy /\ Fault
    /\ Returned(p, -1)
    /\ tx' = [tx EXCEPT !.busy = FALSE]

DescriptorExpires(p) ==
    /\ call[p].at = "fill" /\ tx.busy /\ Fault
    /\ Returned(p, -1)
    /\ UNCHANGED tx

Launch(p) ==
    /\ call[p].at = "launch"
    /\ tx' = [tx EXCEPT !.armed = TRUE]
    /\ call' = [call EXCEPT ![p].at = "wait", ![p].prev = tx.count]
    /\ UNCHANGED <<cl, faults>>

Completed(p) == tx.count # call[p].prev

\* TX_DONE_TICKS without a completion; it may still come.
DoneExpires ==
    \/ ~tx.armed /\ ~tx.done /\ UNCHANGED faults
    \/ (tx.armed \/ tx.done) /\ Fault

TxReturn_GiveBack(p) ==
    /\ call[p].at = "wait"
    /\ tx' = [tx EXCEPT !.busy = FALSE, !.seq = IF Completed(p) THEN @ ELSE @ - 1]
    /\ \/ Completed(p) /\ Returned(p, 0) /\ UNCHANGED faults
       \/ ~Completed(p) /\ DoneExpires /\ Returned(p, -1)

TxReturn(p) ==
    /\ call[p].at = "wait"
    /\ tx' = [tx EXCEPT !.busy = FALSE]
    /\ \/ Completed(p) /\ Returned(p, 0) /\ UNCHANGED faults
       \/ ~Completed(p) /\ DoneExpires /\ Returned(p, -1)

wifi_tx_frame(p) ==
    /\ NoNmi
    /\ Fill(p) \/ DescriptorExpires(p) \/ Launch(p) \/ TxReturn(p)
    /\ UNCHANGED <<rxVars, cache, sock, up, air, envVars>>

(***************************************************************************)
(* The client: dhcp_proc, then dns_resolve once per question, each over    *)
(* udp_write, net_send and udp_read.                                       *)
(***************************************************************************)
\* The hardware address is filled in by net_send.
send_ipv4_raw(kind, dst, body) == Frame(kind, IF dst = All THEN All ELSE Nobody, dst, body)
send_udp(dst, body) == send_ipv4_raw("udp", dst, body)
build_query(id) == <<"query", id>>
Message ==
    CASE cl.phase = "discover" -> send_udp(All, <<"discover", Nobody>>)
      [] cl.phase = "request"  -> send_udp(All, <<"request", cl.offer>>)
      [] cl.phase = "resolve"  -> send_udp(NameServer, build_query(cl.id))

\* Everything but the servers' own network is behind the gateway.
NextHop(ip) == IF ip = NameServer THEN Router ELSE ip

\* The state of the link is looked at here and never again.
net_send ==
    /\ cl.at = "write"
    /\ \/ ~up /\ cl' = Sent(cl, -1) /\ UNCHANGED call
       \/ up /\ Message.ip = All /\ cl' = [cl EXCEPT !.at = "tx"] /\ Transmit("client", Message)
       \/ up /\ Message.ip # All /\ cl' = [cl EXCEPT !.at = "lookup", !.arp = 0] /\ UNCHANGED call
    /\ UNCHANGED <<sock, faults>>

Cached(ip) == {cache[i].host : i \in {j \in DOMAIN cache : cache[j].ip = ip}}

arp_cache_lookup ==
    /\ cl.at = "lookup"
    /\ LET hop == NextHop(Message.ip)
       IN  \/ /\ \E host \in Cached(hop) : Transmit("client", [Message EXCEPT !.host = host])
              /\ cl' = [cl EXCEPT !.at = "tx"]
           \/ /\ Cached(hop) = {} /\ cl.arp = ArpRetries
              /\ cl' = Sent(cl, -1) /\ UNCHANGED call
           \/ /\ Cached(hop) = {} /\ cl.arp < ArpRetries
              /\ Transmit("client", Frame("arp_request", All, hop, <<>>))
              /\ cl' = [cl EXCEPT !.at = "tx"]
    /\ UNCHANGED <<sock, faults>>

ArpExpires_Untimed == FALSE

ArpExpires ==
    /\ cl.at = "arp" /\ Expired
    /\ cl' = [cl EXCEPT !.at = "lookup", !.arp = @ + 1]
    /\ UNCHANGED <<call, sock>>

\* Another round of dhcp_proc's loop; its socket stays open when it gives up.
Again(c) ==
    IF c.tries + 1 = Retries THEN [c EXCEPT !.phase = "failed", !.at = "stop"]
    ELSE [c EXCEPT !.tries = @ + 1, !.at = "write"]

DhcpRead_AnyReply(c, body) ==
    IF c.phase = "discover"
    THEN [c EXCEPT !.phase = "request", !.at = "write", !.tries = 0, !.offer = body[2]]
    ELSE [c EXCEPT !.phase = "resolve", !.at = "ask", !.ip = body[2]]

DhcpRead(c, body) ==
    CASE c.phase = "discover" /\ body[1] = "offer" ->
            [c EXCEPT !.phase = "request", !.at = "write", !.tries = 0, !.offer = body[2]]
      [] c.phase = "request" /\ body[1] = "ack" ->
            [c EXCEPT !.phase = "resolve", !.at = "ask", !.ip = body[2]]
      [] OTHER -> Again(c)

\* The name server knows every name it is asked for.
parse_reply(f) == f.body[2]

\* An answer to another question is passed over.
DnsRead(c, f) ==
    IF f.ip = NameServer /\ f.body[2] = c.id
    THEN [c EXCEPT !.at = "ask", !.answer = parse_reply(f)] ELSE c

Closed(port) == [p \in DOMAIN sock \ {port} |-> sock[p]]
Opened(port) == [p \in DOMAIN sock \cup {port} |-> IF p \in DOMAIN sock THEN sock[p] ELSE <<>>]

dhcp_read ==
    /\ cl.at = "read" /\ cl.phase # "resolve" /\ sock.dhcp # <<>>
    /\ cl' = DhcpRead(cl, Head(sock.dhcp).body)
    /\ sock' = IF cl'.phase = "resolve" THEN Closed("dhcp") ELSE [sock EXCEPT !.dhcp = Tail(@)]
    /\ UNCHANGED <<call, faults>>

\* The wait has expired; udp_read returns -1 whatever has come since.
ReadExpires ==
    /\ cl.at = "read" /\ cl.phase # "resolve" /\ sock.dhcp = <<>> /\ Expired
    /\ cl' = [cl EXCEPT !.at = "expired"]
    /\ UNCHANGED <<call, sock>>

dhcp_unanswered ==
    /\ cl.at = "expired"
    /\ cl' = Again(cl)
    /\ UNCHANGED <<call, sock, faults>>

dns_resolve ==
    /\ cl.at = "ask" /\ cl.id < Questions
    /\ cl' = [cl EXCEPT !.id = @ + 1, !.answer = 0, !.at = "write"]
    /\ sock' = Opened("dns")
    /\ UNCHANGED <<call, faults>>

\* No timeout is set on this socket.
dns_read ==
    /\ cl.at = "read" /\ cl.phase = "resolve" /\ sock.dns # <<>>
    /\ cl' = DnsRead(cl, Head(sock.dns))
    /\ sock' = [sock EXCEPT !.dns = Tail(@)]
    /\ UNCHANGED <<call, faults>>

Client ==
    /\ NoNmi
    /\ \/ net_send \/ arp_cache_lookup \/ ArpExpires
       \/ dhcp_read \/ ReadExpires \/ dhcp_unanswered \/ dns_resolve \/ dns_read
    /\ UNCHANGED <<rxVars, tx, cache, up, air, envVars>>

(***************************************************************************)
(* The MAC, the access point and the other hosts.                          *)
(***************************************************************************)
Answers(f) ==
    CASE f.kind = "arp_request" -> <<Frame("arp_reply", f.ip, f.ip, <<>>)>>
      [] f.kind = "udp" /\ f.body[1] = "discover" ->
            [i \in 1 .. Len(SetToSeq(Servers)) |->
                LET s == SetToSeq(Servers)[i] IN Frame("udp", s, s, <<"offer", s>>)]
      [] f.kind = "udp" /\ f.body[1] = "request" ->
            <<Frame("udp", f.body[2], f.body[2], <<"ack", f.body[2]>>)>>
      [] f.kind = "udp" /\ f.body[1] = "query" ->
            <<Frame("udp", Router, NameServer, <<"answer", f.body[2]>>)>>
      [] OTHER -> <<>>

\* The MAC reads the buffer and the frame is on the air; the access point
\* drops one with the number of the last.
HwSend ==
    /\ tx.armed /\ up
    /\ tx' = [tx EXCEPT !.armed = FALSE, !.done = TRUE]
    /\ air' = tx.buf
    /\ LET f == tx.buf.frame
       IN  IF tx.buf.seq = air.seq THEN UNCHANGED <<lan, leases>>
           ELSE /\ lan' = lan \o Answers(f)
                /\ leases' = IF f.kind = "udp" /\ f.body[1] = "request"
                             THEN leases \cup {f.body[2]} ELSE leases
    /\ UNCHANGED <<rxVars, call, cache, sock, cl, up, noise, faults>>

\* A queue without a key stalls; with one, the MAC may give a frame up.
HwStall ==
    /\ tx.armed
    /\ (~up /\ UNCHANGED faults) \/ (up /\ Fault)
    /\ tx' = [tx EXCEPT !.armed = FALSE]
    /\ UNCHANGED <<rxVars, call, cache, sock, cl, up, air, envVars>>

\* The receive DMA fills the next descriptor if there is one.
HwReceive ==
    /\ lan # <<>>
    /\ lan' = Tail(lan)
    /\ dma' = IF up /\ Len(dma) < DmaSlots THEN Append(dma, Head(lan)) ELSE dma
    /\ UNCHANGED <<stage, ring, busy, tx, call, cache, sock, cl, up, air, leases, noise, faults>>

Neighbourly ==
    /\ cl.ip # Nobody /\ noise < Noise
    /\ noise' = noise + 1
    /\ \E f \in {Frame("echo", Neighbour, Neighbour, <<cl.ip>>),
                 Frame("echo", Neighbour, Neighbour, <<All>>),
                 Frame("arp_request", Neighbour, cl.ip, <<>>)} :
        lan' = Append(lan, f)
    /\ UNCHANGED <<rxVars, tx, call, cache, sock, cl, up, air, leases, faults>>

Lose == lan # <<>> /\ lan' = Tail(lan) /\ UNCHANGED up
Repeat == lan # <<>> /\ lan' = Append(lan, Head(lan)) /\ UNCHANGED up
LinkDown == up /\ up' = FALSE /\ UNCHANGED lan

Rare ==
    /\ Fault /\ (Lose \/ Repeat \/ LinkDown)
    /\ UNCHANGED <<rxVars, tx, call, cache, sock, cl, air, leases, noise>>

LinkUp ==
    /\ ~up /\ up' = TRUE
    /\ UNCHANGED <<rxVars, tx, call, cache, sock, cl, air, envVars, faults>>

Next ==
    \/ wifi_fiq_dispatch \/ rx_dump \/ wifi_rx_servicer
    \/ ipv4_proc \/ ipv4_release
    \/ (\E p \in Proc : wifi_tx_frame(p))
    \/ Client
    \/ HwSend \/ HwStall \/ HwReceive \/ Neighbourly \/ LinkUp \/ Rare

Spec == Init /\ [][Next]_vars
FairSpec ==
    /\ Spec
    /\ WF_vars(wifi_fiq_dispatch) /\ WF_vars(rx_dump) /\ WF_vars(wifi_rx_servicer)
    /\ WF_vars(ipv4_proc) /\ WF_vars(ipv4_release)
    /\ \A p \in Proc : WF_vars(wifi_tx_frame(p))
    /\ WF_vars(Client)
    /\ WF_vars(HwSend \/ HwStall) /\ WF_vars(HwReceive) /\ WF_vars(LinkUp)

(***************************************************************************)
(* What the processes above rely on.                                       *)
(***************************************************************************)
Host == Servers \cup {Router, Neighbour, NameServer, All, Nobody}
Body == ({"offer", "ack"} \X Servers) \cup ({"answer"} \X (1 .. Questions)) \cup {<<s>> : s \in Servers \cup {All}} \cup {<<>>}
Packets == [kind : {"echo", "udp", "arp_request", "arp_reply"}, host : Host, ip : Host, body : Body]
RingOk(r, slots) ==
    /\ r.head \in 0 .. Wrap - 1 /\ r.tail \in 0 .. Wrap - 1
    /\ Count(r) <= slots

\* Types; no ring holds more than it has slots, and the semaphore of the IP
\* ring counts the packets nobody has begun with.
TypeOK ==
    /\ Len(dma) <= DmaSlots /\ RingOk(stage, StageSlots) /\ RingOk(ring, IpSlots)
    /\ ring.sem = Count(ring) - (IF busy.ipv4 THEN 1 ELSE 0)
    /\ busy.servicer => Count(stage) > 0
    /\ tx.count \in 0 .. Wrap - 1 /\ {tx.busy, tx.armed, tx.done, up} \subseteq BOOLEAN
    /\ \A p \in Proc : call[p].at \in {"idle", "fill", "launch", "wait"}
    /\ tx.busy <=> \E p \in Proc : call[p].at \in {"launch", "wait"}
    /\ Len(cache) <= CacheSize
    /\ DOMAIN sock \subseteq {"dhcp", "dns"} /\ \A p \in DOMAIN sock : Len(sock[p]) <= UdpSlots
    /\ cl.tries \in 0 .. Retries - 1 /\ cl.arp \in 0 .. ArpRetries /\ cl.id \in 0 .. Questions
    /\ leases \subseteq Servers /\ faults \in 0 .. MaxFaults

\* The packets of a ring, oldest first, but the one its owner has handled.
Waiting(r, slots, handled) ==
    LET skip == IF handled THEN 1 ELSE 0
    IN  [i \in 1 .. Count(r) - skip |-> SlotOf(r, i - 1 + skip, slots)]

UnderWay ==
    Waiting(ring, IpSlots, busy.ipv4) \o Waiting(stage, StageSlots, busy.servicer) \o dma
InHand == IF busy.ipv4 THEN SlotOf(ring, 0, IpSlots) ELSE NoFrame

\* A frame that is not for ipv4_proc leaves the pipe where the servicer takes it.
InOrder ==
    INSTANCE Pipe WITH
        Packet <- Packets,
        Nothing <- NoFrame,
        q <- UnderWay,
        held <- InHand

\* The receive path is a pipe: the interrupt's ring and the servicer's lose
\* packets when they are full but never reorder one, hand it up twice or
\* write over the slot that ipv4_proc works in (wifi_rx_nmi_drain,
\* ipv4_enqueue, the tails that advance after the slot was handled).
PipeSpec == InOrder!Spec

\* The access point drops a frame that repeats a number and takes a lower one
\* for a replay: whoever transmits, and however late a completion comes, the
\* frames on the air carry ever higher numbers (wifi_tx_frame).
AirOrder == [][air' # air => air'.seq > air.seq]_vars

\* A frame goes to the host its packet has to go to next, whatever entries the
\* ARP cache replaced while the sender waited (arp_cache_store, net_send).
RightHost ==
    air.frame.kind # "none" =>
        air.frame.host = IF air.frame.kind = "arp_request" THEN All ELSE NextHop(air.frame.ip)

\* The address in use is one that a server has given to this machine, not one
\* that another server's late offer proposes (dhcp_proc).
LeaseHeld == cl.ip # Nobody => cl.ip \in leases

\* An answer is the answer to the question that was asked, late and repeated
\* answers to an earlier one notwithstanding (dns_resolve).
ResolveRight == cl.answer # 0 => cl.answer = cl.id

\* The three claims about who is talked to.
RightPeer == RightHost /\ LeaseHeld /\ ResolveRight

\* No send is stuck and dhcp_proc comes to an end, whatever is lost on the way:
\* again and again the client is between two calls, or waits for a DNS answer
\* (the bounded waits of net_send, wifi_tx_frame and udp_read).
ClientReturns == []<>(cl.at \in {"ask", "stop"} \/ (cl.at = "read" /\ cl.phase = "resolve"))
=============================================================================
