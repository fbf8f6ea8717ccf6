------------------------------ MODULE NetProofs ------------------------------
(***************************************************************************)
(* The frames on the air carry ever higher sequence numbers, every         *)
(* variable keeps its type, ARP, DHCP and DNS lead to the right peer, and  *)
(* the receive path is a pipe, for any sizes of the rings and the cache,   *)
(* any servers and faults.                                                 *)
(***************************************************************************)
EXTENDS Net, SequenceTheorems, FiniteSetTheorems, WellFoundedInduction, TLAPS

\* The fields of the transmitter and of the three calls into it.
Shape ==
    /\ DOMAIN tx = {"busy", "buf", "seq", "count", "armed", "done"}
    /\ DOMAIN call = Proc
    /\ \A p \in Proc : DOMAIN call[p] = {"at", "frame", "prev"}
    /\ tx.seq \in Nat /\ tx.buf.seq \in Nat /\ air.seq \in Int

\* The descriptor is armed, or about to be, with a number that has been given
\* out; what was filled after the last frame on the air has a later number.
\* A completion that comes too late may leave the descriptor armed while
\* another process fills its buffer: then the new frame goes out in place of
\* the old one, and once more when it is launched.
Numbered ==
    /\ air.seq < tx.seq
    /\ tx.buf.seq <= tx.seq
    /\ tx.armed \/ (\E p \in Proc : call[p].at = "launch") => tx.buf.seq < tx.seq
    /\ air = tx.buf \/ air.seq < tx.buf.seq

AirInv == Shape /\ Numbered

\* Nothing has been sent at the beginning.
LEMMA AirInit == Init => AirInv
BY DEF Init, AirInv, Shape, Numbered, Idle, NoFrame, Frame, Proc

\* Steps that leave the transmitter and the air alone and start calls at most.
LEMMA AirQuiet ==
    ASSUME AirInv, UNCHANGED <<tx, air>>,
           \/ UNCHANGED call
           \/ \E p \in Proc : \E f : Transmit(p, f)
    PROVE  AirInv'
<1>1. CASE UNCHANGED call
    BY <1>1 DEF AirInv, Shape, Numbered
<1>2. ASSUME NEW p \in Proc, NEW f, Transmit(p, f) PROVE AirInv'
    <2>1. DOMAIN call' = Proc /\ \A q \in Proc : DOMAIN call'[q] = {"at", "frame", "prev"}
        BY <1>2 DEF Transmit, AirInv, Shape
    <2>2. \A q \in Proc : call'[q].at = "launch" => call[q].at = "launch"
        BY <1>2 DEF Transmit, AirInv, Shape
    <2> QED BY <2>1, <2>2 DEF AirInv, Shape, Numbered
<1> QED
    BY <1>1, <1>2

\* What a process does on its way through wifi_tx_frame.
LEMMA FillStep ==
    ASSUME AirInv, NEW p \in Proc, Fill(p), UNCHANGED air
    PROVE  AirInv'
<1>1. DOMAIN call' = Proc /\ \A q \in Proc : DOMAIN call'[q] = {"at", "frame", "prev"}
    BY DEF Fill, AirInv, Shape
<1>2. DOMAIN tx' = DOMAIN tx
    BY DEF Fill
<1>3. tx'.seq = tx.seq + 1 /\ tx'.buf = [seq |-> tx.seq, frame |-> call[p].frame]
    BY DEF Fill, AirInv, Shape
<1> QED
    BY <1>1, <1>2, <1>3 DEF AirInv, Shape, Numbered

LEMMA LaunchStep ==
    ASSUME AirInv, NEW p \in Proc, Launch(p), UNCHANGED air
    PROVE  AirInv'
<1>1. DOMAIN call' = Proc /\ \A q \in Proc : DOMAIN call'[q] = {"at", "frame", "prev"}
    BY DEF Launch, AirInv, Shape
<1>2. DOMAIN tx' = DOMAIN tx /\ tx'.seq = tx.seq /\ tx'.buf = tx.buf
    BY DEF Launch, AirInv, Shape
<1>3. tx.buf.seq < tx.seq
    BY DEF Launch, AirInv, Numbered
<1> QED
    BY <1>1, <1>2, <1>3 DEF AirInv, Shape, Numbered

LEMMA ReturnStep ==
    ASSUME AirInv, NEW p \in Proc, DescriptorExpires(p) \/ TxReturn(p), UNCHANGED air
    PROVE  AirInv'
<1>1. call' = [call EXCEPT ![p] = Idle]
    BY DEF DescriptorExpires, TxReturn, Returned
<1>2. DOMAIN call' = Proc /\ \A q \in Proc : DOMAIN call'[q] = {"at", "frame", "prev"}
    BY <1>1 DEF AirInv, Shape, Idle
<1>3. \A q \in Proc : call'[q].at = "launch" => call[q].at = "launch"
    BY <1>1 DEF AirInv, Shape, Idle
<1>4. DOMAIN tx' = DOMAIN tx /\ tx'.seq = tx.seq /\ tx'.buf = tx.buf /\ tx'.armed = tx.armed
    BY DEF DescriptorExpires, TxReturn, AirInv, Shape
<1> QED
    BY <1>2, <1>3, <1>4 DEF AirInv, Shape, Numbered

\* The MAC sends what is in the buffer, or gives it up, and the NMI takes note.
LEMMA HwSendStep == ASSUME AirInv, HwSend PROVE AirInv'
<1>1. DOMAIN tx' = DOMAIN tx /\ tx'.seq = tx.seq /\ tx'.buf = tx.buf /\ tx'.armed = FALSE
    BY DEF HwSend, AirInv, Shape
<1>2. air' = tx.buf /\ tx.armed /\ call' = call
    BY DEF HwSend
<1> QED
    BY <1>1, <1>2 DEF AirInv, Shape, Numbered

LEMMA HwOtherStep ==
    ASSUME AirInv, HwStall \/ wifi_fiq_dispatch
    PROVE  AirInv'
<1>1. DOMAIN tx' = DOMAIN tx /\ tx'.seq = tx.seq /\ tx'.buf = tx.buf /\ (tx'.armed => tx.armed)
    BY DEF HwStall, wifi_fiq_dispatch, AirInv, Shape
<1>2. UNCHANGED <<air, call>>
    BY DEF HwStall, wifi_fiq_dispatch
<1> QED
    BY <1>1, <1>2 DEF AirInv, Shape, Numbered

\* The servicer, ipv4_proc and the client outside wifi_tx_frame, and the
\* network.
LEMMA OtherStep ==
    ASSUME AirInv,
           \/ rx_dump \/ wifi_rx_servicer \/ ipv4_proc \/ ipv4_release \/ Client
           \/ HwReceive \/ Neighbourly \/ LinkUp \/ Rare
    PROVE  AirInv'
<1> USE DEF envVars, rxVars
<1>1. CASE rx_dump
    <2>1. UNCHANGED call \/ \E p \in Proc : \E f : Transmit(p, f)
        BY <1>1 DEF rx_dump, net_recv, ipv4_enqueue, arp_recv, Proc
    <2> QED BY <1>1, <2>1, AirQuiet DEF rx_dump
<1>2. CASE ipv4_proc
    <2>1. UNCHANGED call \/ \E p \in Proc : \E f : Transmit(p, f)
        BY <1>2 DEF ipv4_proc, ipv4_recv, icmp_recv, Proc
    <2> QED BY <1>2, <2>1, AirQuiet DEF ipv4_proc
<1>3. CASE Client
    <2>1. UNCHANGED call \/ \E p \in Proc : \E f : Transmit(p, f)
        BY <1>3 DEF Client, net_send, arp_cache_lookup, ArpExpires, dhcp_read,
                    ReadExpires, dhcp_unanswered, dns_resolve, dns_read, Proc
    <2> QED BY <1>3, <2>1, AirQuiet DEF Client
<1>4. CASE wifi_rx_servicer \/ ipv4_release \/ HwReceive \/ Neighbourly \/ LinkUp \/ Rare
    <2>1. UNCHANGED <<tx, air, call>>
        BY <1>4 DEF wifi_rx_servicer, ipv4_release, HwReceive, Neighbourly, LinkUp, Rare
    <2> QED BY <2>1, AirQuiet
<1> QED
    BY <1>1, <1>2, <1>3, <1>4

LEMMA AirNext == AirInv /\ [Next]_vars => AirInv'
<1> SUFFICES ASSUME AirInv, [Next]_vars PROVE AirInv'
    OBVIOUS
<1>1. ASSUME NEW p \in Proc, wifi_tx_frame(p) PROVE AirInv'
    BY <1>1, FillStep, LaunchStep, ReturnStep DEF wifi_tx_frame
<1>2. CASE UNCHANGED vars
    BY <1>2, AirQuiet DEF vars
<1> QED
    BY <1>1, <1>2, HwSendStep, HwOtherStep, OtherStep DEF Next

\* Only the MAC puts a frame on the air.
LEMMA AirStep == AirInv /\ [Next]_vars => [air' # air => air'.seq > air.seq]_vars
<1> SUFFICES ASSUME AirInv, Next, air' # air PROVE air'.seq > air.seq
    BY DEF vars
<1>1. HwSend
    <2> USE DEF envVars, rxVars
    <2>1. ~(wifi_fiq_dispatch \/ rx_dump \/ wifi_rx_servicer \/ ipv4_proc \/ ipv4_release)
        BY DEF wifi_fiq_dispatch, rx_dump, wifi_rx_servicer, ipv4_proc, ipv4_release
    <2>2. ~(\E p \in Proc : wifi_tx_frame(p)) /\ ~Client
        BY DEF wifi_tx_frame, Client
    <2>3. ~(HwStall \/ HwReceive \/ Neighbourly \/ LinkUp \/ Rare)
        BY DEF HwStall, HwReceive, Neighbourly, LinkUp, Rare
    <2> QED BY <2>1, <2>2, <2>3 DEF Next
<1>2. air' = tx.buf
    BY <1>1 DEF HwSend
<1> QED
    BY <1>2 DEF AirInv, Shape, Numbered

\* The frames on the air carry ever higher numbers, whichever of the three
\* processes transmits, in whatever order they take and give up the one
\* descriptor, and however late its completion comes (wifi_tx_frame).
THEOREM AirOrdered == Spec => AirOrder
<1>1. Init => AirInv
    BY AirInit
<1>2. AirInv /\ [Next]_vars => AirInv'
    BY AirNext
<1>3. AirInv /\ [Next]_vars => [air' # air => air'.seq > air.seq]_vars
    BY AirStep
<1> QED
    BY <1>1, <1>2, <1>3, PTL DEF Spec, AirOrder

-----------------------------------------------------------------------------
(* Who is talked to.  The frames of this network, each way: what comes in  *)
(* carries its sender's addresses, and an acknowledgement a lease that was *)
(* asked for.                                                              *)

Inbound(given) ==
    {Frame("udp", s, s, <<"offer", s>>) : s \in Servers}
    \cup {Frame("udp", s, s, <<"ack", s>>) : s \in given}
    \cup {Frame("udp", Router, NameServer, <<"answer", i>>) : i \in 1 .. Questions}
    \cup {Frame("arp_reply", Router, Router, <<>>)}
    \cup {Frame("arp_request", Neighbour, s, <<>>) : s \in Servers}
    \cup {Frame("echo", Neighbour, Neighbour, <<s>>) : s \in Servers \cup {All}}
    \cup {NoFrame}

Datagram(given) == {f \in Inbound(given) : f.kind = "udp"}

Outbound ==
    {Frame("udp", All, All, <<"discover", Nobody>>)}
    \cup {Frame("udp", All, All, <<"request", s>>) : s \in Servers}
    \cup {Frame("udp", Router, NameServer, <<"query", i>>) : i \in 1 .. Questions}
    \cup {Frame("arp_request", All, Router, <<>>)}
    \cup {Frame(k, Neighbour, Neighbour, <<>>) : k \in {"arp_reply", "echo_reply"}}
    \cup {NoFrame}

Ring(slots, given) ==
    [slot : [0 .. slots - 1 -> Inbound(given)], head : 0 .. Wrap - 1, tail : 0 .. Wrap - 1]
IpRing(given) ==
    [slot : [0 .. IpSlots - 1 -> Inbound(given)], head : 0 .. Wrap - 1, tail : 0 .. Wrap - 1,
     sem : Nat]

\* An entry says of a host its own address.
Known == {[ip |-> h, host |-> h] : h \in {Router, Neighbour, Nobody}}

\* What comes in, on its way up.
Received(given) ==
    /\ lan \in Seq(Inbound(given)) /\ dma \in Seq(Inbound(given)) /\ Len(dma) <= DmaSlots
    /\ stage \in Ring(StageSlots, given) /\ Count(stage) <= StageSlots
    /\ ring \in IpRing(given) /\ Count(ring) <= IpSlots
    /\ busy \in [servicer : BOOLEAN, ipv4 : BOOLEAN]
    /\ ring.sem = Count(ring) - (IF busy.ipv4 THEN 1 ELSE 0)
    /\ busy.servicer => Count(stage) > 0
    /\ DOMAIN sock \subseteq {"dhcp", "dns"}
    /\ \A p \in DOMAIN sock : sock[p] \in Seq(Datagram(given)) /\ Len(sock[p]) <= UdpSlots

\* What goes out.
Sending ==
    /\ tx \in [busy : BOOLEAN, buf : [seq : Nat, frame : Outbound], seq : Nat,
               count : 0 .. Wrap - 1, armed : BOOLEAN, done : BOOLEAN]
    /\ call \in [Proc -> [at : {"idle", "fill", "launch", "wait"}, frame : Outbound,
                          prev : 0 .. Wrap - 1]]
    /\ air \in [seq : Int, frame : Outbound]
    /\ cache \in Seq(Known) /\ Len(cache) <= CacheSize

\* One call at a time has the descriptor; a process that is not sending is in
\* no call.
HasDescriptor(p) == call[p].at \in {"launch", "wait"}

OneSender ==
    /\ tx.busy <=> \E p \in Proc : HasDescriptor(p)
    /\ \A p, q \in Proc : HasDescriptor(p) /\ HasDescriptor(q) => p = q
    /\ call.servicer.at # "idle" => busy.servicer
    /\ call.ipv4.at # "idle" => busy.ipv4

ClientType ==
    [phase : {"discover", "request", "resolve", "failed"},
     at : {"write", "tx", "lookup", "arp", "read", "expired", "ask", "stop"},
     tries : 0 .. Retries - 1, arp : 0 .. ArpRetries,
     offer : Servers \cup {Nobody}, ip : Servers \cup {Nobody},
     id : 0 .. Questions, answer : 0 .. Questions]

\* The client's place, its call and its socket go together.
ClientFits(c, k, open) ==
    /\ c.phase = "failed" <=> c.at = "stop"
    /\ c.phase = "request" => c.offer \in Servers
    /\ c.phase \in {"discover", "request"} => "dhcp" \in open
    /\ c.phase = "resolve" /\ c.at # "ask" => "dns" \in open /\ c.id > 0
    /\ c.at = "ask" => c.phase = "resolve"
    /\ c.at = "expired" => c.phase # "resolve"
    /\ c.at \in {"lookup", "arp"} => c.phase = "resolve"
    /\ k.at # "idle" => c.at = "tx"
    /\ c.at = "arp" \/ (k.at # "idle" /\ k.frame.kind = "arp_request") =>
           c.phase = "resolve" /\ c.arp < ArpRetries

PeerInv ==
    /\ Received(leases) /\ Sending /\ OneSender
    /\ cl \in ClientType /\ ClientFits(cl, call.client, DOMAIN sock)
    /\ cl.ip # Nobody => cl.ip \in leases
    /\ cl.answer # 0 => cl.answer = cl.id
    /\ leases \subseteq Servers /\ up \in BOOLEAN /\ faults \in 0 .. MaxFaults

-----------------------------------------------------------------------------
(* Sizes and counters.                                                     *)

LEMMA Sizes ==
    /\ {DmaSlots, StageSlots, IpSlots, UdpSlots, CacheSize, ArpRetries, Retries} \subseteq Nat \ {0}
    /\ DmaSlots \in Nat /\ StageSlots \in Nat /\ IpSlots \in Nat /\ UdpSlots \in Nat
    /\ CacheSize \in Nat /\ ArpRetries \in Nat /\ Retries \in Nat /\ Questions \in Nat
    /\ MaxFaults \in Nat /\ Wrap \in Nat
    /\ StageSlots >= 1 /\ IpSlots >= 1 /\ CacheSize >= 1 /\ ArpRetries >= 1 /\ Retries >= 1
    /\ Wrap > StageSlots /\ Wrap > IpSlots /\ IsFiniteSet(Servers)
<1>1. /\ {DmaSlots, StageSlots, IpSlots, UdpSlots, CacheSize, ArpRetries, Retries} \subseteq Nat \ {0}
      /\ Wrap \in Nat /\ \A slots \in {StageSlots, IpSlots} : Wrap > slots
      /\ {Questions, Noise, MaxFaults} \subseteq Nat /\ IsFiniteSet(Servers)
    BY NetAssumption, Zenon
<1>2. /\ DmaSlots \in Nat \ {0} /\ StageSlots \in Nat \ {0} /\ IpSlots \in Nat \ {0}
      /\ UdpSlots \in Nat \ {0} /\ CacheSize \in Nat \ {0} /\ ArpRetries \in Nat \ {0}
      /\ Retries \in Nat \ {0} /\ Questions \in Nat /\ MaxFaults \in Nat
      /\ Wrap > StageSlots /\ Wrap > IpSlots
    BY <1>1, Zenon
<1>3. /\ StageSlots >= 1 /\ IpSlots >= 1 /\ CacheSize >= 1 /\ ArpRetries >= 1 /\ Retries >= 1
    BY <1>2
<1> QED
    BY <1>1, <1>2, <1>3

\* A ring's count follows its head and its tail around the counters' end.
LEMMA Counting ==
    ASSUME NEW w \in Nat, NEW h \in 0 .. w - 1, NEW t \in 0 .. w - 1
    PROVE  /\ (h - t) % w \in 0 .. w - 1
           /\ (h - t) % w < w - 1 => (((h + 1) % w) - t) % w = ((h - t) % w) + 1
           /\ (h - t) % w > 0 => (h - ((t + 1) % w)) % w = ((h - t) % w) - 1
           /\ (h + 1) % w \in 0 .. w - 1 /\ (t + 1) % w \in 0 .. w - 1
<1>1. w >= 1 /\ h \in Int /\ t \in Int /\ 0 <= h /\ h < w /\ 0 <= t /\ t < w
    OBVIOUS
<1>2. \A a \in Int : 0 <= a /\ a < w => a % w = a
    BY <1>1
<1>3. \A a \in Int : 0 - w <= a /\ a < 0 => a % w = a + w
    BY <1>1, SMTT(60)
<1>4. w % w = 0
    BY <1>1
<1>5. (h + 1) % w = IF h + 1 = w THEN 0 ELSE h + 1
    BY <1>1, <1>2, <1>4
<1>6. (t + 1) % w = IF t + 1 = w THEN 0 ELSE t + 1
    BY <1>1, <1>2, <1>4
<1>7. \A x, y \in Int : 0 <= x /\ x < w /\ 0 <= y /\ y < w =>
          (x - y) % w = IF x >= y THEN x - y ELSE x - y + w
    <2> TAKE x, y \in Int
    <2> HAVE 0 <= x /\ x < w /\ 0 <= y /\ y < w
    <2>1. CASE x >= y
        <3>1. x - y \in Int /\ 0 <= x - y /\ x - y < w
            BY <2>1
        <3> QED BY <1>2, <2>1, <3>1
    <2>2. CASE x < y
        <3>1. x - y \in Int /\ 0 - w <= x - y /\ x - y < 0
            BY <2>2
        <3> QED BY <1>3, <2>2, <3>1
    <2> QED BY <2>1, <2>2
<1>8. (h - t) % w = IF h >= t THEN h - t ELSE h - t + w
    BY <1>1, <1>7
<1> DEFINE h1 == (h + 1) % w
           t1 == (t + 1) % w
<1>9. h1 \in Int /\ 0 <= h1 /\ h1 < w /\ t1 \in Int /\ 0 <= t1 /\ t1 < w
    BY <1>1, <1>5, <1>6
<1>10. (h1 - t) % w = IF h1 >= t THEN h1 - t ELSE h1 - t + w
    BY <1>1, <1>7, <1>9
<1>11. (h - t1) % w = IF h >= t1 THEN h - t1 ELSE h - t1 + w
    BY <1>1, <1>7, <1>9
<1> DEFINE c == (h - t) % w
           c1 == (h1 - t) % w
           c2 == (h - t1) % w
<1>12. c \in 0 .. w - 1
    BY <1>1, <1>8
<1>13. c < w - 1 => c1 = c + 1
    <2> HIDE DEF h1
    <2>1. h1 = IF h + 1 = w THEN 0 ELSE h + 1
        BY <1>5 DEF h1
    <2> HIDE DEF c, c1
    <2> QED BY <1>1, <1>8, <1>9, <1>10, <2>1 DEF c, c1
<1>14. c > 0 => c2 = c - 1
    <2> HIDE DEF t1
    <2>1. t1 = IF t + 1 = w THEN 0 ELSE t + 1
        BY <1>6 DEF t1
    <2> QED BY <1>1, <1>8, <1>9, <1>11, <2>1
<1>15. h1 \in 0 .. w - 1 /\ t1 \in 0 .. w - 1
    BY <1>1, <1>9
<1> QED
    BY <1>12, <1>13, <1>14, <1>15

-----------------------------------------------------------------------------
(* The drain, frame by frame.                                              *)

Copied(d, n) == d = [i \in 0 .. n |-> IF i = 0 THEN stage ELSE Staged(d[i - 1], dma[i])]

LEMMA DrainExists == ASSUME NEW n \in Nat PROVE \E d : Copied(d, n)
<1> DEFINE S == {k \in Nat : ~ \E d : Copied(d, k)}
<1> SUFFICES ASSUME S # {} PROVE FALSE
    OBVIOUS
<1>1. \E x \in S : \A y \in S : ~(<<y, x>> \in OpToRel(<, Nat))
    <2> HIDE DEF S
    <2>1. S \subseteq Nat
        BY DEF S
    <2> QED BY <2>1, NatLessThanWellFounded, WFMin
<1>2. PICK k \in S : \A y \in S : ~(<<y, k>> \in OpToRel(<, Nat))
    BY <1>1
<1>3. k \in Nat /\ ~ \E d : Copied(d, k)
    OBVIOUS
<1>4. k # 0
    <2> DEFINE d == [i \in 0 .. 0 |-> stage]
    <2>1. d = [i \in 0 .. 0 |-> IF i = 0 THEN stage ELSE Staged(d[i - 1], dma[i])]
        OBVIOUS
    <2>2. Copied(d, 0)
        BY <2>1 DEF Copied
    <2> QED BY <1>3, <2>2
<1>5. k - 1 \in Nat /\ k - 1 < k
    BY <1>3, <1>4
<1>6. k - 1 \notin S
    BY <1>2, <1>3, <1>5 DEF OpToRel
<1>7. PICK e : Copied(e, k - 1)
    BY <1>5, <1>6
<1> DEFINE d == [i \in 0 .. k |-> IF i \in 0 .. k - 1 THEN e[i] ELSE Staged(e[k - 1], dma[k])]
<1>8. \A i \in 0 .. k : d[i] = IF i = 0 THEN stage ELSE Staged(d[i - 1], dma[i])
    <2> TAKE i \in 0 .. k
    <2>1. \A j \in 0 .. k - 1 : e[j] = IF j = 0 THEN stage ELSE Staged(e[j - 1], dma[j])
        BY <1>7 DEF Copied
    <2>2. CASE i = k
        <3>1. i # 0 /\ i - 1 = k - 1 /\ i - 1 \in 0 .. k - 1 /\ i - 1 \in 0 .. k /\ i \notin 0 .. k - 1
            BY <1>3, <1>4, <2>2
        <3> QED BY <2>2, <3>1
    <2>3. CASE i # k
        <3>1. i \in 0 .. k - 1
            BY <1>3, <2>3
        <3>2. i # 0 => i - 1 \in 0 .. k - 1 /\ i - 1 \in 0 .. k
            BY <3>1
        <3> QED BY <2>1, <3>1, <3>2
    <2> QED BY <2>2, <2>3
<1>9. Copied(d, k)
    <2>1. d = [i \in 0 .. k |-> d[i]]
        OBVIOUS
    <2> HIDE DEF d
    <2> QED BY <1>8, <2>1 DEF Copied
<1> QED
    BY <1>3, <1>9

\* What the NMI leaves in the stage ring.
LEMMA DrainIs ==
    ASSUME wifi_rx_nmi_drain, Len(dma) \in Nat
    PROVE  \E d : Copied(d, Len(dma)) /\ stage' = d[Len(dma)]
<1> DEFINE d == CHOOSE d : Copied(d, Len(dma))
<1>1. Copied(d, Len(dma))
    BY DrainExists
<1>2. stage' = d[Len(dma)]
    BY DEF wifi_rx_nmi_drain, Copied
<1> QED
    BY <1>1, <1>2

\* A copied frame takes a slot while there is one.
LEMMA StagedKeeps ==
    ASSUME NEW given, NEW r \in Ring(StageSlots, given), Count(r) <= StageSlots,
           NEW f \in Inbound(given)
    PROVE  /\ Staged(r, f) \in Ring(StageSlots, given) /\ Count(Staged(r, f)) <= StageSlots
           /\ Count(Staged(r, f)) >= Count(r)
<1> DEFINE h == r.head % StageSlots
           h1 == (r.head + 1) % Wrap
           s == [r.slot EXCEPT ![h] = f]
<1>1. /\ StageSlots \in Nat /\ StageSlots >= 1 /\ Wrap \in Nat /\ Wrap > StageSlots
    BY Sizes
<1>2. /\ r = [slot |-> r.slot, head |-> r.head, tail |-> r.tail]
      /\ r.head \in 0 .. Wrap - 1 /\ r.tail \in 0 .. Wrap - 1
      /\ r.slot \in [0 .. StageSlots - 1 -> Inbound(given)]
    BY DEF Ring
<1>3. h1 \in 0 .. Wrap - 1 /\ Count(r) \in 0 .. Wrap - 1
    BY <1>1, <1>2, Counting DEF Count
<1>4. CASE Count(r) < StageSlots
    <2>1. Staged(r, f) = [slot |-> s, head |-> h1, tail |-> r.tail]
        BY <1>2, <1>4 DEF Staged
    <2>2. s \in [0 .. StageSlots - 1 -> Inbound(given)]
        BY <1>2
    <2> HIDE DEF s
    <2>3. Staged(r, f) \in Ring(StageSlots, given)
        <3> HIDE DEF h1
        <3> QED BY <1>2, <1>3, <2>1, <2>2 DEF Ring
    <2>4. (h1 - r.tail) % Wrap = Count(r) + 1
        <3>1. (r.head - r.tail) % Wrap < Wrap - 1
            <4>1. Count(r) < Wrap - 1
                BY <1>1, <1>3, <1>4
            <4> QED BY <4>1 DEF Count
        <3> QED BY <1>1, <1>2, <3>1, Counting DEF Count
    <2> HIDE DEF h1
    <2>5. Count(Staged(r, f)) = Count(r) + 1
        BY <2>1, <2>4 DEF Count
    <2> HIDE DEF Count
    <2> QED BY <1>1, <1>3, <1>4, <2>3, <2>5
<1>5. CASE ~(Count(r) < StageSlots)
    BY <1>3, <1>5 DEF Staged
<1> QED
    BY <1>4, <1>5

LEMMA DrainKeeps ==
    ASSUME NEW given, NEW n \in Nat, NEW d, Copied(d, n),
           stage \in Ring(StageSlots, given), Count(stage) <= StageSlots,
           \A i \in 1 .. n : dma[i] \in Inbound(given)
    PROVE  d[n] \in Ring(StageSlots, given) /\ Count(d[n]) <= StageSlots /\ Count(d[n]) >= Count(stage)
<1> DEFINE P(i) == d[i] \in Ring(StageSlots, given) /\ Count(d[i]) <= StageSlots
                   /\ Count(d[i]) >= Count(stage)
           S == {i \in 0 .. n : ~P(i)}
<1>1. \A i \in 0 .. n : d[i] = IF i = 0 THEN stage ELSE Staged(d[i - 1], dma[i])
    BY DEF Copied
<1>2. \A r \in Ring(StageSlots, given) : Count(r) \in Int
    <2>1. Wrap \in Nat
        BY Sizes
    <2> TAKE r \in Ring(StageSlots, given)
    <2>2. r.head \in 0 .. Wrap - 1 /\ r.tail \in 0 .. Wrap - 1
        BY DEF Ring
    <2> QED BY <2>1, <2>2, Counting DEF Count
<1>3. P(0)
    <2>1. 0 \in 0 .. n
        OBVIOUS
    <2>2. d[0] = stage
        BY <1>1, <2>1
    <2>3. Count(stage) >= Count(stage)
        BY <1>2
    <2> QED BY <2>2, <2>3
<1>4. ASSUME NEW i \in 1 .. n, P(i - 1) PROVE P(i)
    <2>1. i \in 0 .. n /\ i # 0
        OBVIOUS
    <2>2. d[i] = Staged(d[i - 1], dma[i])
        BY <1>1, <2>1
    <2>3. /\ d[i] \in Ring(StageSlots, given) /\ Count(d[i]) <= StageSlots
          /\ Count(d[i]) >= Count(d[i - 1])
        BY <1>4, <2>2, StagedKeeps
    <2>4. Count(d[i]) \in Int /\ Count(d[i - 1]) \in Int /\ Count(stage) \in Int
        BY <1>2, <1>4, <2>3
    <2> QED BY <1>4, <2>3, <2>4
<1> HIDE DEF P
<1>5. S = {}
    <2> SUFFICES ASSUME S # {} PROVE FALSE
        OBVIOUS
    <2>1. S \subseteq Nat
        OBVIOUS
    <2> HIDE DEF S
    <2>2. \E x \in S : \A y \in S : ~(<<y, x>> \in OpToRel(<, Nat))
        BY <2>1, NatLessThanWellFounded, WFMin
    <2>3. PICK k \in S : \A y \in S : ~(<<y, k>> \in OpToRel(<, Nat))
        BY <2>2
    <2>4. k \in 0 .. n /\ ~P(k)
        BY <2>3 DEF S
    <2>5. k # 0
        BY <1>3, <2>4
    <2>6. k \in 1 .. n /\ k - 1 \in 0 .. n /\ k - 1 \in Nat /\ k \in Nat /\ k - 1 < k
        BY <2>4, <2>5
    <2>7. k - 1 \notin S
        BY <2>3, <2>6 DEF OpToRel
    <2>8. P(k - 1)
        BY <2>6, <2>7 DEF S
    <2> QED BY <1>4, <2>4, <2>6, <2>8
<1>6. P(n)
    BY <1>5
<1> QED
    BY <1>6 DEF P

\* The NMI only adds to the stage ring.
LEMMA NmiKeeps ==
    ASSUME NEW given, wifi_rx_nmi_drain, dma \in Seq(Inbound(given)),
           stage \in Ring(StageSlots, given), Count(stage) <= StageSlots
    PROVE  /\ stage' \in Ring(StageSlots, given) /\ Count(stage') <= StageSlots
           /\ Count(stage') >= Count(stage) /\ dma' = <<>>
<1>1. Len(dma) \in Nat /\ \A i \in 1 .. Len(dma) : dma[i] \in Inbound(given)
    BY LenProperties, ElementOfSeq
<1>2. PICK d : Copied(d, Len(dma)) /\ stage' = d[Len(dma)]
    BY <1>1, DrainIs
<1>3. dma' = <<>>
    BY DEF wifi_rx_nmi_drain
<1> QED
    BY <1>1, <1>2, <1>3, DrainKeeps

\* A slot given back.
LEMMA StageReleased ==
    ASSUME NEW given, NEW r \in Ring(StageSlots, given), Count(r) > 0, Count(r) <= StageSlots
    PROVE  LET r1 == Released(r, StageSlots)
           IN  r1 \in Ring(StageSlots, given) /\ Count(r1) = Count(r) - 1
<1> DEFINE i == r.tail % StageSlots
           t1 == (r.tail + 1) % Wrap
           s == [r.slot EXCEPT ![i] = NoFrame]
<1>1. Wrap \in Nat
    BY Sizes
<1>2. /\ r = [slot |-> r.slot, head |-> r.head, tail |-> r.tail]
      /\ r.head \in 0 .. Wrap - 1 /\ r.tail \in 0 .. Wrap - 1
      /\ r.slot \in [0 .. StageSlots - 1 -> Inbound(given)]
    BY DEF Ring
<1>3. t1 \in 0 .. Wrap - 1 /\ (r.head - t1) % Wrap = Count(r) - 1
    BY <1>1, <1>2, Counting DEF Count
<1>4. Released(r, StageSlots) = [slot |-> s, head |-> r.head, tail |-> t1]
    <2>1. Released(r, StageSlots) = [r EXCEPT !.slot[i] = NoFrame, !.tail = t1]
        BY DEF Released
    <2> HIDE DEF i, t1
    <2> QED BY <1>2, <2>1
<1>5. s \in [0 .. StageSlots - 1 -> Inbound(given)]
    BY <1>2 DEF Inbound
<1> HIDE DEF s, t1
<1> QED
    BY <1>2, <1>3, <1>4, <1>5 DEF Ring, Count

LEMMA RingReleased ==
    ASSUME NEW given, NEW r \in IpRing(given), Count(r) > 0, Count(r) <= IpSlots
    PROVE  LET r1 == Released(r, IpSlots)
           IN  r1 \in IpRing(given) /\ Count(r1) = Count(r) - 1 /\ r1.sem = r.sem
<1> DEFINE i == r.tail % IpSlots
           t1 == (r.tail + 1) % Wrap
           s == [r.slot EXCEPT ![i] = NoFrame]
<1>1. Wrap \in Nat
    BY Sizes
<1>2. /\ r = [slot |-> r.slot, head |-> r.head, tail |-> r.tail, sem |-> r.sem]
      /\ r.head \in 0 .. Wrap - 1 /\ r.tail \in 0 .. Wrap - 1 /\ r.sem \in Nat
      /\ r.slot \in [0 .. IpSlots - 1 -> Inbound(given)]
    BY DEF IpRing
<1>3. t1 \in 0 .. Wrap - 1 /\ (r.head - t1) % Wrap = Count(r) - 1
    BY <1>1, <1>2, Counting DEF Count
<1>4. Released(r, IpSlots) = [slot |-> s, head |-> r.head, tail |-> t1, sem |-> r.sem]
    <2>1. Released(r, IpSlots) = [r EXCEPT !.slot[i] = NoFrame, !.tail = t1]
        BY DEF Released
    <2> HIDE DEF i, t1
    <2> QED BY <1>2, <2>1
<1>5. s \in [0 .. IpSlots - 1 -> Inbound(given)]
    BY <1>2 DEF Inbound
<1> HIDE DEF s, t1
<1> QED
    BY <1>2, <1>3, <1>4, <1>5 DEF IpRing, Count

-----------------------------------------------------------------------------
(* The frames.                                                             *)

LEMMA InboundFacts ==
    ASSUME NEW given, NEW f \in Inbound(given)
    PROVE  /\ f.kind = "none" => f = NoFrame /\ f.host = Nobody /\ f.ip = Nobody
           /\ f.kind = "arp_reply" => f.host = Router /\ f.ip = Router
           /\ f.kind = "arp_request" => f.host = Neighbour
           /\ f.kind = "echo" => f.host = Neighbour /\ f.ip = Neighbour
           /\ f.kind = "udp" => /\ f.body[1] = "offer" => f.body[2] \in Servers
                                /\ f.body[1] = "ack" => f.body[2] \in given
                                /\ f.body[1] = "answer" => f.body[2] \in 1 .. Questions
                                /\ f.body[1] \in {"offer", "ack", "answer"}
           /\ f.kind \in {"none", "arp_reply", "arp_request", "echo", "udp"}
<1>1. CASE \E s \in Servers : f = Frame("udp", s, s, <<"offer", s>>)
    BY <1>1 DEF Frame
<1>2. CASE \E s \in given : f = Frame("udp", s, s, <<"ack", s>>)
    BY <1>2 DEF Frame
<1>3. CASE \E i \in 1 .. Questions : f = Frame("udp", Router, NameServer, <<"answer", i>>)
    BY <1>3 DEF Frame
<1>4. CASE f = Frame("arp_reply", Router, Router, <<>>)
    BY <1>4 DEF Frame
<1>5. CASE \E s \in Servers : f = Frame("arp_request", Neighbour, s, <<>>)
    BY <1>5 DEF Frame
<1>6. CASE \E s \in Servers \cup {All} : f = Frame("echo", Neighbour, Neighbour, <<s>>)
    BY <1>6 DEF Frame
<1>7. CASE f = NoFrame
    BY <1>7 DEF Frame, NoFrame
<1> QED
    BY <1>1, <1>2, <1>3, <1>4, <1>5, <1>6, <1>7 DEF Inbound

LEMMA OutboundFacts ==
    ASSUME NEW f \in Outbound
    PROVE  /\ f.kind # "none" =>
                 f.host = IF f.kind = "arp_request" THEN All ELSE NextHop(f.ip)
           /\ f.kind = "arp_request" => f.ip = Router
           /\ f.kind = "udp" => /\ f.body[1] = "request" => f.body[2] \in Servers
                                /\ f.body[1] = "query" => f.body[2] \in 1 .. Questions
                                /\ f.body[1] \in {"discover", "request", "query"}
           /\ f.kind \in {"none", "udp", "arp_request", "arp_reply", "echo_reply"}
<1>1. CASE f = Frame("udp", All, All, <<"discover", Nobody>>)
    BY <1>1 DEF Frame, NextHop, All, NameServer
<1>2. CASE \E s \in Servers : f = Frame("udp", All, All, <<"request", s>>)
    BY <1>2 DEF Frame, NextHop, All, NameServer
<1>3. CASE \E i \in 1 .. Questions : f = Frame("udp", Router, NameServer, <<"query", i>>)
    BY <1>3 DEF Frame, NextHop
<1>4. CASE f = Frame("arp_request", All, Router, <<>>)
    BY <1>4 DEF Frame
<1>5. CASE \E k \in {"arp_reply", "echo_reply"} : f = Frame(k, Neighbour, Neighbour, <<>>)
    BY <1>5 DEF Frame, NextHop, Neighbour, NameServer
<1>6. CASE f = NoFrame
    BY <1>6 DEF Frame, NoFrame
<1> QED
    BY <1>1, <1>2, <1>3, <1>4, <1>5, <1>6 DEF Outbound

\* A lease more is no harm to what is under way.
LEMMA MoreLeases ==
    ASSUME NEW g, NEW h, g \subseteq h
    PROVE  /\ Inbound(g) \subseteq Inbound(h)
           /\ Seq(Inbound(g)) \subseteq Seq(Inbound(h))
           /\ Seq(Datagram(g)) \subseteq Seq(Datagram(h))
           /\ Ring(StageSlots, g) \subseteq Ring(StageSlots, h)
           /\ IpRing(g) \subseteq IpRing(h)
<1>1. Inbound(g) \subseteq Inbound(h)
    BY DEF Inbound
<1> HIDE DEF Inbound
<1>2. Seq(Inbound(g)) \subseteq Seq(Inbound(h))
    BY <1>1, SeqMonotonic
<1>5. Seq(Datagram(g)) \subseteq Seq(Datagram(h))
    <2>1. Datagram(g) \subseteq Datagram(h)
        BY <1>1 DEF Datagram
    <2> QED BY <2>1, SeqMonotonic
<1>3. Ring(StageSlots, g) \subseteq Ring(StageSlots, h)
    BY <1>1 DEF Ring
<1>4. IpRing(g) \subseteq IpRing(h)
    BY <1>1 DEF IpRing
<1> QED
    BY <1>1, <1>2, <1>3, <1>4, <1>5

LEMMA ServersInTurn == SetToSeq(Servers) \in Seq(Servers)
<1> DEFINE n == Cardinality(Servers)
<1>1. n \in Nat /\ ExistsBijection(1 .. n, Servers)
    BY Sizes, FS_CardinalityType
<1>2. \E f \in [1 .. n -> Servers] : IsInjective(f)
    BY <1>1 DEF ExistsBijection, Bijection, Injection
<1>3. SetToSeq(Servers) \in [1 .. n -> Servers]
    BY <1>2 DEF SetToSeq
<1> HIDE DEF n
<1> QED
    BY <1>1, <1>3, IsASeq

\* What the network answers.
LEMMA AnswersAre ==
    ASSUME NEW f \in Outbound, NEW given, f.kind = "udp" /\ f.body[1] = "request" => f.body[2] \in given
    PROVE  Answers(f) \in Seq(Inbound(given))
<1> DEFINE R == Inbound(given)
<1>1. CASE f.kind = "arp_request"
    <2>1. Answers(f) = <<Frame("arp_reply", Router, Router, <<>>)>>
        BY <1>1, OutboundFacts DEF Answers
    <2>2. Frame("arp_reply", Router, Router, <<>>) \in R
        BY DEF Inbound
    <2> HIDE DEF R
    <2> QED BY <2>1, <2>2 DEF R
<1>2. CASE f.kind = "udp" /\ f.body[1] = "discover"
    <2> DEFINE ss == SetToSeq(Servers)
               a == [i \in 1 .. Len(ss) |-> Frame("udp", ss[i], ss[i], <<"offer", ss[i]>>)]
    <2>1. Answers(f) = a
        BY <1>2 DEF Answers
    <2>2. Len(ss) \in Nat /\ \A i \in 1 .. Len(ss) : ss[i] \in Servers
        BY ServersInTurn, LenProperties, ElementOfSeq
    <2> HIDE DEF ss
    <2>3. \A s \in Servers : Frame("udp", s, s, <<"offer", s>>) \in R
        BY DEF Inbound
    <2> HIDE DEF R
    <2>4. \A i \in 1 .. Len(ss) : Frame("udp", ss[i], ss[i], <<"offer", ss[i]>>) \in R
        BY <2>2, <2>3
    <2>5. a \in Seq(R)
        BY <2>2, <2>4, IsASeq
    <2> QED BY <2>1, <2>5 DEF R
<1>3. CASE f.kind = "udp" /\ f.body[1] = "request"
    <2> DEFINE s == f.body[2]
    <2>1. Answers(f) = <<Frame("udp", s, s, <<"ack", s>>)>>
        BY <1>3 DEF Answers
    <2>2. s \in given
        BY <1>3
    <2> HIDE DEF s
    <2>3. Frame("udp", s, s, <<"ack", s>>) \in R
        BY <2>2 DEF Inbound
    <2> HIDE DEF R
    <2> QED BY <2>1, <2>3 DEF R
<1>4. CASE f.kind = "udp" /\ f.body[1] = "query"
    <2> DEFINE i == f.body[2]
    <2>1. Answers(f) = <<Frame("udp", Router, NameServer, <<"answer", i>>)>>
        BY <1>4 DEF Answers
    <2>2. i \in 1 .. Questions
        BY <1>4, OutboundFacts
    <2> HIDE DEF i
    <2>3. Frame("udp", Router, NameServer, <<"answer", i>>) \in R
        BY <2>2 DEF Inbound
    <2> HIDE DEF R
    <2> QED BY <2>1, <2>3 DEF R
<1>5. CASE f.kind \notin {"udp", "arp_request"}
    <2>1. Answers(f) = <<>>
        BY <1>5 DEF Answers
    <2> QED BY <2>1
<1> QED
    BY <1>1, <1>2, <1>3, <1>4, <1>5, OutboundFacts

\* The cache stays short and true.
LEMMA CacheKept ==
    ASSUME cache \in Seq(Known), Len(cache) <= CacheSize, NEW h \in {Router, Neighbour, Nobody},
           arp_cache_store(h, h)
    PROVE  cache' \in Seq(Known) /\ Len(cache') <= CacheSize
<1> DEFINE i == IF \E j \in DOMAIN cache : cache[j].ip = h
                THEN CHOOSE j \in DOMAIN cache : cache[j].ip = h
                ELSE IF Len(cache) < CacheSize THEN Len(cache) + 1 ELSE CacheSize
           e == [ip |-> h, host |-> h]
           n == Len(cache)
           m == IF i = n + 1 THEN n + 1 ELSE n
<1>1. cache' = [j \in 1 .. n \cup {i} |-> IF j = i THEN e ELSE cache[j]]
    BY DEF arp_cache_store
<1>2. n \in Nat /\ DOMAIN cache = 1 .. n /\ \A j \in 1 .. n : cache[j] \in Known
    BY LenProperties, ElementOfSeq
<1>3. CacheSize \in Nat /\ CacheSize >= 1
    BY Sizes
<1>4. e \in Known
    BY DEF Known
<1>5. i \in 1 .. n \/ (i = n + 1 /\ n < CacheSize)
    <2>1. CASE \E j \in DOMAIN cache : cache[j].ip = h
        BY <1>2, <2>1
    <2>2. CASE ~ \E j \in DOMAIN cache : cache[j].ip = h
        BY <1>2, <1>3, <2>2
    <2> QED BY <2>1, <2>2
<1> HIDE DEF i
<1>6. m \in Nat /\ m <= CacheSize /\ 1 .. n \cup {i} = 1 .. m
    <2>1. CASE i \in 1 .. n
        <3>1. i # n + 1
            BY <1>2, <2>1
        <3>2. m = n /\ 1 .. n \cup {i} = 1 .. n
            BY <2>1, <3>1
        <3> QED BY <1>2, <3>2
    <2>2. CASE i = n + 1 /\ n < CacheSize
        <3>1. 1 .. n \cup {n + 1} = 1 .. n + 1
            BY <1>2
        <3> QED BY <1>2, <1>3, <2>2, <3>1
    <2> QED BY <1>5, <2>1, <2>2
<1>7. \A j \in 1 .. m : (IF j = i THEN e ELSE cache[j]) \in Known
    <2> TAKE j \in 1 .. m
    <2>1. j = i \/ j \in 1 .. n
        BY <1>6
    <2> HIDE DEF e
    <2> QED BY <1>2, <1>4, <2>1
<1> HIDE DEF m, e
<1>8. cache' = [j \in 1 .. m |-> IF j = i THEN e ELSE cache[j]]
    BY <1>1, <1>6
<1>9. cache' \in Seq(Known)
    BY <1>6, <1>7, <1>8, IsASeq
<1>10. Len(cache') = m
    BY <1>6, <1>8
<1> QED
    BY <1>6, <1>9, <1>10

-----------------------------------------------------------------------------
(* The way up.                                                             *)

LEMMA PeerParts ==
    ASSUME PeerInv
    PROVE  /\ lan \in Seq(Inbound(leases)) /\ dma \in Seq(Inbound(leases)) /\ Len(dma) <= DmaSlots
           /\ stage \in Ring(StageSlots, leases) /\ Count(stage) <= StageSlots
           /\ ring \in IpRing(leases) /\ Count(ring) <= IpSlots
           /\ busy \in [servicer : BOOLEAN, ipv4 : BOOLEAN]
           /\ ring.sem = Count(ring) - (IF busy.ipv4 THEN 1 ELSE 0)
           /\ busy.servicer => Count(stage) > 0
           /\ DOMAIN sock \subseteq {"dhcp", "dns"}
           /\ \A p \in DOMAIN sock : sock[p] \in Seq(Datagram(leases)) /\ Len(sock[p]) <= UdpSlots
           /\ tx \in [busy : BOOLEAN, buf : [seq : Nat, frame : Outbound], seq : Nat,
                      count : 0 .. Wrap - 1, armed : BOOLEAN, done : BOOLEAN]
           /\ call \in [Proc -> [at : {"idle", "fill", "launch", "wait"}, frame : Outbound,
                                 prev : 0 .. Wrap - 1]]
           /\ air \in [seq : Int, frame : Outbound]
           /\ cache \in Seq(Known) /\ Len(cache) <= CacheSize
           /\ OneSender
           /\ cl \in ClientType /\ ClientFits(cl, call.client, DOMAIN sock)
           /\ (cl.ip # Nobody => cl.ip \in leases) /\ (cl.answer # 0 => cl.answer = cl.id)
           /\ leases \subseteq Servers /\ up \in BOOLEAN /\ faults \in 0 .. MaxFaults
BY DEF PeerInv, Received, Sending

\* The counters are numbers.
LEMMA Counts ==
    ASSUME PeerInv
    PROVE  Count(stage) \in Nat /\ Count(ring) \in Nat /\ ring.sem \in Nat
<1>1. Wrap \in Nat
    BY Sizes
<1>2. /\ stage.head \in 0 .. Wrap - 1 /\ stage.tail \in 0 .. Wrap - 1
      /\ ring.head \in 0 .. Wrap - 1 /\ ring.tail \in 0 .. Wrap - 1 /\ ring.sem \in Nat
    BY PeerParts DEF Ring, IpRing
<1>3. Count(stage) \in 0 .. Wrap - 1 /\ Count(ring) \in 0 .. Wrap - 1
    BY <1>1, <1>2, Counting DEF Count
<1> QED
    BY <1>2, <1>3

LEMMA DispatchPeer == ASSUME PeerInv, wifi_fiq_dispatch PROVE PeerInv'
<1>1. /\ wifi_rx_nmi_drain
      /\ tx' = IF tx.done THEN [tx EXCEPT !.done = FALSE, !.count = (@ + 1) % Wrap] ELSE tx
      /\ UNCHANGED <<ring, busy, call, cache, sock, cl, up, air, lan, leases, faults>>
    BY DEF wifi_fiq_dispatch, envVars
<1>2. /\ stage' \in Ring(StageSlots, leases) /\ Count(stage') <= StageSlots
      /\ Count(stage') >= Count(stage) /\ dma' = <<>>
    BY <1>1, PeerParts, NmiKeeps
<1>3. tx' \in [busy : BOOLEAN, buf : [seq : Nat, frame : Outbound], seq : Nat,
               count : 0 .. Wrap - 1, armed : BOOLEAN, done : BOOLEAN] /\ tx'.busy = tx.busy
    <2>1. (tx.count + 1) % Wrap \in 0 .. Wrap - 1
        BY PeerParts, Sizes, Counting
    <2> QED BY <1>1, <2>1, PeerParts
<1>4. busy.servicer => Count(stage') > 0
    <2>1. stage'.head \in 0 .. Wrap - 1 /\ stage'.tail \in 0 .. Wrap - 1 /\ Wrap \in Nat
        BY <1>2, Sizes DEF Ring
    <2>2. Count(stage') \in 0 .. Wrap - 1
        BY <2>1, Counting DEF Count
    <2> QED BY <1>2, <2>2, PeerParts, Counts
<1>5. dma' \in Seq(Inbound(leases)) /\ Len(dma') <= DmaSlots
    BY <1>2, Sizes
<1>6. Received(leases)'
    BY <1>1, <1>2, <1>4, <1>5, PeerParts DEF Received
<1>7. Sending' /\ OneSender'
    BY <1>1, <1>3, PeerParts DEF Sending, OneSender, HasDescriptor
<1> QED
    BY <1>1, <1>6, <1>7, PeerParts DEF PeerInv

\* A process that is in no call begins one.
LEMMA TransmitKeeps ==
    ASSUME PeerInv, NEW p \in Proc, NEW f \in Outbound, Transmit(p, f), call[p].at = "idle"
    PROVE  /\ call' \in [Proc -> [at : {"idle", "fill", "launch", "wait"}, frame : Outbound,
                                  prev : 0 .. Wrap - 1]]
           /\ \A q \in Proc \ {p} : call'[q] = call[q]
           /\ call'[p].at = "fill" /\ call'[p].frame = f
           /\ \A q \in Proc : HasDescriptor(q)' <=> HasDescriptor(q)
<1>1. 0 \in 0 .. Wrap - 1
    BY Sizes
<1>2. [at |-> "fill", frame |-> f, prev |-> 0] \in
          [at : {"idle", "fill", "launch", "wait"}, frame : Outbound, prev : 0 .. Wrap - 1]
    BY <1>1
<1>3. call' = [call EXCEPT ![p] = [at |-> "fill", frame |-> f, prev |-> 0]]
    BY DEF Transmit
<1>4. /\ call' \in [Proc -> [at : {"idle", "fill", "launch", "wait"}, frame : Outbound,
                             prev : 0 .. Wrap - 1]]
      /\ \A q \in Proc \ {p} : call'[q] = call[q]
      /\ call'[p].at = "fill" /\ call'[p].frame = f
    BY <1>2, <1>3, PeerParts
<1>5. \A q \in Proc : HasDescriptor(q)' <=> HasDescriptor(q)
    BY <1>4 DEF HasDescriptor
<1> QED
    BY <1>4, <1>5

\* Nothing changes for the descriptor.
LEMMA SameSender ==
    ASSUME OneSender, UNCHANGED tx, \A q \in Proc : HasDescriptor(q)' <=> HasDescriptor(q),
           call'.servicer.at # "idle" => busy'.servicer, call'.ipv4.at # "idle" => busy'.ipv4
    PROVE  OneSender'
<1>1. tx'.busy <=> \E p \in Proc : HasDescriptor(p)'
    BY DEF OneSender
<1>2. \A p, q \in Proc : HasDescriptor(p)' /\ HasDescriptor(q)' => p = q
    BY DEF OneSender
<1> QED
    BY <1>1, <1>2 DEF OneSender

LEMMA Callers ==
    "servicer" \in Proc /\ "ipv4" \in Proc /\ "client" \in Proc
BY DEF Proc

LEMMA ArpRecvPeer ==
    ASSUME PeerInv, NEW f \in Inbound(leases), ~IsPacket(f), arp_recv(f),
           NoNmi, ~busy.servicer, Count(stage) > 0,
           busy' = [busy EXCEPT !.servicer = TRUE],
           UNCHANGED <<dma, stage, tx, sock, up, air, envVars, faults>>
    PROVE  PeerInv'
<1>1. UNCHANGED <<dma, stage, ring, tx, sock, up, air, lan, leases, faults>>
    BY DEF arp_recv, envVars
<1>2. busy' \in [servicer : BOOLEAN, ipv4 : BOOLEAN] /\ busy'.servicer = TRUE /\ busy'.ipv4 = busy.ipv4
    BY PeerParts
<1>3. f.host \in {Router, Neighbour, Nobody} /\ (IF f.kind = "arp_reply" THEN f.ip ELSE f.host) = f.host
      /\ (f.kind = "arp_request" => f.host = Neighbour)
    BY InboundFacts DEF IsPacket
<1>4. cache' \in Seq(Known) /\ Len(cache') <= CacheSize
    <2>1. arp_cache_store(f.host, f.host)
        BY <1>3 DEF arp_recv
    <2> QED BY <1>3, <2>1, PeerParts, CacheKept
<1>5. call.servicer.at = "idle"
    BY PeerParts DEF OneSender
<1>6. /\ call' \in [Proc -> [at : {"idle", "fill", "launch", "wait"}, frame : Outbound,
                             prev : 0 .. Wrap - 1]]
      /\ \A q \in Proc \ {"servicer"} : call'[q] = call[q]
      /\ \A q \in Proc : HasDescriptor(q)' <=> HasDescriptor(q)
    <2>1. CASE f.kind = "arp_request" /\ f.ip = cl.ip
        <3> DEFINE g == Frame("arp_reply", f.host, f.host, <<>>)
        <3>1. Transmit("servicer", g)
            BY <2>1 DEF arp_recv
        <3>2. g \in Outbound
            BY <1>3, <2>1 DEF Outbound
        <3> HIDE DEF g
        <3> QED BY <1>5, <3>1, <3>2, Callers, TransmitKeeps
    <2>2. CASE ~(f.kind = "arp_request" /\ f.ip = cl.ip)
        <3>1. call' = call
            BY <2>2 DEF arp_recv
        <3> QED BY <3>1, PeerParts DEF HasDescriptor
    <2> QED BY <2>1, <2>2
<1>7. call'.client = call.client /\ call'.ipv4 = call.ipv4
    BY <1>6, Callers
<1>8. cl' \in ClientType /\ ClientFits(cl', call'.client, DOMAIN sock')
    <2>1. cl' = IF cl.at = "arp" THEN [cl EXCEPT !.at = "lookup"] ELSE cl
        BY DEF arp_recv
    <2>2. cl' \in ClientType
        BY <2>1, PeerParts DEF ClientType
    <2> QED BY <1>1, <1>7, <2>1, <2>2, PeerParts DEF ClientFits, ClientType
<1>9. cl'.ip = cl.ip /\ cl'.answer = cl.answer /\ cl'.id = cl.id
    BY PeerParts DEF arp_recv, ClientType
<1>10. Received(leases)'
    BY <1>1, <1>2, PeerParts DEF Received
<1>11. Sending'
    BY <1>1, <1>4, <1>6, PeerParts DEF Sending
<1>12. OneSender'
    BY <1>1, <1>2, <1>6, <1>7, PeerParts, SameSender DEF OneSender
<1> QED
    BY <1>1, <1>8, <1>9, <1>10, <1>11, <1>12, PeerParts DEF PeerInv

LEMMA EnqueuePeer ==
    ASSUME PeerInv, NEW f \in Inbound(leases), ipv4_enqueue(f),
           NoNmi, ~busy.servicer, Count(stage) > 0,
           busy' = [busy EXCEPT !.servicer = TRUE],
           UNCHANGED <<dma, stage, tx, sock, up, air, envVars, faults>>
    PROVE  PeerInv'
<1> DEFINE i == ring.head % IpSlots
           h1 == (ring.head + 1) % Wrap
           s == [ring.slot EXCEPT ![i] = f]
<1>1. UNCHANGED <<dma, stage, tx, call, cache, cl, sock, up, air, lan, leases, faults>>
    BY DEF ipv4_enqueue, envVars
<1>2. busy' \in [servicer : BOOLEAN, ipv4 : BOOLEAN] /\ busy'.servicer = TRUE /\ busy'.ipv4 = busy.ipv4
    BY PeerParts
<1>3. /\ ring = [slot |-> ring.slot, head |-> ring.head, tail |-> ring.tail, sem |-> ring.sem]
      /\ ring.head \in 0 .. Wrap - 1 /\ ring.tail \in 0 .. Wrap - 1 /\ ring.sem \in Nat
      /\ ring.slot \in [0 .. IpSlots - 1 -> Inbound(leases)] /\ Wrap \in Nat
    BY PeerParts, Sizes DEF IpRing
<1>4. /\ ring' \in IpRing(leases) /\ Count(ring') <= IpSlots
      /\ ring'.sem = Count(ring') - (IF busy.ipv4 THEN 1 ELSE 0)
    <2>1. CASE Count(ring) >= IpSlots
        BY <2>1, PeerParts DEF ipv4_enqueue
    <2>2. CASE ~(Count(ring) >= IpSlots)
        <3>1. ring' = [ring EXCEPT !.slot[i] = f, !.head = h1, !.sem = @ + 1]
            BY <2>2 DEF ipv4_enqueue
        <3>2. h1 \in 0 .. Wrap - 1 /\ (h1 - ring.tail) % Wrap = Count(ring) + 1
            <4>1. Count(ring) < Wrap - 1
                BY <2>2, Sizes, Counts
            <4> QED BY <1>3, <4>1, Counting DEF Count
        <3> HIDE DEF i, h1
        <3>3. ring' = [slot |-> s, head |-> h1, tail |-> ring.tail, sem |-> ring.sem + 1]
            BY <1>3, <3>1
        <3>4. s \in [0 .. IpSlots - 1 -> Inbound(leases)]
            BY <1>3
        <3> HIDE DEF s
        <3>5. ring' \in IpRing(leases) /\ Count(ring') = Count(ring) + 1 /\ ring'.sem = ring.sem + 1
            BY <1>3, <3>2, <3>3, <3>4 DEF IpRing, Count
        <3>6. Count(ring) \in Nat /\ IpSlots \in Nat
            BY Counts, Sizes
        <3>7. ring.sem = Count(ring) - (IF busy.ipv4 THEN 1 ELSE 0)
            BY PeerParts
        <3> QED BY <2>2, <3>5, <3>6, <3>7
    <2> QED BY <2>1, <2>2
<1>5. Received(leases)'
    BY <1>1, <1>2, <1>4, PeerParts DEF Received
<1>6. Sending'
    BY <1>1, PeerParts DEF Sending
<1>7. OneSender'
    BY <1>1, <1>2, PeerParts DEF OneSender, HasDescriptor
<1> QED
    BY <1>1, <1>5, <1>6, <1>7, PeerParts DEF PeerInv

LEMMA DumpPeer == ASSUME PeerInv, rx_dump PROVE PeerInv'
<1> DEFINE f == SlotOf(stage, 0, StageSlots)
<1>1. /\ NoNmi /\ Count(stage) > 0 /\ ~busy.servicer
      /\ busy' = [busy EXCEPT !.servicer = TRUE]
      /\ net_recv(f)
      /\ UNCHANGED <<dma, stage, tx, sock, up, air, envVars, faults>>
    BY DEF rx_dump
<1>2. f \in Inbound(leases)
    <2>1. /\ stage.slot \in [0 .. StageSlots - 1 -> Inbound(leases)] /\ stage.tail \in Nat
          /\ StageSlots \in Nat /\ StageSlots >= 1
        BY PeerParts, Sizes DEF Ring
    <2>2. (stage.tail + 0) % StageSlots \in 0 .. StageSlots - 1
        BY <2>1
    <2> QED BY <2>1, <2>2 DEF SlotOf
<1> HIDE DEF f
<1>3. CASE IsPacket(f)
    BY <1>1, <1>2, <1>3, EnqueuePeer DEF net_recv
<1>4. CASE ~IsPacket(f)
    BY <1>1, <1>2, <1>4, ArpRecvPeer DEF net_recv
<1> QED
    BY <1>3, <1>4

LEMMA ServicedPeer == ASSUME PeerInv, wifi_rx_servicer PROVE PeerInv'
<1>1. /\ busy.servicer /\ call.servicer.at = "idle"
      /\ stage' = Released(stage, StageSlots)
      /\ busy' = [busy EXCEPT !.servicer = FALSE]
      /\ UNCHANGED <<dma, ring, tx, call, cache, sock, cl, up, air, lan, leases, faults>>
    BY DEF wifi_rx_servicer, envVars
<1>2. busy' \in [servicer : BOOLEAN, ipv4 : BOOLEAN] /\ ~busy'.servicer /\ busy'.ipv4 = busy.ipv4
    BY <1>1, PeerParts
<1>3. stage' \in Ring(StageSlots, leases) /\ Count(stage') <= StageSlots
    <2>1. stage' \in Ring(StageSlots, leases) /\ Count(stage') = Count(stage) - 1
        BY <1>1, PeerParts, StageReleased
    <2> QED BY <2>1, PeerParts, Counts, Sizes
<1>4. Received(leases)'
    BY <1>1, <1>2, <1>3, PeerParts DEF Received
<1>5. Sending'
    BY <1>1, PeerParts DEF Sending
<1>6. OneSender'
    BY <1>1, <1>2, PeerParts DEF OneSender, HasDescriptor
<1> QED
    BY <1>1, <1>4, <1>5, <1>6, PeerParts DEF PeerInv

LEMMA Ipv4Peer == ASSUME PeerInv, ipv4_proc PROVE PeerInv'
<1> DEFINE f == SlotOf(ring, 0, IpSlots)
<1>1. /\ ~busy.ipv4 /\ ring.sem > 0
      /\ ring' = [ring EXCEPT !.sem = @ - 1]
      /\ busy' = [busy EXCEPT !.ipv4 = TRUE]
      /\ ipv4_recv(f)
      /\ UNCHANGED <<dma, stage, tx, cache, cl, up, air, lan, leases, faults>>
    BY DEF ipv4_proc, envVars
<1>2. f \in Inbound(leases)
    <2>1. /\ ring.slot \in [0 .. IpSlots - 1 -> Inbound(leases)] /\ ring.tail \in Nat
          /\ IpSlots \in Nat /\ IpSlots >= 1
        BY PeerParts, Sizes DEF IpRing
    <2>2. (ring.tail + 0) % IpSlots \in 0 .. IpSlots - 1
        BY <2>1
    <2> QED BY <2>1, <2>2 DEF SlotOf
<1> HIDE DEF f
<1>3. busy' \in [servicer : BOOLEAN, ipv4 : BOOLEAN] /\ busy'.ipv4 /\ busy'.servicer = busy.servicer
    BY <1>1, PeerParts
<1>4. /\ ring' \in IpRing(leases) /\ Count(ring') = Count(ring) /\ ring'.sem = ring.sem - 1
    <2>1. /\ ring = [slot |-> ring.slot, head |-> ring.head, tail |-> ring.tail, sem |-> ring.sem]
          /\ ring.head \in 0 .. Wrap - 1 /\ ring.tail \in 0 .. Wrap - 1 /\ ring.sem \in Nat
          /\ ring.slot \in [0 .. IpSlots - 1 -> Inbound(leases)]
        BY PeerParts DEF IpRing
    <2>2. ring.sem - 1 \in Nat
        BY <1>1, <2>1
    <2>3. ring' = [slot |-> ring.slot, head |-> ring.head, tail |-> ring.tail, sem |-> ring.sem - 1]
        BY <1>1, <2>1
    <2> QED BY <2>1, <2>2, <2>3 DEF IpRing, Count
<1>5. ring'.sem = Count(ring') - 1
    BY <1>1, <1>4, PeerParts, Counts
<1>6. /\ call' \in [Proc -> [at : {"idle", "fill", "launch", "wait"}, frame : Outbound,
                             prev : 0 .. Wrap - 1]]
      /\ \A q \in Proc \ {"ipv4"} : call'[q] = call[q]
      /\ \A q \in Proc : HasDescriptor(q)' <=> HasDescriptor(q)
    <2>1. CASE f.kind = "echo" /\ icmp_recv(f)
        <3> DEFINE g == Frame("echo_reply", f.host, f.ip, <<>>)
        <3>1. Transmit("ipv4", g)
            BY <2>1 DEF icmp_recv
        <3>2. g \in Outbound
            BY <1>2, <2>1, InboundFacts DEF Outbound
        <3>3. call.ipv4.at = "idle"
            BY <1>1, PeerParts DEF OneSender
        <3> HIDE DEF g
        <3> QED BY <3>1, <3>2, <3>3, Callers, TransmitKeeps
    <2>2. CASE call' = call
        BY <2>2, PeerParts DEF HasDescriptor
    <2> QED BY <1>1, <2>1, <2>2 DEF ipv4_recv
<1>7. /\ DOMAIN sock' = DOMAIN sock
      /\ \A p \in DOMAIN sock' : sock'[p] \in Seq(Datagram(leases)) /\ Len(sock'[p]) <= UdpSlots
    <2>1. CASE sock' = sock
        BY <2>1, PeerParts
    <2>2. CASE f.kind = "udp" /\ udp_recv(f) /\ Port(f) \in DOMAIN sock /\ Len(sock[Port(f)]) < UdpSlots
        <3> DEFINE p == Port(f)
        <3>1. sock' = [sock EXCEPT ![p] = Append(@, f)]
            BY <2>2 DEF udp_recv
        <3>2. sock[p] \in Seq(Datagram(leases)) /\ p \in DOMAIN sock /\ Len(sock[p]) \in Nat
            BY <2>2, PeerParts, LenProperties
        <3> HIDE DEF p
        <3>5. f \in Datagram(leases)
            BY <1>2, <2>2 DEF Datagram
        <3>3. Append(sock[p], f) \in Seq(Datagram(leases)) /\ Len(Append(sock[p], f)) = Len(sock[p]) + 1
            BY <3>2, <3>5, AppendProperties
        <3>4. Len(sock[p]) + 1 <= UdpSlots
            BY <2>2, <3>2, Sizes DEF p
        <3> QED BY <3>1, <3>2, <3>3, <3>4, PeerParts
    <2>3. CASE f.kind = "udp" /\ udp_recv(f) /\ ~(Port(f) \in DOMAIN sock /\ Len(sock[Port(f)]) < UdpSlots)
        BY <2>1, <2>3 DEF udp_recv
    <2> QED BY <1>1, <2>1, <2>2, <2>3 DEF ipv4_recv
<1>8. call'.client = call.client /\ call'.servicer = call.servicer
    BY <1>6, Callers
<1>9. Received(leases)'
    BY <1>1, <1>3, <1>4, <1>5, <1>7, PeerParts DEF Received
<1>10. Sending'
    BY <1>1, <1>6, PeerParts DEF Sending
<1>11. OneSender'
    BY <1>1, <1>3, <1>6, <1>8, PeerParts, SameSender DEF OneSender
<1> QED
    BY <1>1, <1>7, <1>8, <1>9, <1>10, <1>11, PeerParts DEF PeerInv

LEMMA ReleasePeer == ASSUME PeerInv, ipv4_release PROVE PeerInv'
<1>1. /\ busy.ipv4 /\ call.ipv4.at = "idle"
      /\ ring' = Released(ring, IpSlots)
      /\ busy' = [busy EXCEPT !.ipv4 = FALSE]
      /\ UNCHANGED <<dma, stage, tx, call, cache, sock, cl, up, air, lan, leases, faults>>
    BY DEF ipv4_release, envVars
<1>2. busy' \in [servicer : BOOLEAN, ipv4 : BOOLEAN] /\ ~busy'.ipv4 /\ busy'.servicer = busy.servicer
    BY <1>1, PeerParts
<1>3. /\ ring' \in IpRing(leases) /\ Count(ring') <= IpSlots /\ ring'.sem = Count(ring')
    <2>1. Count(ring) > 0 /\ ring.sem = Count(ring) - 1
        BY <1>1, PeerParts, Counts
    <2>2. ring' \in IpRing(leases) /\ Count(ring') = Count(ring) - 1 /\ ring'.sem = ring.sem
        <3>1. ring \in IpRing(leases) /\ Count(ring) <= IpSlots
            BY PeerParts
        <3> DEFINE r1 == Released(ring, IpSlots)
        <3>2. r1 \in IpRing(leases) /\ Count(r1) = Count(ring) - 1 /\ r1.sem = ring.sem
            BY <2>1, <3>1, RingReleased
        <3> HIDE DEF r1
        <3>3. ring' = r1
            BY <1>1 DEF r1
        <3> QED BY <3>2, <3>3 DEF Count
    <2>3. Count(ring) \in Nat /\ IpSlots \in Nat /\ Count(ring) <= IpSlots
        BY PeerParts, Counts, Sizes
    <2> QED BY <2>1, <2>2, <2>3
<1>4. ring'.sem = Count(ring') - 0
    BY <1>3 DEF IpRing
<1>5. Received(leases)'
    BY <1>1, <1>2, <1>3, <1>4, PeerParts DEF Received
<1>6. Sending'
    BY <1>1, PeerParts DEF Sending
<1>7. OneSender'
    BY <1>1, <1>2, PeerParts DEF OneSender, HasDescriptor
<1> QED
    BY <1>1, <1>5, <1>6, <1>7, PeerParts DEF PeerInv

-----------------------------------------------------------------------------
(* The way down.                                                           *)

\* A call that returns leaves its process idle and the client in its place.
LEMMA CallEnds ==
    ASSUME PeerInv, NEW p \in Proc, NEW rc, call[p].at # "idle", Returned(p, rc)
    PROVE  /\ call' \in [Proc -> [at : {"idle", "fill", "launch", "wait"}, frame : Outbound,
                                  prev : 0 .. Wrap - 1]]
           /\ \A q \in Proc \ {p} : call'[q] = call[q]
           /\ call'[p].at = "idle"
           /\ cl' \in ClientType /\ ClientFits(cl', call'.client, DOMAIN sock)
           /\ cl'.ip = cl.ip /\ cl'.answer = cl.answer /\ cl'.id = cl.id
<1>1. call' = [call EXCEPT ![p] = Idle]
    BY DEF Returned
<1>2. Idle \in [at : {"idle", "fill", "launch", "wait"}, frame : Outbound, prev : 0 .. Wrap - 1]
    <2>1. 0 \in 0 .. Wrap - 1 /\ NoFrame \in Outbound
        BY Sizes DEF Outbound
    <2> QED BY <2>1 DEF Idle
<1>3. /\ call' \in [Proc -> [at : {"idle", "fill", "launch", "wait"}, frame : Outbound,
                             prev : 0 .. Wrap - 1]]
      /\ \A q \in Proc \ {p} : call'[q] = call[q]
      /\ call'[p] = Idle
    BY <1>1, <1>2, PeerParts
<1>4. CASE p # "client"
    <2>1. cl' = cl /\ call'.client = call.client
        BY <1>3, <1>4, Callers DEF Returned
    <2> QED BY <1>3, <2>1, PeerParts DEF Idle
<1>5. CASE p = "client"
    <2>1. call'.client = Idle /\ call.client.at # "idle"
        BY <1>3, <1>5
    <2>2. Idle.at = "idle" /\ Idle.frame.kind = "none"
        BY DEF Idle, NoFrame, Frame
    <2>3. \E at \in {"arp", "ask", "read"} :
              /\ cl' = [cl EXCEPT !.at = at]
              /\ at = "arp" => call.client.frame.kind = "arp_request"
              /\ at = "ask" => cl.phase = "resolve"
        BY <1>5 DEF Returned, Sent
    <2>4. PICK at \in {"arp", "ask", "read"} :
              /\ cl' = [cl EXCEPT !.at = at]
              /\ at = "arp" => call.client.frame.kind = "arp_request"
              /\ at = "ask" => cl.phase = "resolve"
        BY <2>3
    <2>5. /\ cl' \in ClientType /\ cl'.at = at /\ cl'.phase = cl.phase /\ cl'.offer = cl.offer
          /\ cl'.id = cl.id /\ cl'.arp = cl.arp /\ cl'.ip = cl.ip /\ cl'.answer = cl.answer
        BY <2>4, PeerParts DEF ClientType
    <2>6. ClientFits(cl, call.client, DOMAIN sock)
        BY PeerParts
    <2>7. ClientFits(cl', call'.client, DOMAIN sock)
        BY <2>1, <2>2, <2>4, <2>5, <2>6 DEF ClientFits
    <2> QED BY <1>3, <2>2, <2>5, <2>7
<1> QED
    BY <1>4, <1>5

\* What every step of wifi_tx_frame leaves alone.
Below == UNCHANGED <<rxVars, cache, sock, up, air, envVars>>

LEMMA TxFrame ==
    ASSUME PeerInv, Below, faults' \in 0 .. MaxFaults,
           tx' \in [busy : BOOLEAN, buf : [seq : Nat, frame : Outbound], seq : Nat,
                    count : 0 .. Wrap - 1, armed : BOOLEAN, done : BOOLEAN],
           call' \in [Proc -> [at : {"idle", "fill", "launch", "wait"}, frame : Outbound,
                               prev : 0 .. Wrap - 1]],
           OneSender',
           cl' \in ClientType, ClientFits(cl', call'.client, DOMAIN sock),
           cl'.ip = cl.ip, cl'.answer = cl.answer, cl'.id = cl.id
    PROVE  PeerInv'
<1>1. UNCHANGED <<lan, leases, dma, stage, ring, busy, cache, sock, up, air>>
    BY DEF Below, rxVars, envVars
<1>2. Received(leases)'
    BY <1>1, PeerParts DEF Received
<1>3. Sending'
    BY <1>1, PeerParts DEF Sending
<1> QED
    BY <1>1, <1>2, <1>3, PeerParts DEF PeerInv

\* Two processes cannot both have the descriptor, whichever of them moved.
LEMMA SenderMoves ==
    ASSUME PeerInv, NEW p \in Proc, UNCHANGED busy, call[p].at # "idle",
           \A q \in Proc \ {p} : call'[q] = call[q],
           tx'.busy <=> \E q \in Proc : HasDescriptor(q)',
           HasDescriptor(p)' => \A q \in Proc \ {p} : ~HasDescriptor(q)
    PROVE  OneSender'
<1>1. OneSender
    BY PeerParts
<1>2. \A q \in Proc \ {p} : HasDescriptor(q)' <=> HasDescriptor(q)
    BY DEF HasDescriptor
<1>3. \A q, r \in Proc : HasDescriptor(q)' /\ HasDescriptor(r)' => q = r
    BY <1>1, <1>2 DEF OneSender
<1>4. call'.servicer.at # "idle" => busy'.servicer
    BY <1>1, Callers DEF OneSender
<1>5. call'.ipv4.at # "idle" => busy'.ipv4
    BY <1>1, Callers DEF OneSender
<1> QED
    BY <1>3, <1>4, <1>5 DEF OneSender

LEMMA FillPeer == ASSUME PeerInv, Below, NEW p \in Proc, Fill(p) PROVE PeerInv'
<1> DEFINE b == [seq |-> tx.seq, frame |-> call[p].frame]
<1>1. /\ call[p].at = "fill" /\ ~tx.busy
      /\ tx' = [tx EXCEPT !.busy = TRUE, !.seq = @ + 1, !.buf = b]
      /\ call' = [call EXCEPT ![p].at = "launch"]
      /\ cl' = cl /\ faults' = faults
    BY DEF Fill
<1>2. b \in [seq : Nat, frame : Outbound]
    BY PeerParts
<1> HIDE DEF b
<1>3. /\ tx' \in [busy : BOOLEAN, buf : [seq : Nat, frame : Outbound], seq : Nat,
                  count : 0 .. Wrap - 1, armed : BOOLEAN, done : BOOLEAN]
      /\ tx'.busy
    <2>1. /\ tx = [busy |-> tx.busy, buf |-> tx.buf, seq |-> tx.seq, count |-> tx.count,
                   armed |-> tx.armed, done |-> tx.done]
          /\ tx.seq \in Nat /\ tx.count \in 0 .. Wrap - 1 /\ tx.armed \in BOOLEAN /\ tx.done \in BOOLEAN
        BY PeerParts
    <2>2. tx' = [busy |-> TRUE, buf |-> b, seq |-> tx.seq + 1, count |-> tx.count,
                 armed |-> tx.armed, done |-> tx.done]
        BY <1>1, <2>1
    <2>3. tx.seq + 1 \in Nat
        BY <2>1
    <2> QED BY <1>2, <2>1, <2>2, <2>3
<1>4. /\ call' \in [Proc -> [at : {"idle", "fill", "launch", "wait"}, frame : Outbound,
                             prev : 0 .. Wrap - 1]]
      /\ \A q \in Proc \ {p} : call'[q] = call[q]
      /\ call'[p].at = "launch" /\ call'[p].frame = call[p].frame
    <2>1. call \in [Proc -> [at : {"idle", "fill", "launch", "wait"}, frame : Outbound,
                            prev : 0 .. Wrap - 1]]
        BY PeerParts
    <2> QED BY <1>1, <2>1
<1>5. \A q \in Proc : ~HasDescriptor(q)
    BY <1>1, PeerParts DEF OneSender
<1>6. HasDescriptor(p)'
    BY <1>4 DEF HasDescriptor
<1>7. OneSender'
    BY <1>1, <1>3, <1>4, <1>5, <1>6, SenderMoves DEF Below, rxVars
<1>8. ClientFits(cl', call'.client, DOMAIN sock)
    <2>1. call'.client.frame = call.client.frame
        BY <1>4, Callers
    <2>2. call'.client.at # "idle" => call.client.at # "idle"
        BY <1>1, <1>4, Callers
    <2> QED BY <1>1, <2>1, <2>2, PeerParts DEF ClientFits
<1> QED
    BY <1>1, <1>3, <1>4, <1>7, <1>8, PeerParts, TxFrame

LEMMA LaunchPeer == ASSUME PeerInv, Below, NEW p \in Proc, Launch(p) PROVE PeerInv'
<1>1. /\ call[p].at = "launch"
      /\ tx' = [tx EXCEPT !.armed = TRUE]
      /\ call' = [call EXCEPT ![p].at = "wait", ![p].prev = tx.count]
      /\ cl' = cl /\ faults' = faults
    BY DEF Launch
<1>2. /\ tx' \in [busy : BOOLEAN, buf : [seq : Nat, frame : Outbound], seq : Nat,
                  count : 0 .. Wrap - 1, armed : BOOLEAN, done : BOOLEAN]
      /\ tx'.busy = tx.busy
    BY <1>1, PeerParts
<1>3. /\ call' \in [Proc -> [at : {"idle", "fill", "launch", "wait"}, frame : Outbound,
                             prev : 0 .. Wrap - 1]]
      /\ \A q \in Proc \ {p} : call'[q] = call[q]
      /\ call'[p].at = "wait" /\ call'[p].frame = call[p].frame
    <2>1. /\ call \in [Proc -> [at : {"idle", "fill", "launch", "wait"}, frame : Outbound,
                               prev : 0 .. Wrap - 1]]
          /\ tx.count \in 0 .. Wrap - 1
        BY PeerParts
    <2> QED BY <1>1, <2>1
<1>4. HasDescriptor(p) /\ HasDescriptor(p)'
    BY <1>1, <1>3 DEF HasDescriptor
<1>5. tx.busy /\ \A q \in Proc \ {p} : ~HasDescriptor(q)
    BY <1>4, PeerParts DEF OneSender
<1>6. OneSender'
    BY <1>1, <1>2, <1>3, <1>4, <1>5, SenderMoves DEF Below, rxVars
<1>7. ClientFits(cl', call'.client, DOMAIN sock)
    <2>1. call'.client.frame = call.client.frame
        BY <1>3, Callers
    <2>2. call'.client.at # "idle" => call.client.at # "idle"
        BY <1>1, <1>3, Callers
    <2> QED BY <1>1, <2>1, <2>2, PeerParts DEF ClientFits
<1> QED
    BY <1>1, <1>2, <1>3, <1>6, <1>7, PeerParts, TxFrame

LEMMA FaultCounts == ASSUME PeerInv, Fault \/ UNCHANGED faults PROVE faults' \in 0 .. MaxFaults
<1>1. faults \in 0 .. MaxFaults /\ MaxFaults \in Nat
    BY PeerParts, Sizes
<1> QED
    BY <1>1 DEF Fault

LEMMA ExpirePeer == ASSUME PeerInv, Below, NEW p \in Proc, DescriptorExpires(p) PROVE PeerInv'
<1>1. call[p].at = "fill" /\ tx.busy /\ Fault /\ Returned(p, -1) /\ tx' = tx
    BY DEF DescriptorExpires
<1>2. /\ call' \in [Proc -> [at : {"idle", "fill", "launch", "wait"}, frame : Outbound,
                             prev : 0 .. Wrap - 1]]
      /\ \A q \in Proc \ {p} : call'[q] = call[q]
      /\ call'[p].at = "idle"
      /\ cl' \in ClientType /\ ClientFits(cl', call'.client, DOMAIN sock)
      /\ cl'.ip = cl.ip /\ cl'.answer = cl.answer /\ cl'.id = cl.id
    BY <1>1, CallEnds
<1>3. ~HasDescriptor(p) /\ ~HasDescriptor(p)'
    BY <1>1, <1>2 DEF HasDescriptor
<1>4. \A q \in Proc : HasDescriptor(q)' <=> HasDescriptor(q)
    BY <1>2, <1>3 DEF HasDescriptor
<1>5. tx'.busy <=> \E q \in Proc : HasDescriptor(q)'
    BY <1>1, <1>4, PeerParts DEF OneSender
<1>6. OneSender'
    BY <1>1, <1>2, <1>3, <1>5, SenderMoves DEF Below, rxVars
<1> QED
    BY <1>1, <1>2, <1>6, PeerParts, FaultCounts, TxFrame

LEMMA ReturnPeer == ASSUME PeerInv, Below, NEW p \in Proc, TxReturn(p) PROVE PeerInv'
<1>1. call[p].at = "wait" /\ tx' = [tx EXCEPT !.busy = FALSE]
    BY DEF TxReturn
<1>2. PICK rc \in {-1, 0} : Returned(p, rc) /\ (Fault \/ UNCHANGED faults)
    BY DEF TxReturn, DoneExpires
<1>3. /\ call' \in [Proc -> [at : {"idle", "fill", "launch", "wait"}, frame : Outbound,
                             prev : 0 .. Wrap - 1]]
      /\ \A q \in Proc \ {p} : call'[q] = call[q]
      /\ call'[p].at = "idle"
      /\ cl' \in ClientType /\ ClientFits(cl', call'.client, DOMAIN sock)
      /\ cl'.ip = cl.ip /\ cl'.answer = cl.answer /\ cl'.id = cl.id
    BY <1>1, <1>2, CallEnds
<1>4. /\ tx' \in [busy : BOOLEAN, buf : [seq : Nat, frame : Outbound], seq : Nat,
                  count : 0 .. Wrap - 1, armed : BOOLEAN, done : BOOLEAN]
      /\ ~tx'.busy
    BY <1>1, PeerParts
<1>5. HasDescriptor(p) /\ ~HasDescriptor(p)'
    BY <1>1, <1>3 DEF HasDescriptor
<1>6. \A q \in Proc \ {p} : ~HasDescriptor(q)
    BY <1>5, PeerParts DEF OneSender
<1>7. \A q \in Proc : ~HasDescriptor(q)'
    BY <1>3, <1>5, <1>6 DEF HasDescriptor
<1>8. OneSender'
    BY <1>1, <1>3, <1>4, <1>5, <1>7, SenderMoves DEF Below, rxVars
<1> QED
    BY <1>2, <1>3, <1>4, <1>8, PeerParts, FaultCounts, TxFrame

LEMMA TxFramePeer == ASSUME PeerInv, NEW p \in Proc, wifi_tx_frame(p) PROVE PeerInv'
<1>1. Below /\ (Fill(p) \/ DescriptorExpires(p) \/ Launch(p) \/ TxReturn(p))
    BY DEF wifi_tx_frame, Below
<1> QED
    BY <1>1, FillPeer, ExpirePeer, LaunchPeer, ReturnPeer

-----------------------------------------------------------------------------
(* The client.                                                             *)

\* What every step of the client leaves alone.
Beside == UNCHANGED <<rxVars, tx, cache, up, air, envVars>>

\* A step of the client's that begins no call.
LEMMA ClientSteps ==
    ASSUME PeerInv, Beside, UNCHANGED call, faults' \in 0 .. MaxFaults,
           DOMAIN sock' \subseteq {"dhcp", "dns"},
           \A p \in DOMAIN sock' : sock'[p] \in Seq(Datagram(leases)) /\ Len(sock'[p]) <= UdpSlots,
           cl' \in ClientType, ClientFits(cl', call.client, DOMAIN sock'),
           cl'.ip # Nobody => cl'.ip \in leases, cl'.answer # 0 => cl'.answer = cl'.id
    PROVE  PeerInv'
<1>1. UNCHANGED <<lan, leases, dma, stage, ring, busy, cache, tx, call, up, air>>
    BY DEF Beside, rxVars, envVars
<1>2. Received(leases)'
    BY <1>1, PeerParts DEF Received
<1>3. Sending' /\ OneSender'
    BY <1>1, PeerParts DEF Sending, OneSender, HasDescriptor
<1> QED
    BY <1>1, <1>2, <1>3, PeerParts DEF PeerInv

\* A step of the client's that begins one.
LEMMA ClientSends ==
    ASSUME PeerInv, Beside, UNCHANGED <<sock, faults>>, NEW f \in Outbound,
           Transmit("client", f), cl.at # "tx", cl.at # "ask", cl.phase # "failed",
           cl' = [cl EXCEPT !.at = "tx"],
           f.kind = "arp_request" => cl.phase = "resolve" /\ cl.arp < ArpRetries
    PROVE  PeerInv'
<1>1. UNCHANGED <<lan, leases, dma, stage, ring, busy, cache, tx, up, air>>
    BY DEF Beside, rxVars, envVars
<1>2. call.client.at = "idle" /\ ClientFits(cl, call.client, DOMAIN sock)
    BY PeerParts DEF ClientFits
<1>3. /\ call' \in [Proc -> [at : {"idle", "fill", "launch", "wait"}, frame : Outbound,
                             prev : 0 .. Wrap - 1]]
      /\ \A q \in Proc \ {"client"} : call'[q] = call[q]
      /\ call'.client.at = "fill" /\ call'.client.frame = f
      /\ \A q \in Proc : HasDescriptor(q)' <=> HasDescriptor(q)
    BY <1>2, Callers, TransmitKeeps
<1>4. call'.servicer = call.servicer /\ call'.ipv4 = call.ipv4
    BY <1>3, Callers
<1>5. /\ cl' \in ClientType /\ cl'.at = "tx" /\ cl'.phase = cl.phase /\ cl'.offer = cl.offer
      /\ cl'.id = cl.id /\ cl'.arp = cl.arp /\ cl'.ip = cl.ip /\ cl'.answer = cl.answer
    BY PeerParts DEF ClientType
<1>6. ClientFits(cl', call'.client, DOMAIN sock')
    BY <1>2, <1>3, <1>5 DEF ClientFits
<1>7. Received(leases)'
    BY <1>1, PeerParts DEF Received
<1>8. Sending'
    BY <1>1, <1>3, PeerParts DEF Sending
<1>9. OneSender'
    BY <1>1, <1>3, <1>4, PeerParts, SameSender DEF OneSender
<1> QED
    BY <1>1, <1>5, <1>6, <1>7, <1>8, <1>9, PeerParts DEF PeerInv

\* What the client sends, before the hardware address is filled in.
LEMMA MessageIs ==
    ASSUME PeerInv, cl.at # "stop", cl.at # "ask"
    PROVE  /\ cl.phase = "resolve" =>
                 /\ Message = Frame("udp", Nobody, NameServer, <<"query", cl.id>>)
                 /\ cl.id \in 1 .. Questions
           /\ cl.phase # "resolve" => Message \in Outbound /\ Message.ip = All /\ Message.kind = "udp"
<1>1. /\ cl.phase \in {"discover", "request", "resolve"} /\ cl.id \in 0 .. Questions
      /\ cl.phase = "request" => cl.offer \in Servers
      /\ cl.phase = "resolve" => cl.id > 0
    BY PeerParts DEF ClientType, ClientFits
<1>2. cl.phase = "resolve" => cl.id \in 1 .. Questions
    BY <1>1, Sizes
<1>3. CASE cl.phase = "resolve"
    <2>1. Message = Frame("udp", Nobody, NameServer, <<"query", cl.id>>)
        BY <1>3 DEF Message, send_udp, send_ipv4_raw, build_query, NameServer, All
    <2> QED BY <1>2, <1>3, <2>1
<1>4. CASE cl.phase = "discover"
    <2>1. Message = Frame("udp", All, All, <<"discover", Nobody>>)
        BY <1>4 DEF Message, send_udp, send_ipv4_raw
    <2>2. Message \in Outbound
        BY <2>1 DEF Outbound
    <2>3. Message.ip = All /\ Message.kind = "udp"
        BY <2>1 DEF Frame
    <2> QED BY <1>4, <2>2, <2>3
<1>5. CASE cl.phase = "request"
    <2>1. Message = Frame("udp", All, All, <<"request", cl.offer>>)
        BY <1>5 DEF Message, send_udp, send_ipv4_raw
    <2>2. Message \in Outbound
        BY <1>1, <1>5, <2>1 DEF Outbound
    <2>3. Message.ip = All /\ Message.kind = "udp"
        BY <2>1 DEF Frame
    <2> QED BY <1>5, <2>2, <2>3
<1> QED
    BY <1>1, <1>3, <1>4, <1>5

\* A write that fails before anything is sent.
LEMMA NotSent ==
    ASSUME PeerInv, Beside, UNCHANGED <<call, sock, faults>>, cl' = Sent(cl, -1),
           cl.at \in {"write", "lookup"}
    PROVE  PeerInv'
<1>1. PICK at \in {"ask", "read"} : cl' = [cl EXCEPT !.at = at] /\ (at = "ask" => cl.phase = "resolve")
    BY DEF Sent
<1>2. /\ cl' \in ClientType /\ cl'.at = at /\ cl'.phase = cl.phase /\ cl'.offer = cl.offer
      /\ cl'.id = cl.id /\ cl'.arp = cl.arp /\ cl'.ip = cl.ip /\ cl'.answer = cl.answer
    BY <1>1, PeerParts DEF ClientType
<1>3. ClientFits(cl, call.client, DOMAIN sock)
    BY PeerParts
<1>4. ClientFits(cl', call.client, DOMAIN sock')
    BY <1>1, <1>2, <1>3 DEF ClientFits
<1> QED
    BY <1>2, <1>4, PeerParts, ClientSteps

LEMMA SendPeer == ASSUME PeerInv, Beside, net_send PROVE PeerInv'
<1>1. cl.at = "write" /\ UNCHANGED <<sock, faults>>
    BY DEF net_send
<1>2. cl.phase # "failed"
    BY <1>1, PeerParts DEF ClientFits
<1>3. CASE cl' = Sent(cl, -1) /\ UNCHANGED call
    BY <1>1, <1>3, NotSent
<1>4. CASE Message.ip = All /\ cl' = [cl EXCEPT !.at = "tx"] /\ Transmit("client", Message)
    <2>1. Message \in Outbound /\ Message.kind = "udp"
        <3>1. cl.phase # "resolve"
            <4>1. Frame("udp", Nobody, NameServer, <<"query", cl.id>>).ip # All
                BY DEF Frame, NameServer, All
            <4> QED BY <1>1, <1>4, <4>1, MessageIs
        <3> QED BY <1>1, <3>1, MessageIs
    <2> QED BY <1>1, <1>2, <1>4, <2>1, ClientSends
<1>5. CASE Message.ip # All /\ cl' = [cl EXCEPT !.at = "lookup", !.arp = 0] /\ UNCHANGED call
    <2>1. cl.phase = "resolve"
        BY <1>1, <1>5, MessageIs
    <2>2. /\ cl' \in ClientType /\ cl'.at = "lookup" /\ cl'.phase = cl.phase /\ cl'.offer = cl.offer
          /\ cl'.id = cl.id /\ cl'.arp = 0 /\ cl'.ip = cl.ip /\ cl'.answer = cl.answer
        <3>1. 0 \in 0 .. ArpRetries
            BY Sizes
        <3> QED BY <1>5, <3>1, PeerParts DEF ClientType
    <2>3. ClientFits(cl, call.client, DOMAIN sock)
        BY PeerParts
    <2>4. 0 < ArpRetries
        BY Sizes
    <2>5. ClientFits(cl', call.client, DOMAIN sock')
        BY <1>1, <2>1, <2>2, <2>3, <2>4 DEF ClientFits
    <2> QED BY <1>1, <1>5, <2>2, <2>5, PeerParts, ClientSteps
<1> QED
    BY <1>3, <1>4, <1>5 DEF net_send

LEMMA LookupPeer == ASSUME PeerInv, Beside, arp_cache_lookup PROVE PeerInv'
<1> DEFINE hop == NextHop(Message.ip)
<1>1. cl.at = "lookup" /\ UNCHANGED <<sock, faults>>
    BY DEF arp_cache_lookup
<1>2. cl.phase = "resolve" /\ cl.id \in 1 .. Questions
      /\ Message = Frame("udp", Nobody, NameServer, <<"query", cl.id>>)
    BY <1>1, PeerParts, MessageIs DEF ClientFits
<1>3. hop = Router
    BY <1>2 DEF NextHop, Frame
<1> HIDE DEF hop
<1>4. CASE /\ \E host \in Cached(hop) : Transmit("client", [Message EXCEPT !.host = host])
           /\ cl' = [cl EXCEPT !.at = "tx"]
    <2>1. PICK host \in Cached(hop) : Transmit("client", [Message EXCEPT !.host = host])
        BY <1>4
    <2>2. host = Router
        <3>1. PICK i \in DOMAIN cache : cache[i].ip = hop /\ host = cache[i].host
            BY <2>1 DEF Cached
        <3>2. cache[i] \in Known
            BY <3>1, PeerParts, ElementOfSeq, LenProperties
        <3> QED BY <1>3, <3>1, <3>2 DEF Known
    <2> DEFINE f == Frame("udp", Router, NameServer, <<"query", cl.id>>)
    <2>3. [Message EXCEPT !.host = host] = f
        BY <1>2, <2>2 DEF Frame
    <2>4. f \in Outbound
        BY <1>2 DEF Outbound
    <2>5. f.kind = "udp"
        BY DEF Frame
    <2>6. Transmit("client", f)
        BY <2>1, <2>3
    <2> HIDE DEF f
    <2> QED BY <1>1, <1>2, <1>4, <2>4, <2>5, <2>6, ClientSends
<1>5. CASE cl' = Sent(cl, -1) /\ UNCHANGED call
    BY <1>1, <1>5, NotSent
<1>6. CASE /\ cl.arp < ArpRetries
           /\ Transmit("client", Frame("arp_request", All, hop, <<>>))
           /\ cl' = [cl EXCEPT !.at = "tx"]
    <2>1. Frame("arp_request", All, hop, <<>>) \in Outbound
        BY <1>3 DEF Outbound
    <2> QED BY <1>1, <1>2, <1>6, <2>1, ClientSends
<1> QED
    BY <1>4, <1>5, <1>6 DEF arp_cache_lookup, hop

LEMMA ArpExpiresPeer == ASSUME PeerInv, Beside, ArpExpires PROVE PeerInv'
<1>1. /\ cl.at = "arp" /\ (Fault \/ UNCHANGED faults)
      /\ cl' = [cl EXCEPT !.at = "lookup", !.arp = @ + 1]
      /\ UNCHANGED <<call, sock>>
    BY DEF ArpExpires, Expired
<1>2. ClientFits(cl, call.client, DOMAIN sock) /\ cl \in ClientType
    BY PeerParts
<1>3. cl.arp + 1 \in 0 .. ArpRetries
    BY <1>1, <1>2, Sizes DEF ClientFits, ClientType
<1>4. /\ cl' \in ClientType /\ cl'.at = "lookup" /\ cl'.phase = cl.phase /\ cl'.offer = cl.offer
      /\ cl'.id = cl.id /\ cl'.ip = cl.ip /\ cl'.answer = cl.answer
    BY <1>1, <1>2, <1>3 DEF ClientType
<1>5. ClientFits(cl', call.client, DOMAIN sock')
    BY <1>1, <1>2, <1>4 DEF ClientFits
<1> QED
    BY <1>1, <1>4, <1>5, PeerParts, FaultCounts, ClientSteps

\* Another round of dhcp_proc, or the last.
LEMMA AgainFits ==
    ASSUME PeerInv, cl.at \in {"read", "expired"}, cl.phase # "resolve"
    PROVE  /\ Again(cl) \in ClientType /\ ClientFits(Again(cl), call.client, DOMAIN sock)
           /\ Again(cl).ip = cl.ip /\ Again(cl).answer = cl.answer /\ Again(cl).id = cl.id
           /\ Again(cl).phase # "resolve"
<1>1. ClientFits(cl, call.client, DOMAIN sock) /\ cl \in ClientType
    BY PeerParts
<1>2. call.client.at = "idle" /\ cl.phase \in {"discover", "request"}
    BY <1>1 DEF ClientFits, ClientType
<1>3. CASE cl.tries + 1 = Retries
    <2>1. Again(cl) = [cl EXCEPT !.phase = "failed", !.at = "stop"]
        BY <1>3 DEF Again
    <2>2. /\ Again(cl) \in ClientType /\ Again(cl).phase = "failed" /\ Again(cl).at = "stop"
          /\ Again(cl).ip = cl.ip /\ Again(cl).answer = cl.answer /\ Again(cl).id = cl.id
        BY <1>1, <2>1 DEF ClientType
    <2>3. ClientFits(Again(cl), call.client, DOMAIN sock)
        BY <1>2, <2>2 DEF ClientFits
    <2> QED BY <2>2, <2>3
<1>4. CASE cl.tries + 1 # Retries
    <2>1. Again(cl) = [cl EXCEPT !.tries = @ + 1, !.at = "write"]
        BY <1>4 DEF Again
    <2>2. cl.tries + 1 \in 0 .. Retries - 1
        BY <1>1, <1>4, Sizes DEF ClientType
    <2>3. /\ Again(cl) \in ClientType /\ Again(cl).phase = cl.phase /\ Again(cl).at = "write"
          /\ Again(cl).ip = cl.ip /\ Again(cl).answer = cl.answer /\ Again(cl).id = cl.id
          /\ Again(cl).offer = cl.offer
        BY <1>1, <2>1, <2>2 DEF ClientType
    <2>4. ClientFits(Again(cl), call.client, DOMAIN sock)
        BY <1>1, <1>2, <2>3 DEF ClientFits
    <2> QED BY <1>2, <2>3, <2>4
<1> QED
    BY <1>3, <1>4

\* The socket's queue after a read.
LEMMA ReadTakes ==
    ASSUME PeerInv, NEW p \in DOMAIN sock, sock[p] # <<>>
    PROVE  /\ Head(sock[p]) \in Datagram(leases)
           /\ \A q \in DOMAIN [sock EXCEPT ![p] = Tail(@)] :
                 /\ [sock EXCEPT ![p] = Tail(@)][q] \in Seq(Datagram(leases))
                 /\ Len([sock EXCEPT ![p] = Tail(@)][q]) <= UdpSlots
           /\ DOMAIN [sock EXCEPT ![p] = Tail(@)] = DOMAIN sock
<1>1. sock[p] \in Seq(Datagram(leases)) /\ Len(sock[p]) <= UdpSlots /\ UdpSlots \in Nat
    BY PeerParts, Sizes
<1>2. /\ Head(sock[p]) \in Datagram(leases) /\ Tail(sock[p]) \in Seq(Datagram(leases))
      /\ Len(Tail(sock[p])) = Len(sock[p]) - 1 /\ Len(sock[p]) \in Nat
    BY <1>1, HeadTailProperties, LenProperties
<1>3. Len(Tail(sock[p])) <= UdpSlots
    BY <1>1, <1>2
<1> QED
    BY <1>2, <1>3, PeerParts

LEMMA DhcpReadPeer == ASSUME PeerInv, Beside, dhcp_read PROVE PeerInv'
<1> DEFINE f == Head(sock.dhcp)
           s == [sock EXCEPT !.dhcp = Tail(@)]
<1>1. /\ cl.at = "read" /\ cl.phase # "resolve" /\ sock.dhcp # <<>>
      /\ cl' = DhcpRead(cl, f.body)
      /\ sock' = IF cl'.phase = "resolve" THEN Closed("dhcp") ELSE s
      /\ UNCHANGED <<call, faults>>
    BY DEF dhcp_read
<1>2. ClientFits(cl, call.client, DOMAIN sock) /\ cl \in ClientType
    BY PeerParts
<1>3. "dhcp" \in DOMAIN sock /\ cl.phase \in {"discover", "request"} /\ call.client.at = "idle"
    BY <1>1, <1>2 DEF ClientFits, ClientType
<1>4. /\ f \in Datagram(leases) /\ DOMAIN s = DOMAIN sock
      /\ \A q \in DOMAIN s : s[q] \in Seq(Datagram(leases)) /\ Len(s[q]) <= UdpSlots
    BY <1>1, <1>3, ReadTakes
<1>5. /\ f.body[1] = "offer" => f.body[2] \in Servers
      /\ f.body[1] = "ack" => f.body[2] \in leases
    BY <1>4, InboundFacts DEF Datagram
<1> HIDE DEF f, s
<1>6. /\ cl' \in ClientType
      /\ cl'.phase = "resolve" => ClientFits(cl', call.client, DOMAIN sock \ {"dhcp"})
      /\ cl'.phase # "resolve" => ClientFits(cl', call.client, DOMAIN sock)
      /\ cl'.ip # Nobody => cl'.ip \in leases
      /\ cl'.answer # 0 => cl'.answer = cl'.id
    <2>1. CASE cl.phase = "discover" /\ f.body[1] = "offer"
        <3>1. cl' = [cl EXCEPT !.phase = "request", !.at = "write", !.tries = 0, !.offer = f.body[2]]
            BY <1>1, <2>1 DEF DhcpRead
        <3>2. f.body[2] \in Servers /\ 0 \in 0 .. Retries - 1
            BY <1>5, <2>1, Sizes
        <3>3. /\ cl' \in ClientType /\ cl'.phase = "request" /\ cl'.at = "write"
              /\ cl'.offer \in Servers /\ cl'.ip = cl.ip /\ cl'.answer = cl.answer /\ cl'.id = cl.id
            BY <1>2, <3>1, <3>2 DEF ClientType
        <3>4. ClientFits(cl', call.client, DOMAIN sock)
            BY <1>3, <3>3 DEF ClientFits
        <3> QED BY <3>3, <3>4, PeerParts
    <2>2. CASE cl.phase = "request" /\ f.body[1] = "ack"
        <3>1. cl' = [cl EXCEPT !.phase = "resolve", !.at = "ask", !.ip = f.body[2]]
            BY <1>1, <2>2 DEF DhcpRead
        <3>2. f.body[2] \in leases /\ leases \subseteq Servers
            BY <1>5, <2>2, PeerParts
        <3>3. /\ cl' \in ClientType /\ cl'.phase = "resolve" /\ cl'.at = "ask"
              /\ cl'.ip \in leases /\ cl'.answer = cl.answer /\ cl'.id = cl.id
            BY <1>2, <3>1, <3>2 DEF ClientType
        <3>4. ClientFits(cl', call.client, DOMAIN sock \ {"dhcp"})
            BY <1>3, <3>3 DEF ClientFits
        <3> QED BY <3>3, <3>4, PeerParts
    <2>3. CASE cl' = Again(cl)
        BY <1>1, <2>3, AgainFits, PeerParts
    <2> QED BY <1>1, <2>1, <2>2, <2>3 DEF DhcpRead
<1>7. CASE cl'.phase = "resolve"
    <2>1. sock' = Closed("dhcp")
        BY <1>1, <1>7
    <2>2. DOMAIN sock' = DOMAIN sock \ {"dhcp"} /\ \A p \in DOMAIN sock' : sock'[p] = sock[p]
        BY <2>1 DEF Closed
    <2>3. cl' \in ClientType /\ ClientFits(cl', call.client, DOMAIN sock')
        BY <1>6, <1>7, <2>2
    <2> QED BY <1>1, <1>6, <2>2, <2>3, PeerParts, ClientSteps
<1>8. CASE cl'.phase # "resolve"
    <2>1. sock' = s
        BY <1>1, <1>8
    <2>2. ClientFits(cl', call.client, DOMAIN sock')
        BY <1>4, <1>6, <1>8, <2>1
    <2> QED BY <1>1, <1>4, <1>6, <2>1, <2>2, PeerParts, ClientSteps
<1> QED
    BY <1>7, <1>8

LEMMA ReadExpiresPeer == ASSUME PeerInv, Beside, ReadExpires PROVE PeerInv'
<1>1. /\ cl.at = "read" /\ cl.phase # "resolve" /\ (Fault \/ UNCHANGED faults)
      /\ cl' = [cl EXCEPT !.at = "expired"]
      /\ UNCHANGED <<call, sock>>
    BY DEF ReadExpires, Expired
<1>2. ClientFits(cl, call.client, DOMAIN sock) /\ cl \in ClientType
    BY PeerParts
<1>3. /\ cl' \in ClientType /\ cl'.at = "expired" /\ cl'.phase = cl.phase /\ cl'.offer = cl.offer
      /\ cl'.id = cl.id /\ cl'.arp = cl.arp /\ cl'.ip = cl.ip /\ cl'.answer = cl.answer
    BY <1>1, <1>2 DEF ClientType
<1>4. ClientFits(cl', call.client, DOMAIN sock')
    BY <1>1, <1>2, <1>3 DEF ClientFits
<1> QED
    BY <1>1, <1>3, <1>4, PeerParts, FaultCounts, ClientSteps

LEMMA UnansweredPeer == ASSUME PeerInv, Beside, dhcp_unanswered PROVE PeerInv'
<1>1. cl.at = "expired" /\ cl' = Again(cl) /\ UNCHANGED <<call, sock, faults>>
    BY DEF dhcp_unanswered
<1>2. cl.phase # "resolve"
    BY <1>1, PeerParts DEF ClientFits
<1>3. /\ cl' \in ClientType /\ ClientFits(cl', call.client, DOMAIN sock')
      /\ cl'.ip = cl.ip /\ cl'.answer = cl.answer /\ cl'.id = cl.id
    BY <1>1, <1>2, AgainFits
<1> QED
    BY <1>1, <1>3, PeerParts, ClientSteps

LEMMA ResolvePeer == ASSUME PeerInv, Beside, dns_resolve PROVE PeerInv'
<1>1. /\ cl.at = "ask" /\ cl.id < Questions
      /\ cl' = [cl EXCEPT !.id = @ + 1, !.answer = 0, !.at = "write"]
      /\ sock' = Opened("dns")
      /\ UNCHANGED <<call, faults>>
    BY DEF dns_resolve
<1>2. ClientFits(cl, call.client, DOMAIN sock) /\ cl \in ClientType
    BY PeerParts
<1>3. cl.id + 1 \in 0 .. Questions /\ cl.id + 1 > 0 /\ 0 \in 0 .. Questions
    BY <1>1, <1>2, Sizes DEF ClientType
<1>4. /\ cl' \in ClientType /\ cl'.at = "write" /\ cl'.phase = cl.phase /\ cl'.offer = cl.offer
      /\ cl'.id > 0 /\ cl'.ip = cl.ip /\ cl'.answer = 0
    BY <1>1, <1>2, <1>3 DEF ClientType
<1>5. /\ DOMAIN sock' = DOMAIN sock \cup {"dns"}
      /\ \A p \in DOMAIN sock' : sock'[p] = IF p \in DOMAIN sock THEN sock[p] ELSE <<>>
    BY <1>1 DEF Opened
<1>6. \A p \in DOMAIN sock' : sock'[p] \in Seq(Datagram(leases)) /\ Len(sock'[p]) <= UdpSlots
    <2>1. <<>> \in Seq(Datagram(leases)) /\ Len(<<>>) <= UdpSlots
        BY Sizes
    <2> QED BY <1>5, <2>1, PeerParts
<1>7. ClientFits(cl', call.client, DOMAIN sock')
    BY <1>1, <1>2, <1>4, <1>5 DEF ClientFits
<1>8. DOMAIN sock' \subseteq {"dhcp", "dns"}
    BY <1>5, PeerParts
<1> QED
    BY <1>1, <1>4, <1>6, <1>7, <1>8, PeerParts, ClientSteps

LEMMA DnsReadPeer == ASSUME PeerInv, Beside, dns_read PROVE PeerInv'
<1> DEFINE f == Head(sock.dns)
           s == [sock EXCEPT !.dns = Tail(@)]
<1>1. /\ cl.at = "read" /\ cl.phase = "resolve" /\ sock.dns # <<>>
      /\ cl' = DnsRead(cl, f) /\ sock' = s /\ UNCHANGED <<call, faults>>
    BY DEF dns_read
<1>2. ClientFits(cl, call.client, DOMAIN sock) /\ cl \in ClientType
    BY PeerParts
<1>3. "dns" \in DOMAIN sock
    BY <1>1, <1>2 DEF ClientFits
<1>4. /\ DOMAIN s = DOMAIN sock
      /\ \A q \in DOMAIN s : s[q] \in Seq(Datagram(leases)) /\ Len(s[q]) <= UdpSlots
    BY <1>1, <1>3, ReadTakes
<1> HIDE DEF f, s
<1>5. CASE cl' = cl
    BY <1>1, <1>2, <1>4, <1>5, PeerParts, ClientSteps
<1>6. CASE cl' = [cl EXCEPT !.at = "ask", !.answer = cl.id]
    <2>1. /\ cl' \in ClientType /\ cl'.at = "ask" /\ cl'.phase = cl.phase /\ cl'.offer = cl.offer
          /\ cl'.id = cl.id /\ cl'.arp = cl.arp /\ cl'.ip = cl.ip /\ cl'.answer = cl.id
        BY <1>2, <1>6 DEF ClientType
    <2>2. ClientFits(cl', call.client, DOMAIN sock')
        BY <1>1, <1>2, <1>4, <2>1 DEF ClientFits
    <2> QED BY <1>1, <1>4, <2>1, <2>2, PeerParts, ClientSteps
<1> QED
    BY <1>1, <1>5, <1>6 DEF DnsRead, parse_reply

LEMMA ClientPeer == ASSUME PeerInv, Client PROVE PeerInv'
<1>1. /\ Beside
      /\ \/ net_send \/ arp_cache_lookup \/ ArpExpires
         \/ dhcp_read \/ ReadExpires \/ dhcp_unanswered \/ dns_resolve \/ dns_read
    BY DEF Client, Beside
<1> QED
    BY <1>1, SendPeer, LookupPeer, ArpExpiresPeer, DhcpReadPeer, ReadExpiresPeer,
       UnansweredPeer, ResolvePeer, DnsReadPeer

-----------------------------------------------------------------------------
(* The hardware and the other hosts.                                       *)

\* A step that moves frames on the air and between the hosts only.
LEMMA OutsideSteps ==
    ASSUME PeerInv, UNCHANGED <<stage, ring, busy, call, cache, sock, cl>>,
           tx' \in [busy : BOOLEAN, buf : [seq : Nat, frame : Outbound], seq : Nat,
                    count : 0 .. Wrap - 1, armed : BOOLEAN, done : BOOLEAN], tx'.busy = tx.busy,
           air' \in [seq : Int, frame : Outbound],
           leases \subseteq leases', leases' \subseteq Servers,
           lan' \in Seq(Inbound(leases')), dma' \in Seq(Inbound(leases')), Len(dma') <= DmaSlots,
           up' \in BOOLEAN, faults' \in 0 .. MaxFaults
    PROVE  PeerInv'
<1>1. /\ Seq(Datagram(leases)) \subseteq Seq(Datagram(leases'))
      /\ Ring(StageSlots, leases) \subseteq Ring(StageSlots, leases')
      /\ IpRing(leases) \subseteq IpRing(leases')
    BY MoreLeases
<1>2. Received(leases)'
    BY <1>1, PeerParts DEF Received
<1>3. Sending'
    BY PeerParts DEF Sending
<1>4. OneSender'
    BY PeerParts DEF OneSender, HasDescriptor
<1>5. cl'.ip # Nobody => cl'.ip \in leases'
    BY PeerParts
<1> QED
    BY <1>2, <1>3, <1>4, <1>5, PeerParts DEF PeerInv

LEMMA SentPeer == ASSUME PeerInv, HwSend PROVE PeerInv'
<1> DEFINE f == tx.buf.frame
<1>1. /\ tx' = [tx EXCEPT !.armed = FALSE, !.done = TRUE]
      /\ air' = tx.buf
      /\ IF tx.buf.seq = air.seq THEN UNCHANGED <<lan, leases>>
         ELSE /\ lan' = lan \o Answers(f)
              /\ leases' = IF f.kind = "udp" /\ f.body[1] = "request"
                           THEN leases \cup {f.body[2]} ELSE leases
      /\ UNCHANGED <<dma, stage, ring, busy, call, cache, sock, cl, up, faults>>
    BY DEF HwSend, rxVars
<1>2. f \in Outbound /\ tx.buf.seq \in Nat
    BY PeerParts
<1>3. /\ tx' \in [busy : BOOLEAN, buf : [seq : Nat, frame : Outbound], seq : Nat,
                  count : 0 .. Wrap - 1, armed : BOOLEAN, done : BOOLEAN]
      /\ tx'.busy = tx.busy
    BY <1>1, PeerParts
<1>4. air' \in [seq : Int, frame : Outbound]
    BY <1>1, PeerParts
<1> HIDE DEF f
<1>5. /\ leases \subseteq leases' /\ leases' \subseteq Servers
      /\ lan' \in Seq(Inbound(leases'))
    <2>1. CASE UNCHANGED <<lan, leases>>
        BY <2>1, PeerParts
    <2>2. CASE /\ lan' = lan \o Answers(f)
               /\ leases' = IF f.kind = "udp" /\ f.body[1] = "request"
                            THEN leases \cup {f.body[2]} ELSE leases
        <3>1. f.kind = "udp" /\ f.body[1] = "request" => f.body[2] \in Servers
            BY <1>2, OutboundFacts
        <3>2. /\ leases \subseteq leases' /\ leases' \subseteq Servers
              /\ f.kind = "udp" /\ f.body[1] = "request" => f.body[2] \in leases'
            BY <2>2, <3>1, PeerParts
        <3>3. Answers(f) \in Seq(Inbound(leases'))
            BY <1>2, <3>2, AnswersAre
        <3>4. lan \in Seq(Inbound(leases'))
            BY <3>2, MoreLeases, PeerParts
        <3>5. lan \o Answers(f) \in Seq(Inbound(leases'))
            BY <3>3, <3>4, ConcatProperties
        <3> QED BY <2>2, <3>2, <3>5
    <2> QED BY <1>1, <2>1, <2>2
<1>6. dma' \in Seq(Inbound(leases')) /\ Len(dma') <= DmaSlots
    BY <1>1, <1>5, MoreLeases, PeerParts
<1> QED
    BY <1>1, <1>3, <1>4, <1>5, <1>6, PeerParts, OutsideSteps

LEMMA StalledPeer == ASSUME PeerInv, HwStall PROVE PeerInv'
<1>1. /\ tx' = [tx EXCEPT !.armed = FALSE] /\ (Fault \/ UNCHANGED faults)
      /\ UNCHANGED <<lan, leases, dma, stage, ring, busy, call, cache, sock, cl, up, air>>
    BY DEF HwStall, rxVars, envVars
<1>2. /\ tx' \in [busy : BOOLEAN, buf : [seq : Nat, frame : Outbound], seq : Nat,
                  count : 0 .. Wrap - 1, armed : BOOLEAN, done : BOOLEAN]
      /\ tx'.busy = tx.busy
    BY <1>1, PeerParts
<1> QED
    BY <1>1, <1>2, PeerParts, FaultCounts, OutsideSteps

LEMMA ReceivePeer == ASSUME PeerInv, HwReceive PROVE PeerInv'
<1>1. /\ lan # <<>> /\ lan' = Tail(lan)
      /\ dma' = IF up /\ Len(dma) < DmaSlots THEN Append(dma, Head(lan)) ELSE dma
      /\ UNCHANGED <<leases, stage, ring, busy, tx, call, cache, sock, cl, up, air, faults>>
    BY DEF HwReceive
<1>2. Head(lan) \in Inbound(leases) /\ Tail(lan) \in Seq(Inbound(leases))
    BY <1>1, PeerParts, HeadTailProperties
<1>3. dma' \in Seq(Inbound(leases)) /\ Len(dma') <= DmaSlots
    <2>1. CASE up /\ Len(dma) < DmaSlots
        <3>1. dma' = Append(dma, Head(lan))
            BY <1>1, <2>1
        <3>2. dma' \in Seq(Inbound(leases)) /\ Len(dma') = Len(dma) + 1 /\ Len(dma) \in Nat
            BY <1>2, <3>1, PeerParts, AppendProperties, LenProperties
        <3> QED BY <2>1, <3>2, Sizes
    <2>2. CASE ~(up /\ Len(dma) < DmaSlots)
        BY <1>1, <2>2, PeerParts
    <2> QED BY <2>1, <2>2
<1> QED
    BY <1>1, <1>2, <1>3, PeerParts, OutsideSteps

LEMMA NeighbourPeer == ASSUME PeerInv, Neighbourly PROVE PeerInv'
<1>1. /\ cl.ip # Nobody
      /\ UNCHANGED <<leases, dma, stage, ring, busy, tx, call, cache, sock, cl, up, air, faults>>
    BY DEF Neighbourly, rxVars
<1>2. PICK f \in {Frame("echo", Neighbour, Neighbour, <<cl.ip>>),
                  Frame("echo", Neighbour, Neighbour, <<All>>),
                  Frame("arp_request", Neighbour, cl.ip, <<>>)} :
        lan' = Append(lan, f)
    BY DEF Neighbourly
<1>3. f \in Inbound(leases)
    <2>1. cl.ip \in Servers
        BY <1>1, PeerParts DEF ClientType
    <2> DEFINE a == cl.ip
    <2>2. a \in Servers
        BY <2>1
    <2> HIDE DEF a
    <2>3. /\ Frame("echo", Neighbour, Neighbour, <<a>>) \in Inbound(leases)
          /\ Frame("echo", Neighbour, Neighbour, <<All>>) \in Inbound(leases)
          /\ Frame("arp_request", Neighbour, a, <<>>) \in Inbound(leases)
        BY <2>2 DEF Inbound
    <2> QED BY <1>2, <2>3 DEF a
<1>4. lan' \in Seq(Inbound(leases))
    BY <1>2, <1>3, PeerParts, AppendProperties
<1> QED
    BY <1>1, <1>4, PeerParts, OutsideSteps

LEMMA RarePeer == ASSUME PeerInv, Rare PROVE PeerInv'
<1>1. /\ Fault
      /\ UNCHANGED <<leases, dma, stage, ring, busy, tx, call, cache, sock, cl, air>>
    BY DEF Rare, rxVars
<1>2. up' \in BOOLEAN
    BY PeerParts DEF Rare, Lose, Repeat, LinkDown
<1>3. lan' \in Seq(Inbound(leases))
    <2>1. CASE lan # <<>>
        <3>1. Head(lan) \in Inbound(leases) /\ Tail(lan) \in Seq(Inbound(leases))
            BY <2>1, PeerParts, HeadTailProperties
        <3>2. Append(lan, Head(lan)) \in Seq(Inbound(leases))
            BY <3>1, PeerParts, AppendProperties
        <3> QED BY <3>1, <3>2, PeerParts DEF Rare, Lose, Repeat, LinkDown
    <2>2. CASE lan = <<>>
        BY <2>2, PeerParts DEF Rare, Lose, Repeat, LinkDown
    <2> QED BY <2>1, <2>2
<1> QED
    BY <1>1, <1>2, <1>3, PeerParts, FaultCounts, OutsideSteps

LEMMA LinkUpPeer == ASSUME PeerInv, LinkUp PROVE PeerInv'
<1>1. /\ up' = TRUE
      /\ UNCHANGED <<lan, leases, dma, stage, ring, busy, tx, call, cache, sock, cl, air, faults>>
    BY DEF LinkUp, rxVars, envVars
<1> QED
    BY <1>1, PeerParts, OutsideSteps

LEMMA PeerInit == ASSUME Init PROVE PeerInv
<1>1. 0 \in 0 .. Wrap - 1 /\ NoFrame \in Inbound({}) /\ NoFrame \in Outbound
    BY Sizes DEF Inbound, Outbound
<1>2. 0 % Wrap = 0 /\ (0 - 0) % Wrap = 0
    BY Sizes
<1>3. /\ stage = [slot |-> [i \in 0 .. StageSlots - 1 |-> NoFrame], head |-> 0, tail |-> 0]
      /\ ring = [slot |-> [i \in 0 .. IpSlots - 1 |-> NoFrame], head |-> 0, tail |-> 0, sem |-> 0]
      /\ busy = [servicer |-> FALSE, ipv4 |-> FALSE]
      /\ lan = <<>> /\ dma = <<>> /\ leases = {} /\ up = TRUE /\ faults = 0 /\ cache = <<>>
      /\ sock = [p \in {"dhcp"} |-> <<>>]
    BY DEF Init
<1>4. stage \in Ring(StageSlots, {}) /\ ring \in IpRing({})
    BY <1>1, <1>3 DEF Ring, IpRing
<1>5. Count(stage) = 0 /\ Count(ring) = 0
    BY <1>2, <1>3 DEF Count
<1>6. /\ DOMAIN sock = {"dhcp"}
      /\ \A p \in DOMAIN sock : sock[p] \in Seq(Datagram(leases)) /\ Len(sock[p]) <= UdpSlots
    <2>1. <<>> \in Seq(Datagram(leases)) /\ Len(<<>>) <= UdpSlots
        BY Sizes
    <2> QED BY <1>3, <2>1
<1>7. Received(leases)
    <2>1. lan \in Seq(Inbound(leases)) /\ dma \in Seq(Inbound(leases)) /\ Len(dma) <= DmaSlots
        BY <1>3, Sizes
    <2>2. /\ busy \in [servicer : BOOLEAN, ipv4 : BOOLEAN] /\ ~busy.ipv4 /\ ~busy.servicer
          /\ ring.sem = 0
        BY <1>3
    <2>3. Count(stage) <= StageSlots /\ Count(ring) <= IpSlots /\ leases = {}
        BY <1>3, <1>5, Sizes
    <2>4. stage \in Ring(StageSlots, leases) /\ ring \in IpRing(leases)
        BY <1>4, <2>3
    <2>5. ring.sem = Count(ring) - (IF busy.ipv4 THEN 1 ELSE 0)
        <3> DEFINE skip == IF busy.ipv4 THEN 1 ELSE 0
                   n == Count(ring)
        <3>1. skip = 0 /\ n = 0 /\ ring.sem = 0
            BY <1>5, <2>2
        <3> HIDE DEF skip, n
        <3>2. ring.sem = n - skip
            BY ONLY <3>1
        <3> QED BY <3>2 DEF skip, n
    <2>6. DOMAIN sock \subseteq {"dhcp", "dns"}
        BY <1>6
    <2> QED BY <1>6, <2>1, <2>2, <2>3, <2>4, <2>5, <2>6 DEF Received
<1>8. Sending
    <2>1. tx \in [busy : BOOLEAN, buf : [seq : Nat, frame : Outbound], seq : Nat,
                  count : 0 .. Wrap - 1, armed : BOOLEAN, done : BOOLEAN]
        BY <1>1 DEF Init
    <2>2. call \in [Proc -> [at : {"idle", "fill", "launch", "wait"}, frame : Outbound,
                             prev : 0 .. Wrap - 1]]
        BY <1>1 DEF Init, Idle
    <2>3. air \in [seq : Int, frame : Outbound]
        BY <1>1 DEF Init
    <2> QED BY <1>3, <2>1, <2>2, <2>3, Sizes DEF Sending
<1>9. \A p \in Proc : call[p].at = "idle"
    BY DEF Init, Idle
<1>10. OneSender
    <2>1. ~tx.busy
        BY DEF Init
    <2> QED BY <1>9, <2>1, Callers DEF OneSender, HasDescriptor
<1>11. cl \in ClientType /\ ClientFits(cl, call.client, DOMAIN sock)
    <2>1. cl = [phase |-> "discover", at |-> "write", tries |-> 0, arp |-> 0,
                offer |-> Nobody, ip |-> Nobody, id |-> 0, answer |-> 0]
        BY DEF Init
    <2>2. 0 \in 0 .. Retries - 1 /\ 0 \in 0 .. ArpRetries /\ 0 \in 0 .. Questions
        BY Sizes
    <2>3. cl \in ClientType
        BY <2>1, <2>2 DEF ClientType
    <2>4. ClientFits(cl, call.client, DOMAIN sock)
        BY <1>6, <1>9, <2>1, Callers DEF ClientFits
    <2> QED BY <2>3, <2>4
<1>12. (cl.ip # Nobody => cl.ip \in leases) /\ (cl.answer # 0 => cl.answer = cl.id)
    BY DEF Init
<1> QED
    BY <1>3, <1>7, <1>8, <1>10, <1>11, <1>12, Sizes DEF PeerInv

LEMMA PeerNext == PeerInv /\ [Next]_vars => PeerInv'
<1> SUFFICES ASSUME PeerInv, [Next]_vars PROVE PeerInv'
    OBVIOUS
<1>1. CASE UNCHANGED vars
    <2>1. UNCHANGED <<lan, leases, dma, stage, ring, busy, tx, call, cache, sock, cl, up, air, faults>>
        BY <1>1 DEF vars, rxVars, envVars
    <2> QED BY <2>1, PeerParts, OutsideSteps
<1> QED
    BY <1>1, DispatchPeer, DumpPeer, ServicedPeer, Ipv4Peer, ReleasePeer, TxFramePeer, ClientPeer,
       SentPeer, StalledPeer, ReceivePeer, NeighbourPeer, LinkUpPeer, RarePeer DEF Next

LEMMA PeersFixed == Spec => []PeerInv
<1>1. Init => PeerInv
    BY PeerInit
<1>2. PeerInv /\ [Next]_vars => PeerInv'
    BY PeerNext
<1> QED
    BY <1>1, <1>2, PTL DEF Spec

\* Every ring holds at most what it has slots for and the IP ring's semaphore
\* counts what nobody has begun with, however the counters have wrapped; the
\* descriptor is busy exactly while a process is between taking it and giving
\* it back; no retry, try or queue goes beyond its limit (wifi_rx_nmi_drain,
\* ipv4_enqueue, wifi_tx_frame, udp_recv, net_send, dhcp_proc).
THEOREM NetTypes == Spec => []TypeOK
<1>1. PeerInv => TypeOK
    <2> SUFFICES ASSUME PeerInv PROVE TypeOK
        OBVIOUS
    <2>1. RingOk(stage, StageSlots) /\ RingOk(ring, IpSlots)
        BY PeerParts DEF RingOk, Ring, IpRing
    <2>2. tx.count \in 0 .. Wrap - 1 /\ {tx.busy, tx.armed, tx.done, up} \subseteq BOOLEAN
        BY PeerParts
    <2>3. /\ \A p \in Proc : call[p].at \in {"idle", "fill", "launch", "wait"}
          /\ tx.busy <=> \E p \in Proc : call[p].at \in {"launch", "wait"}
        BY PeerParts DEF OneSender, HasDescriptor
    <2>4. cl.tries \in 0 .. Retries - 1 /\ cl.arp \in 0 .. ArpRetries /\ cl.id \in 0 .. Questions
        BY PeerParts DEF ClientType
    <2> QED BY <2>1, <2>2, <2>3, <2>4, PeerParts DEF TypeOK
<1> QED
    BY <1>1, PeersFixed, PTL

\* Whatever the cache, the rings and the network have done to frames and
\* however late they come: what goes out goes to the next hop of its packet,
\* the address in use was given to this machine, and an answer is the answer to
\* the question asked (net_send, arp_cache_store, dhcp_proc, dns_resolve).
THEOREM PeersStayRight == Spec => []RightPeer
<1>1. PeerInv => RightPeer
    <2> SUFFICES ASSUME PeerInv PROVE RightPeer
        OBVIOUS
    <2>1. air.frame \in Outbound
        BY PeerParts
    <2>2. RightHost
        BY <2>1, OutboundFacts DEF RightHost
    <2> QED BY <2>2, PeerParts DEF RightPeer, LeaseHeld, ResolveRight
<1> QED
    BY <1>1, PeersFixed, PTL

-----------------------------------------------------------------------------
(* The receive path is a pipe.  Remainders first: which slot a free-running *)
(* counter names.                                                          *)

LEMMA SmallMultiple ==
    ASSUME NEW w \in Nat \ {0}, NEW m \in Int, -w < w * m, w * m < w
    PROVE  m = 0
<1>1. ~(m >= 1)
    <2> SUFFICES ASSUME m >= 1 PROVE FALSE
        OBVIOUS
    <2>1. w * m >= w
        BY SMTT(60)
    <2> QED BY <2>1
<1>2. ~(m <= -1)
    <2> SUFFICES ASSUME m <= -1 PROVE FALSE
        OBVIOUS
    <2>1. w * m <= -w
        BY SMTT(60)
    <2> QED BY <2>1
<1> QED
    BY <1>1, <1>2

LEMMA Division ==
    ASSUME NEW w \in Nat \ {0}, NEW a \in Int
    PROVE  a % w \in 0 .. w - 1 /\ a \div w \in Int /\ a = w * (a \div w) + (a % w)
OBVIOUS

\* Numbers that differ by a multiple of w leave the same remainder.
LEMMA SameRemainder ==
    ASSUME NEW w \in Nat \ {0}, NEW a \in Int, NEW b \in Int, NEW k \in Int,
           b = a + w * k
    PROVE  a % w = b % w
<1> DEFINE i == a \div w
           j == b \div w
           r == a % w
           s == b % w
<1>1. i \in Int /\ j \in Int /\ r \in 0 .. w - 1 /\ s \in 0 .. w - 1
    BY Division
<1>2. a = w * i + r /\ b = w * j + s
    BY Division
<1> HIDE DEF i, j, r, s
<1>3. w * (i + k - j) = s - r
    BY <1>1, <1>2
<1> DEFINE m == i + k - j
<1>4. m \in Int /\ -w < w * m /\ w * m < w
    BY <1>1, <1>3
<1> HIDE DEF m
<1>5. m = 0
    BY <1>4, SmallMultiple
<1> USE DEF m
<1>6. s - r = 0
    BY <1>1, <1>3, <1>5
<1> QED
    BY <1>1, <1>6 DEF r, s

\* Numbers less than w apart do not.
LEMMA OtherRemainder ==
    ASSUME NEW w \in Nat \ {0}, NEW a \in Int, NEW b \in Int, a < b, b < a + w
    PROVE  a % w # b % w
<1> DEFINE i == a \div w
           j == b \div w
           r == a % w
           s == b % w
<1>1. i \in Int /\ j \in Int /\ r \in 0 .. w - 1 /\ s \in 0 .. w - 1
    BY Division
<1>2. a = w * i + r /\ b = w * j + s
    BY Division
<1> HIDE DEF i, j, r, s
<1> SUFFICES ASSUME r = s PROVE FALSE
    BY DEF r, s
<1>3. w * (j - i) = b - a
    BY <1>1, <1>2
<1> DEFINE m == j - i
<1>4. m \in Int /\ -w < w * m /\ w * m < w
    BY <1>1, <1>3
<1> HIDE DEF m
<1>5. m = 0
    BY <1>4, SmallMultiple
<1> USE DEF m
<1> QED
    BY <1>1, <1>3, <1>5

\* The sizes of the two rings.
LEMMA SlotsAre ==
    ASSUME NEW slots \in {StageSlots, IpSlots}
    PROVE  /\ slots \in Nat \ {0} /\ Wrap \in Nat /\ Wrap > slots
           /\ \E k \in Int : Wrap = slots * k
<1>1. slots \in Nat \ {0} /\ Wrap \in Nat /\ Wrap > slots
    BY Sizes
<1>2. Wrap % slots = 0
    BY NetAssumption
<1> DEFINE k == Wrap \div slots
<1>3. k \in Int /\ Wrap = slots * k + 0
    BY <1>1, <1>2, Division
<1>4. slots * k \in Int
    BY <1>1, <1>3
<1>5. Wrap = slots * k
    BY <1>3, <1>4
<1> QED
    BY <1>1, <1>3, <1>5

\* A counter that wraps names the slots in turn all the same.
LEMMA SlotWraps ==
    ASSUME NEW slots \in {StageSlots, IpSlots}, NEW a \in Int
    PROVE  (a + Wrap) % slots = a % slots
<1>1. slots \in Nat \ {0} /\ Wrap \in Nat
    BY SlotsAre
<1>2. PICK k \in Int : Wrap = slots * k
    BY SlotsAre
<1> DEFINE b == a + Wrap
<1>3. b \in Int /\ b = a + slots * k
    BY <1>1, <1>2
<1> QED
    BY <1>1, <1>3, SameRemainder

LEMMA Advance ==
    ASSUME NEW c \in 0 .. Wrap - 1, Wrap \in Nat
    PROVE  (c + 1) % Wrap = IF c = Wrap - 1 THEN 0 ELSE c + 1
<1>1. c # Wrap - 1 => (c + 1) % Wrap = c + 1
    BY SMTT(60)
<1>2. c = Wrap - 1 => (c + 1) % Wrap = 0
    BY SMTT(60)
<1> QED
    BY <1>1, <1>2

LEMMA NextSlot ==
    ASSUME NEW slots \in {StageSlots, IpSlots}, NEW t \in 0 .. Wrap - 1, NEW i \in Int
    PROVE  (((t + 1) % Wrap) + i) % slots = (t + 1 + i) % slots
<1>1. Wrap \in Nat /\ t \in Int
    BY SlotsAre
<1> DEFINE t1 == (t + 1) % Wrap
           a == t1 + i
<1>2. t1 = t + 1 \/ t1 = t + 1 - Wrap
    BY <1>1, Advance
<1>3. t1 \in Int
    BY <1>1, <1>2
<1> HIDE DEF t1
<1>4. a \in Int /\ (t + 1 + i = a \/ t + 1 + i = a + Wrap)
    BY <1>1, <1>2, <1>3
<1> HIDE DEF a
<1>5. (a + Wrap) % slots = a % slots
    BY <1>4, SlotWraps
<1> QED
    BY <1>4, <1>5 DEF a, t1

\* The slot behind the last one in use is the one at the head.
LEMMA FreeSlot ==
    ASSUME NEW slots \in {StageSlots, IpSlots}, NEW h \in 0 .. Wrap - 1, NEW t \in 0 .. Wrap - 1,
           NEW d \in Int, d = (h - t) % Wrap
    PROVE  (t + d) % slots = h % slots
<1>1. Wrap \in Nat /\ t \in Int /\ h \in Int
    BY SlotsAre
<1>2. d = IF h >= t THEN h - t ELSE h - t + Wrap
    <2> DEFINE e == h - t
               w == Wrap
    <2>1. w \in Nat \ {0} /\ e \in Int /\ -w < e /\ e < w
        BY <1>1
    <2> HIDE DEF e, w
    <2>2. (0 <= e => e % w = e) /\ (e < 0 => e % w = e + w)
        BY <2>1, SMTT(60)
    <2> QED BY <1>1, <2>1, <2>2 DEF e, w
<1>3. t + d = h \/ t + d = h + Wrap
    BY <1>1, <1>2
<1>4. (h + Wrap) % slots = h % slots
    BY <1>1, SlotWraps
<1> QED
    BY <1>3, <1>4

-----------------------------------------------------------------------------
(* What waits in a ring, as a sequence.                                    *)

RingLike(r, slots, S) ==
    /\ r.head \in 0 .. Wrap - 1 /\ r.tail \in 0 .. Wrap - 1
    /\ Count(r) \in 0 .. slots
    /\ r.slot \in [0 .. slots - 1 -> S]

\* All but the first k.
From(r, slots, k) == [i \in 1 .. Count(r) - k |-> SlotOf(r, i - 1 + k, slots)]

InTurn(w, r, slots, k) ==
    /\ Len(w) = Count(r) - k
    /\ \A i \in 1 .. Count(r) - k : w[i] = r.slot[(r.tail + i - 1 + k) % slots]

LEMMA WaitingIs ==
    ASSUME NEW slots \in {StageSlots, IpSlots}, NEW S, NEW r, RingLike(r, slots, S),
           NEW k \in {0, 1}, k <= Count(r)
    PROVE  From(r, slots, k) \in Seq(S) /\ InTurn(From(r, slots, k), r, slots, k)
<1> DEFINE n == Count(r) - k
           w == From(r, slots, k)
<1>1. slots \in Nat \ {0} /\ Wrap \in Nat
    BY SlotsAre
<1>2. n \in Nat /\ r.tail \in Int
    BY <1>1 DEF RingLike
<1>3. w = [i \in 1 .. n |-> r.slot[(r.tail + (i - 1 + k)) % slots]]
    BY DEF From, SlotOf
<1> HIDE DEF n, w
<1>4. \A i \in 1 .. n : /\ (r.tail + (i - 1 + k)) % slots \in 0 .. slots - 1
                        /\ r.tail + (i - 1 + k) = r.tail + i - 1 + k
    BY <1>1, <1>2
<1>5. w \in [1 .. n -> S]
    BY <1>3, <1>4 DEF RingLike
<1>6. w \in Seq(S) /\ Len(w) = n
    BY <1>2, <1>5, SeqDef, LenProperties
<1>7. \A i \in 1 .. n : w[i] = r.slot[(r.tail + i - 1 + k) % slots]
    BY <1>3, <1>4
<1> QED
    BY <1>6, <1>7 DEF n, w, InTurn

\* A frame put in at the head waits behind the others.
LEMMA PutWaits ==
    ASSUME NEW slots \in {StageSlots, IpSlots}, NEW S, NEW r, RingLike(r, slots, S),
           NEW k \in {0, 1}, k <= Count(r), Count(r) < slots, NEW f \in S, NEW r2,
           r2.slot = [r.slot EXCEPT ![r.head % slots] = f],
           r2.head = (r.head + 1) % Wrap, r2.tail = r.tail
    PROVE  /\ RingLike(r2, slots, S) /\ Count(r2) = Count(r) + 1
           /\ From(r2, slots, k) = Append(From(r, slots, k), f)
           /\ Count(r) > 0 => SlotOf(r2, 0, slots) = SlotOf(r, 0, slots)
<1> DEFINE c == Count(r)
           w == From(r, slots, k)
           w2 == From(r2, slots, k)
<1>1. slots \in Nat \ {0} /\ Wrap \in Nat /\ Wrap > slots
    BY SlotsAre
<1>2. r.head \in 0 .. Wrap - 1 /\ r.tail \in 0 .. Wrap - 1 /\ c \in 0 .. slots - 1
    BY <1>1 DEF RingLike
<1>3. r.head \in Int /\ r.tail \in Int /\ c \in Int
    BY <1>1, <1>2
<1>4. (r.head + 1) % Wrap \in 0 .. Wrap - 1 /\ Count(r2) = c + 1
    <2>1. (r.head - r.tail) % Wrap = c
        BY DEF Count
    <2> HIDE DEF c
    <2>2. c < Wrap - 1
        BY <1>1, <1>2
    <2>3. /\ (r.head + 1) % Wrap \in 0 .. Wrap - 1
          /\ (((r.head + 1) % Wrap) - r.tail) % Wrap = c + 1
        BY <1>1, <1>2, <2>1, <2>2, Counting
    <2>4. Count(r2) = (((r.head + 1) % Wrap) - r.tail) % Wrap
        BY DEF Count
    <2> QED BY <2>3, <2>4
<1>5. (r.tail + c) % slots = r.head % slots /\ r.head % slots \in 0 .. slots - 1
    <2>1. (r.head - r.tail) % Wrap = c
        BY DEF Count
    <2> HIDE DEF c
    <2>2. (r.tail + c) % slots = r.head % slots
        BY <1>2, <1>3, <2>1, FreeSlot
    <2>3. r.head % slots \in 0 .. slots - 1
        BY <1>1, <1>3
    <2> QED BY <2>2, <2>3
<1>6. \A i \in 0 .. c - 1 : /\ (r.tail + i) % slots # r.head % slots
                            /\ (r.tail + i) % slots \in 0 .. slots - 1
    <2> HIDE DEF c
    <2> TAKE i \in 0 .. c - 1
    <2> DEFINE a == r.tail + i
               b == r.tail + c
    <2>1. a \in Int /\ b \in Int /\ a < b /\ b < a + slots
        BY <1>1, <1>2, <1>3
    <2> HIDE DEF a, b
    <2>2. a % slots # b % slots
        BY <1>1, <2>1, OtherRemainder
    <2>3. a % slots \in 0 .. slots - 1
        BY <1>1, <2>1
    <2> QED BY <1>5, <2>2, <2>3 DEF a, b
<1>7. r2.slot \in [0 .. slots - 1 -> S]
    BY DEF RingLike
<1>8. RingLike(r2, slots, S)
    <2> HIDE DEF c
    <2>1. Count(r2) \in 0 .. slots
        BY <1>1, <1>2, <1>4
    <2>2. r2.head \in 0 .. Wrap - 1 /\ r2.tail \in 0 .. Wrap - 1
        BY <1>2, <1>4
    <2> QED BY <1>7, <2>1, <2>2 DEF RingLike
<1>9. k <= Count(r2)
    BY <1>2, <1>4
<1>10. /\ w \in Seq(S) /\ Len(w) = c - k
       /\ \A i \in 1 .. Len(w) : w[i] = r.slot[(r.tail + i - 1 + k) % slots]
    <2>1. w \in Seq(S) /\ InTurn(w, r, slots, k)
        BY WaitingIs
    <2> HIDE DEF w
    <2> QED BY <2>1 DEF InTurn
<1>11. /\ w2 \in Seq(S) /\ Len(w2) = c + 1 - k
       /\ \A i \in 1 .. Len(w2) : w2[i] = r2.slot[(r.tail + i - 1 + k) % slots]
    <2>1. w2 \in Seq(S) /\ InTurn(w2, r2, slots, k)
        BY <1>8, <1>9, WaitingIs
    <2> HIDE DEF c, w2
    <2>2. Len(w2) = c + 1 - k
        BY <1>3, <1>4, <2>1 DEF InTurn
    <2>3. \A i \in 1 .. c + 1 - k : w2[i] = r2.slot[(r2.tail + i - 1 + k) % slots]
        BY <1>3, <1>4, <2>1 DEF InTurn
    <2> QED BY <2>1, <2>2, <2>3
<1>12. k <= c
    OBVIOUS
<1> HIDE DEF c, w, w2
<1>13. \A i \in 1 .. Len(w) : w2[i] = w[i]
    <2> TAKE i \in 1 .. Len(w)
    <2>1. i - 1 + k \in 0 .. c - 1 /\ r.tail + i - 1 + k = r.tail + (i - 1 + k) /\ i \in 1 .. Len(w2)
        <3>1. i \in 1 .. c - k
            BY <1>10
        <3> QED BY <1>2, <1>3, <1>11, <1>12, <3>1
    <2>2. /\ (r.tail + i - 1 + k) % slots # r.head % slots
          /\ (r.tail + i - 1 + k) % slots \in 0 .. slots - 1
        BY <1>6, <2>1
    <2>3. r2.slot[(r.tail + i - 1 + k) % slots] = r.slot[(r.tail + i - 1 + k) % slots]
        BY <2>2 DEF RingLike
    <2> QED BY <1>10, <1>11, <2>1, <2>3
<1>14. w2[Len(w) + 1] = f
    <2>1. Len(w) + 1 \in 1 .. Len(w2) /\ r.tail + (Len(w) + 1) - 1 + k = r.tail + c
        <3>1. \A t, x \in Int : x >= k => /\ x - k + 1 \in 1 .. x + 1 - k
                                        /\ t + (x - k + 1) - 1 + k = t + x
            OBVIOUS
        <3> QED BY <1>3, <1>10, <1>11, <1>12, <3>1
    <2>2. r2.slot[r.head % slots] = f
        BY <1>5 DEF RingLike
    <2>3. w2[Len(w) + 1] = r2.slot[(r.tail + (Len(w) + 1) - 1 + k) % slots]
        BY <1>11, <2>1
    <2> QED BY <1>5, <2>1, <2>2, <2>3
<1>15. w2 = Append(w, f)
    <2>1. Append(w, f) \in Seq(S) /\ Len(Append(w, f)) = Len(w) + 1
        BY <1>10, AppendProperties
    <2>2. Len(w2) = Len(w) + 1 /\ Len(w) \in Nat
        BY <1>2, <1>3, <1>10, <1>11, LenProperties
    <2>3. \A i \in 1 .. Len(w2) : w2[i] = Append(w, f)[i]
        <3> TAKE i \in 1 .. Len(w2)
        <3>1. i \in 1 .. Len(w) \/ i = Len(w) + 1
            BY <2>2
        <3> QED BY <1>10, <1>13, <1>14, <3>1, AppendProperties
    <2> QED BY <1>11, <2>1, <2>2, <2>3, SeqEqual
<1>16. c > 0 => SlotOf(r2, 0, slots) = SlotOf(r, 0, slots)
    <2> SUFFICES ASSUME c > 0 PROVE SlotOf(r2, 0, slots) = SlotOf(r, 0, slots)
        OBVIOUS
    <2>1. 0 \in 0 .. c - 1
        BY <1>2
    <2>2. (r.tail + 0) % slots # r.head % slots /\ (r.tail + 0) % slots \in 0 .. slots - 1
        BY <1>6, <2>1
    <2> QED BY <2>2 DEF SlotOf, RingLike
<1> QED
    BY <1>4, <1>8, <1>15, <1>16 DEF c, w, w2

\* The first is taken in hand.
LEMMA BegunWaits ==
    ASSUME NEW slots \in {StageSlots, IpSlots}, NEW S, NEW r, RingLike(r, slots, S), Count(r) > 0
    PROVE  /\ From(r, slots, 0) # <<>>
           /\ Head(From(r, slots, 0)) = SlotOf(r, 0, slots)
           /\ Tail(From(r, slots, 0)) = From(r, slots, 1)
           /\ SlotOf(r, 0, slots) \in S
<1> DEFINE w == From(r, slots, 0)
           w1 == From(r, slots, 1)
           c == Count(r)
<1>1. slots \in Nat \ {0} /\ Wrap \in Nat /\ c \in Nat /\ r.tail \in Int
    BY SlotsAre DEF RingLike
<1>2. /\ w \in Seq(S) /\ Len(w) = c
      /\ \A i \in 1 .. c : w[i] = r.slot[(r.tail + i - 1 + 0) % slots]
    <2>1. w \in Seq(S) /\ InTurn(w, r, slots, 0)
        BY <1>1, WaitingIs
    <2>2. c - 0 = c
        BY <1>1
    <2> HIDE DEF w
    <2> QED BY <2>1, <2>2 DEF InTurn
<1>3. /\ w1 \in Seq(S) /\ Len(w1) = c - 1
      /\ \A i \in 1 .. c - 1 : w1[i] = r.slot[(r.tail + i - 1 + 1) % slots]
    <2>1. w1 \in Seq(S) /\ InTurn(w1, r, slots, 1)
        BY <1>1, WaitingIs
    <2> HIDE DEF w1
    <2> QED BY <2>1 DEF InTurn
<1> HIDE DEF w, w1, c
<1>4. c > 0
    BY DEF c
<1>5. w # <<>> /\ Head(w) = w[1]
    BY <1>1, <1>2, <1>4, EmptySeq, HeadTailProperties
<1>6. w[1] = SlotOf(r, 0, slots)
    <2>1. 1 \in 1 .. Len(w) /\ r.tail + 1 - 1 + 0 = r.tail + 0
        BY <1>1, <1>2, <1>4
    <2> QED BY <1>2, <2>1 DEF SlotOf
<1>7. Tail(w) \in Seq(S) /\ Len(Tail(w)) = c - 1 /\ \A i \in 1 .. c - 1 : Tail(w)[i] = w[i + 1]
    BY <1>2, <1>5, HeadTailProperties
<1>8. \A i \in 1 .. c - 1 : Tail(w)[i] = w1[i]
    <2> TAKE i \in 1 .. c - 1
    <2>1. i + 1 \in 1 .. c /\ r.tail + (i + 1) - 1 + 0 = r.tail + i - 1 + 1
        BY <1>1
    <2> QED BY <1>2, <1>3, <1>7, <2>1
<1>9. Tail(w) = w1
    BY <1>3, <1>7, <1>8, SeqEqual
<1>10. w[1] \in S
    BY <1>1, <1>2, <1>4, ElementOfSeq
<1> QED
    BY <1>5, <1>6, <1>9, <1>10 DEF w, w1

\* Giving the slot of the one in hand back leaves those that wait.
LEMMA GoneWaits ==
    ASSUME NEW slots \in {StageSlots, IpSlots}, NEW S, NEW r, RingLike(r, slots, S), Count(r) > 0,
           NEW r2, RingLike(r2, slots, S), r2.tail = (r.tail + 1) % Wrap, Count(r2) = Count(r) - 1,
           r2.slot = [r.slot EXCEPT ![r.tail % slots] = NoFrame]
    PROVE  From(r2, slots, 0) = From(r, slots, 1)
<1> DEFINE w == From(r2, slots, 0)
           w1 == From(r, slots, 1)
           c == Count(r)
<1>1. /\ slots \in Nat \ {0} /\ Wrap \in Nat /\ c \in 0 .. slots /\ r.tail \in Int
      /\ r.tail \in 0 .. Wrap - 1
    <2>1. slots \in Nat \ {0} /\ Wrap \in Nat
        BY SlotsAre
    <2> QED BY <2>1 DEF RingLike
<1>2. /\ w \in Seq(S) /\ Len(w) = c - 1
      /\ \A i \in 1 .. c - 1 : w[i] = r2.slot[(((r.tail + 1) % Wrap) + i - 1 + 0) % slots]
    <2>1. w \in Seq(S) /\ InTurn(w, r2, slots, 0)
        BY <1>1, WaitingIs
    <2>2. Count(r2) - 0 = c - 1
        BY <1>1
    <2> HIDE DEF w
    <2> QED BY <2>1, <2>2 DEF InTurn
<1>3. /\ w1 \in Seq(S) /\ Len(w1) = c - 1
      /\ \A i \in 1 .. c - 1 : w1[i] = r.slot[(r.tail + i - 1 + 1) % slots]
    <2>1. w1 \in Seq(S) /\ InTurn(w1, r, slots, 1)
        BY <1>1, WaitingIs
    <2> HIDE DEF w1
    <2> QED BY <2>1 DEF InTurn
<1> HIDE DEF w, w1, c
<1>4. \A i \in 1 .. c - 1 : w[i] = w1[i]
    <2> TAKE i \in 1 .. c - 1
    <2> DEFINE b == r.tail + i - 1 + 1
               t1 == (r.tail + 1) % Wrap
    <2>1. b \in Int /\ i - 1 \in Int /\ r.tail < b /\ b < r.tail + slots /\ b = r.tail + 1 + (i - 1)
        BY <1>1
    <2>2. t1 \in Int /\ t1 + i - 1 + 0 = t1 + (i - 1)
        <3>1. t1 \in Int
            BY <1>1
        <3> HIDE DEF t1
        <3> QED BY <1>1, <3>1
    <2>3. (t1 + (i - 1)) % slots = b % slots
        BY <1>1, <2>1, NextSlot
    <2> HIDE DEF t1
    <2>4. b % slots # r.tail % slots /\ b % slots \in 0 .. slots - 1
        <3> HIDE DEF b
        <3>1. b % slots # r.tail % slots
            BY <1>1, <2>1, OtherRemainder
        <3> QED BY <1>1, <2>1, <3>1
    <2>5. w[i] = r2.slot[b % slots] /\ w1[i] = r.slot[b % slots]
        BY <1>2, <1>3, <2>2, <2>3 DEF t1
    <2>6. r2.slot[b % slots] = r.slot[b % slots]
        <3> HIDE DEF b
        <3> QED BY <2>4 DEF RingLike
    <2> QED BY <2>5, <2>6
<1>5. w = w1
    BY <1>1, <1>2, <1>3, <1>4, SeqEqual
<1> QED
    BY <1>5 DEF w, w1

-----------------------------------------------------------------------------
(* What the promise calls losing some of the packets.                      *)

LEMMA ThinnedSame ==
    ASSUME NEW S, NEW s \in Seq(S)
    PROVE  InOrder!Thinned(s, s)
<1> DEFINE at == [i \in DOMAIN s |-> i]
<1>1. DOMAIN s \subseteq Int
    BY LenProperties
<1>2. /\ at \in [DOMAIN s -> DOMAIN s]
      /\ \A i, j \in DOMAIN s : i < j => at[i] < at[j]
      /\ \A i \in DOMAIN s : s[i] = s[at[i]]
    OBVIOUS
<1> QED
    BY <1>2 DEF InOrder!Thinned

LEMMA ThinnedGrow ==
    ASSUME NEW S, NEW s \in Seq(S), NEW t \in Seq(S), NEW e \in S, InOrder!Thinned(s, t)
    PROVE  InOrder!Thinned(Append(s, e), Append(t, e)) /\ InOrder!Thinned(s, Append(t, e))
<1> DEFINE n == Len(s)
           m == Len(t)
           s1 == Append(s, e)
           t1 == Append(t, e)
<1>1. /\ n \in Nat /\ m \in Nat /\ DOMAIN s = 1 .. n /\ DOMAIN t = 1 .. m
      /\ s1 \in Seq(S) /\ DOMAIN s1 = 1 .. n + 1 /\ s1[n + 1] = e /\ \A i \in 1 .. n : s1[i] = s[i]
      /\ t1 \in Seq(S) /\ DOMAIN t1 = 1 .. m + 1 /\ t1[m + 1] = e /\ \A i \in 1 .. m : t1[i] = t[i]
    BY LenProperties, AppendProperties
<1>2. PICK at \in [DOMAIN s -> DOMAIN t] :
          /\ \A i, j \in DOMAIN s : i < j => at[i] < at[j]
          /\ \A i \in DOMAIN s : s[i] = t[at[i]]
    BY DEF InOrder!Thinned
<1> HIDE DEF n, m, s1, t1
<1>3. InOrder!Thinned(s, t1)
    <2>1. /\ at \in [DOMAIN s -> DOMAIN t1]
          /\ \A i \in DOMAIN s : s[i] = t1[at[i]]
        BY <1>1, <1>2
    <2> QED BY <1>2, <2>1 DEF InOrder!Thinned
<1>4. InOrder!Thinned(s1, t1)
    <2> DEFINE to == [i \in 1 .. n + 1 |-> IF i = n + 1 THEN m + 1 ELSE at[i]]
    <2>1. \A i \in 1 .. n + 1 : i = n + 1 \/ i \in 1 .. n
        BY <1>1
    <2>2. \A i \in 1 .. n : i # n + 1 /\ at[i] \in 1 .. m
        BY <1>1, <1>2
    <2>3. n + 1 \in 1 .. n + 1 /\ m + 1 \in 1 .. m + 1 /\ 1 .. m \subseteq 1 .. m + 1
        BY <1>1
    <2>4. to \in [DOMAIN s1 -> DOMAIN t1]
        BY <1>1, <2>1, <2>2, <2>3
    <2>5. \A i \in DOMAIN s1 : s1[i] = t1[to[i]]
        BY <1>1, <1>2, <2>1, <2>2, <2>3
    <2>6. \A i, j \in DOMAIN s1 : i < j => to[i] < to[j]
        <3> TAKE i, j \in DOMAIN s1
        <3> HAVE i < j
        <3>1. i \in 1 .. n /\ at[i] \in 1 .. m /\ to[i] = at[i]
            BY <1>1, <2>2
        <3>2. CASE j = n + 1
            BY <1>1, <2>3, <3>1, <3>2
        <3>3. CASE j # n + 1
            <4>1. j \in 1 .. n /\ to[j] = at[j]
                BY <1>1, <2>1, <3>3
            <4> QED BY <1>1, <1>2, <3>1, <4>1
        <3> QED BY <3>2, <3>3
    <2> HIDE DEF to
    <2> QED BY <2>4, <2>5, <2>6 DEF InOrder!Thinned
<1> QED
    BY <1>3, <1>4 DEF s1, t1

\* One is taken out of the middle.
LEMMA ThinnedOut ==
    ASSUME NEW S, NEW s \in Seq(S), NEW t \in Seq(S), t # <<>>
    PROVE  /\ InOrder!Thinned(s \o Tail(t), s \o t)
           /\ Len(s \o Tail(t)) < Len(s \o t)
<1> DEFINE n == Len(s)
           m == Len(t)
           u == s \o Tail(t)
           v == s \o t
<1>1. /\ n \in Nat /\ m \in Nat /\ m > 0
      /\ Tail(t) \in Seq(S) /\ Len(Tail(t)) = m - 1 /\ \A i \in 1 .. m - 1 : Tail(t)[i] = t[i + 1]
    BY LenProperties, HeadTailProperties, EmptySeq
<1>2. /\ u \in Seq(S) /\ Len(u) = n + (m - 1)
      /\ \A i \in 1 .. n + (m - 1) : u[i] = IF i <= n THEN s[i] ELSE Tail(t)[i - n]
    BY <1>1, ConcatProperties
<1>3. /\ v \in Seq(S) /\ Len(v) = n + m
      /\ \A i \in 1 .. n + m : v[i] = IF i <= n THEN s[i] ELSE t[i - n]
    BY <1>1, ConcatProperties
<1> HIDE DEF n, m, u, v
<1>4. DOMAIN u = 1 .. n + m - 1 /\ DOMAIN v = 1 .. n + m
    BY <1>1, <1>2, <1>3, LenProperties
<1> DEFINE at == [i \in 1 .. n + m - 1 |-> IF i <= n THEN i ELSE i + 1]
<1>5. at \in [DOMAIN u -> DOMAIN v]
    BY <1>1, <1>4
<1>6. \A i, j \in DOMAIN u : i < j => at[i] < at[j]
    BY <1>1, <1>4
<1>7. \A i \in DOMAIN u : u[i] = v[at[i]]
    <2> TAKE i \in DOMAIN u
    <2>1. i \in 1 .. n + (m - 1) /\ at[i] \in 1 .. n + m
        BY <1>1, <1>4
    <2>2. CASE i <= n
        BY <1>2, <1>3, <1>4, <2>1, <2>2
    <2>3. CASE i > n
        <3>1. i - n \in 1 .. m - 1 /\ at[i] = i + 1 /\ ~(i + 1 <= n) /\ (i + 1) - n = (i - n) + 1 /\ ~(i <= n)
            BY <1>1, <1>4, <2>1, <2>3
        <3>2. u[i] = t[(i - n) + 1]
            BY <1>1, <1>2, <2>1, <3>1
        <3>3. v[at[i]] = t[(i + 1) - n]
            BY <1>3, <2>1, <3>1
        <3> QED BY <3>1, <3>2, <3>3
    <2> QED BY <1>1, <2>1, <2>2, <2>3
<1> HIDE DEF at
<1>8. InOrder!Thinned(u, v)
    BY <1>5, <1>6, <1>7 DEF InOrder!Thinned
<1> QED
    BY <1>1, <1>2, <1>3, <1>8 DEF u, v

-----------------------------------------------------------------------------
(* The rings of PeerInv.                                                   *)

LEMMA StageIs ==
    ASSUME NEW g, NEW r \in Ring(StageSlots, g), Count(r) <= StageSlots
    PROVE  RingLike(r, StageSlots, Inbound(g)) /\ StageSlots \in {StageSlots, IpSlots}
<1>1. r.head \in 0 .. Wrap - 1 /\ r.tail \in 0 .. Wrap - 1 /\ Wrap \in Nat /\ StageSlots \in Nat
    BY Sizes DEF Ring
<1>2. Count(r) \in 0 .. Wrap - 1
    BY <1>1, Counting DEF Count
<1>3. Count(r) \in 0 .. StageSlots
    <2> DEFINE c == Count(r)
    <2>1. c \in 0 .. Wrap - 1 /\ c <= StageSlots
        BY <1>2
    <2> HIDE DEF c
    <2>2. c \in 0 .. StageSlots
        BY <1>1, <2>1
    <2> QED BY <2>2 DEF c
<1> QED
    BY <1>1, <1>3 DEF Ring, RingLike

LEMMA RingIs ==
    ASSUME NEW g, NEW r \in IpRing(g), Count(r) <= IpSlots
    PROVE  RingLike(r, IpSlots, Inbound(g)) /\ IpSlots \in {StageSlots, IpSlots}
<1>1. r.head \in 0 .. Wrap - 1 /\ r.tail \in 0 .. Wrap - 1 /\ Wrap \in Nat /\ IpSlots \in Nat
    BY Sizes DEF IpRing
<1>2. Count(r) \in 0 .. Wrap - 1
    BY <1>1, Counting DEF Count
<1>3. Count(r) \in 0 .. IpSlots
    <2> DEFINE c == Count(r)
    <2>1. c \in 0 .. Wrap - 1 /\ c <= IpSlots
        BY <1>2
    <2> HIDE DEF c
    <2>2. c \in 0 .. IpSlots
        BY <1>1, <2>1
    <2> QED BY <2>2 DEF c
<1> QED
    BY <1>1, <1>3 DEF IpRing, RingLike

-----------------------------------------------------------------------------
(* The interrupt's drain is a drop or nothing.                             *)

\* The same, or something of it was lost.
OrLess(s, t) == s = t \/ (Len(s) < Len(t) /\ InOrder!Thinned(s, t))

LEMMA LessGrows ==
    ASSUME NEW S, NEW s \in Seq(S), NEW t \in Seq(S), NEW e \in S, OrLess(s, t)
    PROVE  OrLess(Append(s, e), Append(t, e)) /\ OrLess(s, Append(t, e))
<1>1. InOrder!Thinned(s, t) /\ Len(s) <= Len(t)
    BY ThinnedSame, LenProperties DEF OrLess
<1>2. InOrder!Thinned(Append(s, e), Append(t, e)) /\ InOrder!Thinned(s, Append(t, e))
    BY <1>1, ThinnedGrow
<1>3. /\ Len(Append(s, e)) = Len(s) + 1 /\ Len(Append(t, e)) = Len(t) + 1
      /\ Len(s) \in Nat /\ Len(t) \in Nat
    BY AppendProperties, LenProperties
<1> QED
    BY <1>1, <1>2, <1>3 DEF OrLess

LEMMA AppendBehind ==
    ASSUME NEW S, NEW s \in Seq(S), NEW t \in Seq(S), NEW e \in S
    PROVE  s \o Append(t, e) = Append(s \o t, e)
<1>1. <<e>> \in Seq(S) /\ s \o t \in Seq(S)
    BY ConcatProperties
<1>2. Append(t, e) = t \o <<e>> /\ Append(s \o t, e) = (s \o t) \o <<e>>
    BY <1>1, AppendIsConcat
<1> QED
    BY <1>1, <1>2, ConcatAssociative

\* A received frame is put behind the others, or dropped.
LEMMA StagedWaits ==
    ASSUME NEW g, NEW r \in Ring(StageSlots, g), Count(r) <= StageSlots, NEW f \in Inbound(g),
           NEW k \in {0, 1}, k <= Count(r)
    PROVE  \/ Staged(r, f) = r
           \/ From(Staged(r, f), StageSlots, k) = Append(From(r, StageSlots, k), f)
<1> DEFINE r2 == Staged(r, f)
<1> SUFFICES ASSUME r2 # r PROVE From(r2, StageSlots, k) = Append(From(r, StageSlots, k), f)
    OBVIOUS
<1>1. Count(r) < StageSlots
    BY DEF Staged
<1>2. /\ r2.slot = [r.slot EXCEPT ![r.head % StageSlots] = f]
      /\ r2.head = (r.head + 1) % Wrap /\ r2.tail = r.tail
    <2> DEFINE i == r.head % StageSlots
               h == (r.head + 1) % Wrap
    <2>1. r2 = [r EXCEPT !.slot[i] = f, !.head = h]
        BY <1>1 DEF Staged
    <2> HIDE DEF i, h, r2
    <2>2. r2.slot = [r.slot EXCEPT ![i] = f] /\ r2.head = h /\ r2.tail = r.tail
        BY <2>1 DEF Ring
    <2> QED BY <2>2 DEF i, h
<1>3. RingLike(r, StageSlots, Inbound(g)) /\ StageSlots \in {StageSlots, IpSlots}
    BY StageIs
<1> HIDE DEF r2
<1> QED
    BY <1>1, <1>2, <1>3, PutWaits

LEMMA DrainThins ==
    ASSUME NEW g, NEW n \in Nat, NEW d, Copied(d, n), dma \in Seq(Inbound(g)), n = Len(dma),
           stage \in Ring(StageSlots, g), Count(stage) <= StageSlots,
           NEW k \in {0, 1}, k <= Count(stage), NEW a \in Seq(Inbound(g))
    PROVE  OrLess(a \o From(d[n], StageSlots, k), (a \o From(stage, StageSlots, k)) \o dma)
<1> DEFINE R == Inbound(g)
           b == a \o From(stage, StageSlots, k)
           s(i) == a \o From(d[i], StageSlots, k)
           t(i) == b \o SubSeq(dma, 1, i)
           P(i) == /\ d[i] \in Ring(StageSlots, g) /\ Count(d[i]) <= StageSlots /\ Count(d[i]) >= k
                   /\ OrLess(s(i), t(i))
           X == {i \in 0 .. n : ~P(i)}
<1>1. \A i \in 0 .. n : d[i] = IF i = 0 THEN stage ELSE Staged(d[i - 1], dma[i])
    BY DEF Copied
<1>2. \A r \in Ring(StageSlots, g) : Count(r) <= StageSlots /\ Count(r) >= k =>
          From(r, StageSlots, k) \in Seq(R) /\ Count(r) \in Int
    <2> TAKE r \in Ring(StageSlots, g)
    <2> HAVE Count(r) <= StageSlots /\ Count(r) >= k
    <2>1. RingLike(r, StageSlots, R) /\ StageSlots \in {StageSlots, IpSlots} /\ StageSlots \in Nat
        BY StageIs, Sizes
    <2>2. Count(r) \in Int
        BY <2>1 DEF RingLike
    <2>3. k <= Count(r)
        BY <2>2
    <2>4. From(r, StageSlots, k) \in Seq(R)
        BY <2>1, <2>3, WaitingIs
    <2> QED BY <2>2, <2>4
<1>3. k >= 0 /\ Count(stage) \in Int /\ Count(stage) >= k
    <2>1. Count(stage) \in Int
        <3>1. RingLike(stage, StageSlots, R) /\ StageSlots \in Nat
            BY StageIs, Sizes
        <3> QED BY <3>1 DEF RingLike
    <2> QED BY <2>1
<1>4. b \in Seq(R)
    BY <1>2, <1>3, ConcatProperties
<1>5. \A i \in 0 .. n : SubSeq(dma, 1, i) \in Seq(R) /\ t(i) \in Seq(R)
    <2> TAKE i \in 0 .. n
    <2> HIDE DEF R, b
    <2>1. \A j \in 1 .. i : dma[j] \in R
        <3> TAKE j \in 1 .. i
        <3>1. j \in 1 .. Len(dma)
            OBVIOUS
        <3> QED BY <3>1, ElementOfSeq DEF R
    <2>2. SubSeq(dma, 1, i) \in Seq(R)
        BY <2>1, SubSeqProperties
    <2> QED BY <1>4, <2>2, ConcatProperties
<1>6. P(0)
    <2>1. d[0] = stage
        BY <1>1
    <2>2. SubSeq(dma, 1, 0) = <<>>
        BY SubSeqEmpty
    <2>3. t(0) = b
        BY <1>4, <2>2, ConcatEmptySeq
    <2>4. s(0) = t(0)
        BY <2>1, <2>3
    <2> HIDE DEF s, t
    <2> QED BY <1>3, <2>1, <2>4 DEF OrLess
<1>7. ASSUME NEW i \in 1 .. n, P(i - 1) PROVE P(i)
    <2> DEFINE f == dma[i]
               r == d[i - 1]
    <2>1. i \in 0 .. n /\ i # 0 /\ i - 1 \in 0 .. n /\ i \in 1 .. Len(dma) /\ 1 \in 1 .. Len(dma) /\ i \in 1 .. n
        OBVIOUS
    <2>2. d[i] = Staged(r, f) /\ f \in R
        BY <1>1, <2>1, ElementOfSeq
    <2>3. r \in Ring(StageSlots, g) /\ Count(r) <= StageSlots /\ Count(r) >= k /\ OrLess(s(i - 1), t(i - 1))
        BY <1>7
    <2>4. d[i] \in Ring(StageSlots, g) /\ Count(d[i]) <= StageSlots /\ Count(d[i]) >= Count(r)
        BY <2>2, <2>3, StagedKeeps
    <2>5. Count(r) \in Int /\ From(r, StageSlots, k) \in Seq(R)
        BY <1>2, <2>3
    <2>6. k <= Count(r)
        BY <2>3, <2>5
    <2>7. t(i) = Append(t(i - 1), f)
        <3> HIDE DEF R, b
        <3>1. SubSeq(dma, 1, i) = SubSeq(dma, 1, i - 1) \o <<f>>
            BY <2>1, SubSeqRecursiveSecond
        <3>2. SubSeq(dma, 1, i) = Append(SubSeq(dma, 1, i - 1), f)
            BY <1>5, <2>1, <2>2, <3>1, AppendIsConcat
        <3> QED BY <1>4, <1>5, <2>1, <2>2, <3>2, AppendBehind
    <2>8. s(i - 1) \in Seq(R) /\ t(i - 1) \in Seq(R)
        BY <1>5, <2>1, <2>5, ConcatProperties
    <2>9. \/ d[i] = r
          \/ From(d[i], StageSlots, k) = Append(From(r, StageSlots, k), f)
        BY <2>2, <2>3, <2>6, StagedWaits
    <2>10. s(i) = s(i - 1) \/ s(i) = Append(s(i - 1), f)
        <3>1. CASE d[i] = r
            BY <3>1
        <3>2. CASE From(d[i], StageSlots, k) = Append(From(r, StageSlots, k), f)
            <4> DEFINE w == From(r, StageSlots, k)
            <4>1. w \in Seq(R) /\ a \in Seq(R) /\ f \in R
                BY <2>2, <2>5
            <4>2. s(i) = a \o Append(w, f) /\ s(i - 1) = a \o w
                BY <3>2
            <4> HIDE DEF w, s, f, R
            <4>3. a \o Append(w, f) = Append(a \o w, f)
                BY <4>1, AppendBehind
            <4> QED BY <4>2, <4>3
        <3> QED BY <2>9, <3>1, <3>2
    <2>11. OrLess(s(i), t(i))
        <3> HIDE DEF s, t, f, R
        <3>1. OrLess(Append(s(i - 1), f), Append(t(i - 1), f)) /\ OrLess(s(i - 1), Append(t(i - 1), f))
            BY <2>2, <2>3, <2>8, LessGrows
        <3> QED BY <2>7, <2>10, <3>1
    <2>12. Count(d[i]) >= k
        <3>1. RingLike(d[i], StageSlots, R) /\ StageSlots \in Nat
            BY <2>4, StageIs, Sizes
        <3>2. Count(d[i]) \in Int
            BY <3>1 DEF RingLike
        <3> QED BY <2>3, <2>4, <2>5, <3>2
    <2> QED BY <2>4, <2>11, <2>12
<1> HIDE DEF P
<1>8. X = {}
    <2> SUFFICES ASSUME X # {} PROVE FALSE
        OBVIOUS
    <2>1. X \subseteq Nat
        OBVIOUS
    <2> HIDE DEF X
    <2>2. \E x \in X : \A y \in X : ~(<<y, x>> \in OpToRel(<, Nat))
        BY <2>1, NatLessThanWellFounded, WFMin
    <2>3. PICK x \in X : \A y \in X : ~(<<y, x>> \in OpToRel(<, Nat))
        BY <2>2
    <2>4. x \in 0 .. n /\ ~P(x)
        BY <2>3 DEF X
    <2>5. x # 0
        BY <1>6, <2>4
    <2>6. x \in 1 .. n /\ x - 1 \in 0 .. n /\ x - 1 \in Nat /\ x \in Nat /\ x - 1 < x
        BY <2>4, <2>5
    <2>7. x - 1 \notin X
        BY <2>3, <2>6 DEF OpToRel
    <2>8. P(x - 1)
        BY <2>6, <2>7 DEF X
    <2> QED BY <1>7, <2>4, <2>6, <2>8
<1>9. P(n)
    BY <1>8
<1>10. SubSeq(dma, 1, n) = dma
    BY SubSeqFull
<1> QED
    BY <1>9, <1>10 DEF P

-----------------------------------------------------------------------------
(* Each step of the receive path is a step of the pipe.                    *)

\* No frame on its way, and none in ipv4_proc's hands, is an empty slot.
Real(s) == \A i \in 1 .. Len(s) : s[i] # NoFrame
Genuine ==
    /\ Real(lan)
    /\ busy.ipv4 => InHand # NoFrame

\* How many of a ring its owner has begun with.
Begun(handled) == IF handled THEN 1 ELSE 0

LEMMA WaitingNow ==
    ASSUME PeerInv
    PROVE  /\ RingLike(ring, IpSlots, Inbound(leases)) /\ RingLike(stage, StageSlots, Inbound(leases))
           /\ Begun(busy.ipv4) \in {0, 1} /\ Begun(busy.ipv4) <= Count(ring)
           /\ Begun(busy.servicer) \in {0, 1} /\ Begun(busy.servicer) <= Count(stage)
           /\ From(ring, IpSlots, Begun(busy.ipv4)) \in Seq(Inbound(leases))
           /\ From(stage, StageSlots, Begun(busy.servicer)) \in Seq(Inbound(leases))
           /\ dma \in Seq(Inbound(leases))
           /\ busy.ipv4 => Count(ring) > 0
<1>1. /\ ring \in IpRing(leases) /\ Count(ring) <= IpSlots
      /\ stage \in Ring(StageSlots, leases) /\ Count(stage) <= StageSlots
      /\ dma \in Seq(Inbound(leases))
    BY PeerParts
<1>2. RingLike(ring, IpSlots, Inbound(leases)) /\ RingLike(stage, StageSlots, Inbound(leases))
    BY <1>1, RingIs, StageIs
<1>3. /\ Begun(busy.ipv4) \in {0, 1} /\ Begun(busy.ipv4) <= Count(ring)
      /\ Begun(busy.servicer) \in {0, 1} /\ Begun(busy.servicer) <= Count(stage)
      /\ busy.ipv4 => Count(ring) > 0
    BY PeerParts, Counts DEF Begun
<1>4. StageSlots \in {StageSlots, IpSlots} /\ IpSlots \in {StageSlots, IpSlots}
    OBVIOUS
<1>5. From(ring, IpSlots, Begun(busy.ipv4)) \in Seq(Inbound(leases))
    BY <1>2, <1>3, <1>4, WaitingIs
<1>6. From(stage, StageSlots, Begun(busy.servicer)) \in Seq(Inbound(leases))
    BY <1>2, <1>3, <1>4, WaitingIs
<1> QED
    BY <1>1, <1>2, <1>3, <1>5, <1>6

\* The queue of the pipe before a step and after it.
LEMMA UnderWayNow ==
    ASSUME PeerInv
    PROVE  /\ UnderWay = (From(ring, IpSlots, Begun(busy.ipv4))
                             \o From(stage, StageSlots, Begun(busy.servicer))) \o dma
           /\ UnderWay' = (From(ring', IpSlots, Begun(busy'.ipv4))
                             \o From(stage', StageSlots, Begun(busy'.servicer))) \o dma'
           /\ UnderWay \in Seq(Inbound(leases))
<1>1. UnderWay = (From(ring, IpSlots, Begun(busy.ipv4))
                     \o From(stage, StageSlots, Begun(busy.servicer))) \o dma
    BY DEF UnderWay, Waiting, From, Begun
<1>2. UnderWay' = (From(ring', IpSlots, Begun(busy'.ipv4))
                      \o From(stage', StageSlots, Begun(busy'.servicer))) \o dma'
    BY DEF UnderWay, Waiting, From, Begun, Count, SlotOf
<1>3. UnderWay \in Seq(Inbound(leases))
    BY <1>1, WaitingNow, ConcatProperties
<1> QED
    BY <1>1, <1>2, <1>3

PipeStep == InOrder!Next \/ UNCHANGED <<UnderWay, InHand>>

LEMMA PipeDrops ==
    ASSUME InHand' = InHand, OrLess(UnderWay', UnderWay)
    PROVE  PipeStep
BY DEF PipeStep, OrLess, InOrder!Next, InOrder!Drop

LEMMA PacketIs ==
    ASSUME NEW g, g \subseteq Servers, NEW f \in Inbound(g), f # NoFrame
    PROVE  f \in Packets
<1> DEFINE P(k, h, i, b) == Frame(k, h, i, b) \in Packets
<1>1. ASSUME NEW k \in {"echo", "udp", "arp_request", "arp_reply"}, NEW h \in Host, NEW i \in Host,
             NEW b \in Body
      PROVE  Frame(k, h, i, b) \in Packets
    BY DEF Packets, Frame
<1>2. /\ {Router, Neighbour, NameServer, All} \subseteq Host /\ Servers \subseteq Host
      /\ \A s \in Servers : <<"offer", s>> \in Body /\ <<"ack", s>> \in Body
      /\ \A i \in 1 .. Questions : <<"answer", i>> \in Body
      /\ \A s \in Servers \cup {All} : <<s>> \in Body
      /\ <<>> \in Body
    BY DEF Host, Body
<1>3. CASE \E s \in Servers : f = Frame("udp", s, s, <<"offer", s>>)
    BY <1>1, <1>2, <1>3
<1>4. CASE \E s \in g : f = Frame("udp", s, s, <<"ack", s>>)
    BY <1>1, <1>2, <1>4
<1>5. CASE \E i \in 1 .. Questions : f = Frame("udp", Router, NameServer, <<"answer", i>>)
    BY <1>1, <1>2, <1>5
<1>6. CASE f = Frame("arp_reply", Router, Router, <<>>)
    BY <1>1, <1>2, <1>6
<1>7. CASE \E s \in Servers : f = Frame("arp_request", Neighbour, s, <<>>)
    BY <1>1, <1>2, <1>7
<1>8. CASE \E s \in Servers \cup {All} : f = Frame("echo", Neighbour, Neighbour, <<s>>)
    BY <1>1, <1>2, <1>8
<1> QED
    BY <1>3, <1>4, <1>5, <1>6, <1>7, <1>8 DEF Inbound

\* The interrupt.
LEMMA DispatchPipe == ASSUME PeerInv, wifi_fiq_dispatch PROVE PipeStep
<1> DEFINE R == Inbound(leases)
           a == From(ring, IpSlots, Begun(busy.ipv4))
           k == Begun(busy.servicer)
<1>1. wifi_rx_nmi_drain /\ dma' = <<>> /\ UNCHANGED <<ring, busy>>
    BY DEF wifi_fiq_dispatch, wifi_rx_nmi_drain
<1>2. /\ stage \in Ring(StageSlots, leases) /\ Count(stage) <= StageSlots /\ dma \in Seq(R)
      /\ Len(dma) \in Nat
    BY PeerParts, LenProperties
<1>3. PICK d : Copied(d, Len(dma)) /\ stage' = d[Len(dma)]
    BY <1>1, <1>2, DrainIs
<1>4. a \in Seq(R) /\ k \in {0, 1} /\ k <= Count(stage)
    BY WaitingNow
<1>5. UnderWay = (a \o From(stage, StageSlots, k)) \o dma
    BY UnderWayNow
<1>6. UnderWay' = a \o From(stage', StageSlots, k)
    <2>1. UnderWay' = (a \o From(stage', StageSlots, k)) \o <<>>
        BY <1>1, UnderWayNow
    <2>2. Count(stage') >= Count(stage) /\ stage' \in Ring(StageSlots, leases) /\ Count(stage') <= StageSlots
        BY <1>1, <1>2, NmiKeeps
    <2>3. RingLike(stage', StageSlots, R) /\ RingLike(stage, StageSlots, R) /\ StageSlots \in Nat
        BY <1>2, <2>2, StageIs, Sizes
    <2>4. k <= Count(stage')
        <3>1. Count(stage') \in Int /\ Count(stage) \in Int
            BY <2>3 DEF RingLike
        <3> QED BY <1>4, <2>2, <3>1
    <2>5. From(stage', StageSlots, k) \in Seq(R)
        <3>1. StageSlots \in {StageSlots, IpSlots}
            OBVIOUS
        <3> QED BY <1>4, <2>3, <2>4, <3>1, WaitingIs
    <2>6. a \o From(stage', StageSlots, k) \in Seq(R)
        BY <1>4, <2>5, ConcatProperties
    <2> HIDE DEF a, k, R
    <2> QED BY <2>1, <2>6, ConcatEmptySeq
<1>7. InHand' = InHand
    BY <1>1 DEF InHand
<1> HIDE DEF a, k, R
<1>8. OrLess(a \o From(stage', StageSlots, k), (a \o From(stage, StageSlots, k)) \o dma)
    BY <1>2, <1>3, <1>4, DrainThins DEF R
<1> QED
    BY <1>5, <1>6, <1>7, <1>8, PipeDrops

\* The first of the second sequence moves to the end of the first.
LEMMA MovedOver ==
    ASSUME NEW S, NEW s \in Seq(S), NEW t \in Seq(S), t # <<>>
    PROVE  Append(s, Head(t)) \o Tail(t) = s \o t
<1> DEFINE n == Len(s)
           m == Len(t)
           e == Head(t)
           u == Append(s, e) \o Tail(t)
           v == s \o t
<1>1. /\ n \in Nat /\ m \in Nat /\ m > 0 /\ e \in S /\ e = t[1]
      /\ Tail(t) \in Seq(S) /\ Len(Tail(t)) = m - 1 /\ \A i \in 1 .. m - 1 : Tail(t)[i] = t[i + 1]
    BY LenProperties, HeadTailProperties, EmptySeq
<1> HIDE DEF e
<1>2. /\ Append(s, e) \in Seq(S) /\ Len(Append(s, e)) = n + 1
      /\ \A i \in 1 .. n : Append(s, e)[i] = s[i]
      /\ Append(s, e)[n + 1] = e
    BY <1>1, AppendProperties
<1>3. /\ u \in Seq(S) /\ Len(u) = (n + 1) + (m - 1)
      /\ \A i \in 1 .. (n + 1) + (m - 1) :
             u[i] = IF i <= n + 1 THEN Append(s, e)[i] ELSE Tail(t)[i - (n + 1)]
    BY <1>1, <1>2, ConcatProperties
<1>4. /\ v \in Seq(S) /\ Len(v) = n + m
      /\ \A i \in 1 .. n + m : v[i] = IF i <= n THEN s[i] ELSE t[i - n]
    BY <1>1, ConcatProperties
<1> HIDE DEF n, m, u, v
<1>5. \A i \in 1 .. Len(u) : u[i] = v[i]
    <2> TAKE i \in 1 .. Len(u)
    <2>1. i \in 1 .. (n + 1) + (m - 1) /\ i \in 1 .. n + m
        BY <1>1, <1>3
    <2>2. CASE i <= n
        <3>1. i \in 1 .. n /\ i <= n + 1
            BY <1>1, <2>1, <2>2
        <3>2. u[i] = Append(s, e)[i] /\ v[i] = s[i]
            BY <1>3, <1>4, <2>1, <2>2, <3>1
        <3> QED BY <1>2, <3>1, <3>2
    <2>3. CASE i = n + 1
        <3>1. i - n = 1 /\ ~(i <= n)
            BY <1>1, <2>3
        <3> QED BY <1>1, <1>2, <1>3, <1>4, <2>1, <2>3, <3>1
    <2>4. CASE i > n + 1
        <3>1. i - (n + 1) \in 1 .. m - 1 /\ (i - (n + 1)) + 1 = i - n /\ ~(i <= n) /\ ~(i <= n + 1)
            BY <1>1, <2>1, <2>4
        <3> QED BY <1>1, <1>3, <1>4, <2>1, <3>1
    <2> QED BY <1>1, <2>1, <2>2, <2>3, <2>4
<1>6. Len(u) = Len(v)
    BY <1>1, <1>3, <1>4
<1>7. u = v
    BY <1>3, <1>4, <1>5, <1>6, SeqEqual
<1> QED
    BY <1>7 DEF u, v, e

LEMMA FirstOfBoth ==
    ASSUME NEW S, NEW s \in Seq(S), NEW t \in Seq(S), s # <<>>
    PROVE  s \o t # <<>> /\ Head(s \o t) = Head(s) /\ Tail(s \o t) = Tail(s) \o t
<1> DEFINE n == Len(s)
           m == Len(t)
           u == s \o t
           v == Tail(s) \o t
<1>1. /\ n \in Nat /\ m \in Nat /\ n > 0 /\ Head(s) = s[1]
      /\ Tail(s) \in Seq(S) /\ Len(Tail(s)) = n - 1 /\ \A i \in 1 .. n - 1 : Tail(s)[i] = s[i + 1]
    BY LenProperties, HeadTailProperties, EmptySeq
<1>2. /\ u \in Seq(S) /\ Len(u) = n + m
      /\ \A i \in 1 .. n + m : u[i] = IF i <= n THEN s[i] ELSE t[i - n]
    BY <1>1, ConcatProperties
<1>3. /\ v \in Seq(S) /\ Len(v) = (n - 1) + m
      /\ \A i \in 1 .. (n - 1) + m : v[i] = IF i <= n - 1 THEN Tail(s)[i] ELSE t[i - (n - 1)]
    BY <1>1, ConcatProperties
<1> HIDE DEF n, m, u, v
<1>4. u # <<>>
    BY <1>1, <1>2, EmptySeq
<1>5. /\ Tail(u) \in Seq(S) /\ Len(Tail(u)) = n + m - 1
      /\ \A i \in 1 .. n + m - 1 : Tail(u)[i] = u[i + 1]
    BY <1>1, <1>2, <1>4, HeadTailProperties
<1>6. Head(u) = u[1] /\ 1 \in 1 .. n + m /\ 1 <= n
    BY <1>1
<1>7. \A i \in 1 .. Len(Tail(u)) : Tail(u)[i] = v[i]
    <2> TAKE i \in 1 .. Len(Tail(u))
    <2>1. i \in 1 .. n + m - 1 /\ i \in 1 .. (n - 1) + m /\ i + 1 \in 1 .. n + m
        BY <1>1, <1>5
    <2>2. CASE i <= n - 1
        <3>1. i + 1 <= n /\ i \in 1 .. n - 1
            BY <1>1, <2>1, <2>2
        <3> QED BY <1>1, <1>2, <1>3, <1>5, <2>1, <2>2, <3>1
    <2>3. CASE ~(i <= n - 1)
        <3>1. ~(i + 1 <= n) /\ (i + 1) - n = i - (n - 1)
            BY <1>1, <2>1, <2>3
        <3> QED BY <1>2, <1>3, <1>5, <2>1, <2>3, <3>1
    <2> QED BY <2>2, <2>3
<1>8. Tail(u) = v
    BY <1>1, <1>3, <1>5, <1>7, SeqEqual
<1> QED
    BY <1>1, <1>2, <1>4, <1>6, <1>8 DEF u, v

\* The servicer takes a frame: a packet moves from one ring into the other
\* unless that is full, and everything else ends here.
LEMMA DumpPipe == ASSUME PeerInv, rx_dump PROVE PipeStep /\ InHand' = InHand
<1> DEFINE R == Inbound(leases)
           k == Begun(busy.ipv4)
           a == From(ring, IpSlots, k)
           w == From(stage, StageSlots, 0)
           f == SlotOf(stage, 0, StageSlots)
<1>1. /\ dma = <<>> /\ dma' = <<>> /\ Count(stage) > 0 /\ ~busy.servicer
      /\ busy' = [busy EXCEPT !.servicer = TRUE] /\ stage' = stage
      /\ \/ ring' = ring
         \/ Count(ring) < IpSlots /\ ring' = [ring EXCEPT !.slot[ring.head % IpSlots] = f,
                                                   !.head = (@ + 1) % Wrap, !.sem = @ + 1]
    <2>1. /\ NoNmi /\ Count(stage) > 0 /\ ~busy.servicer
          /\ busy' = [busy EXCEPT !.servicer = TRUE]
          /\ net_recv(f)
          /\ dma' = dma /\ stage' = stage
        BY DEF rx_dump
    <2> HIDE DEF f
    <2>2. \/ ring' = ring
          \/ /\ ~(Count(ring) >= IpSlots)
             /\ ring' = [ring EXCEPT !.slot[ring.head % IpSlots] = f,
                                                   !.head = (@ + 1) % Wrap, !.sem = @ + 1]
        BY <2>1 DEF net_recv, ipv4_enqueue, arp_recv
    <2>3. ~(Count(ring) >= IpSlots) => Count(ring) < IpSlots
        BY Counts, Sizes
    <2> QED BY <2>1, <2>2, <2>3 DEF NoNmi
<1>2. /\ RingLike(ring, IpSlots, R) /\ RingLike(stage, StageSlots, R)
      /\ k \in {0, 1} /\ k <= Count(ring) /\ a \in Seq(R)
    BY WaitingNow
<1>3. StageSlots \in {StageSlots, IpSlots} /\ IpSlots \in {StageSlots, IpSlots}
    OBVIOUS
<1>4. w # <<>> /\ Head(w) = f /\ Tail(w) = From(stage, StageSlots, 1) /\ f \in R
    BY <1>1, <1>2, <1>3, BegunWaits
<1>5. Begun(busy.servicer) = 0 /\ Begun(busy'.servicer) = 1 /\ Begun(busy'.ipv4) = k /\ busy'.ipv4 = busy.ipv4
    <2>1. busy'.servicer /\ busy'.ipv4 = busy.ipv4
        BY <1>1, PeerParts
    <2> QED BY <1>1, <2>1 DEF Begun
<1>6. w \in Seq(R)
    BY <1>5, WaitingNow
<1>7. Tail(w) \in Seq(R)
    BY <1>4, <1>6, HeadTailProperties
<1>8. UnderWay = a \o w
    <2>1. UnderWay = (a \o w) \o <<>>
        BY <1>1, <1>5, UnderWayNow
    <2>2. a \o w \in Seq(R)
        BY <1>2, <1>6, ConcatProperties
    <2> HIDE DEF a, w, R
    <2> QED BY <2>1, <2>2, ConcatEmptySeq
<1>9. UnderWay' = (From(ring', IpSlots, k) \o Tail(w)) \o <<>>
    BY <1>1, <1>4, <1>5, UnderWayNow
<1>10. CASE ring' = ring
    <2>1. UnderWay' = a \o Tail(w)
        <3>1. a \o Tail(w) \in Seq(R)
            BY <1>2, <1>7, ConcatProperties
        <3>2. UnderWay' = (a \o Tail(w)) \o <<>>
            BY <1>9, <1>10
        <3> HIDE DEF a, w, R
        <3> QED BY <3>1, <3>2, ConcatEmptySeq
    <2>2. InHand' = InHand
        BY <1>5, <1>10 DEF InHand
    <2> HIDE DEF a, w, R
    <2>3. InOrder!Thinned(a \o Tail(w), a \o w) /\ Len(a \o Tail(w)) < Len(a \o w)
        BY <1>2, <1>4, <1>6, ThinnedOut
    <2> QED BY <1>8, <2>1, <2>2, <2>3, PipeDrops DEF OrLess
<1>11. CASE Count(ring) < IpSlots /\ ring' = [ring EXCEPT !.slot[ring.head % IpSlots] = f,
                                                    !.head = (@ + 1) % Wrap, !.sem = @ + 1]
    <2>1. /\ ring'.slot = [ring.slot EXCEPT ![ring.head % IpSlots] = f]
          /\ ring'.head = (ring.head + 1) % Wrap /\ ring'.tail = ring.tail
        <3> DEFINE i == ring.head % IpSlots
                   h == (ring.head + 1) % Wrap
        <3> HIDE DEF f
        <3>1. ring' = [ring EXCEPT !.slot[i] = f, !.head = h, !.sem = @ + 1]
            BY <1>11
        <3>2. ring \in IpRing(leases)
            BY PeerParts
        <3> HIDE DEF i, h
        <3>3. ring'.slot = [ring.slot EXCEPT ![i] = f] /\ ring'.head = h /\ ring'.tail = ring.tail
            BY <3>1, <3>2 DEF IpRing
        <3> QED BY <3>3 DEF i, h
    <2>6. Count(ring) < IpSlots
        BY <1>11
    <2> HIDE DEF f, R, k
    <2>2. /\ From(ring', IpSlots, k) = Append(a, f)
          /\ Count(ring) > 0 => SlotOf(ring', 0, IpSlots) = SlotOf(ring, 0, IpSlots)
        BY <1>2, <1>3, <1>4, <2>1, <2>6, PutWaits
    <2>3. InHand' = InHand
        <3>1. busy.ipv4 => Count(ring) > 0
            BY WaitingNow
        <3> QED BY <1>5, <2>2, <3>1 DEF InHand, SlotOf
    <2> HIDE DEF a, w
    <2>4. Append(a, f) \o Tail(w) = a \o w
        BY <1>2, <1>4, <1>6, MovedOver
    <2>5. UnderWay' = a \o w
        <3>1. UnderWay' = (a \o w) \o <<>>
            BY <1>9, <2>2, <2>4
        <3>2. a \o w \in Seq(R)
            BY <1>2, <1>6, ConcatProperties
        <3> QED BY <3>1, <3>2, ConcatEmptySeq
    <2> QED BY <1>8, <2>3, <2>5 DEF PipeStep
<1> QED
    BY <1>1, <1>10, <1>11

\* A frame the hardware has a descriptor for arrives.
LEMMA ReceivePipe == ASSUME PeerInv, Genuine, HwReceive PROVE PipeStep
<1> DEFINE R == Inbound(leases)
           s == From(ring, IpSlots, Begun(busy.ipv4)) \o From(stage, StageSlots, Begun(busy.servicer))
           f == Head(lan)
<1>1. /\ lan # <<>> /\ UNCHANGED <<stage, ring, busy>>
      /\ dma' = IF up /\ Len(dma) < DmaSlots THEN Append(dma, f) ELSE dma
    BY DEF HwReceive
<1>2. f \in R /\ f # NoFrame
    <2>1. lan \in Seq(R)
        BY PeerParts
    <2>2. f \in R /\ f = lan[1] /\ 1 \in 1 .. Len(lan)
        <3> HIDE DEF R
        <3>1. Len(lan) \in Nat /\ Len(lan) # 0
            BY <1>1, <2>1, EmptySeq, LenProperties
        <3> QED BY <1>1, <2>1, <3>1, HeadTailProperties
    <2> QED BY <2>2 DEF Genuine, Real
<1>3. f \in Packets
    <2> HIDE DEF f
    <2> QED BY <1>2, PacketIs, PeerParts
<1>4. s \in Seq(R) /\ dma \in Seq(R)
    BY WaitingNow, ConcatProperties
<1>5. UnderWay = s \o dma /\ UnderWay' = s \o dma' /\ UnderWay \in Seq(R)
    BY <1>1, UnderWayNow
<1>6. InHand' = InHand
    BY <1>1 DEF InHand
<1> HIDE DEF R, s, f
<1>7. CASE dma' = dma
    BY <1>5, <1>6, <1>7 DEF PipeStep
<1>8. CASE dma' = Append(dma, f)
    <2>1. UnderWay' = Append(UnderWay, f)
        BY <1>2, <1>4, <1>5, <1>8, AppendBehind
    <2>2. UnderWay' # <<>> /\ Last(UnderWay') = f
        <3>1. /\ Append(UnderWay, f) # <<>> /\ Len(Append(UnderWay, f)) = Len(UnderWay) + 1
              /\ Append(UnderWay, f)[Len(UnderWay) + 1] = f
            BY <1>2, <1>5, AppendProperties
        <3> QED BY <2>1, <3>1 DEF Last
    <2>3. InOrder!Arrive
        BY <1>3, <1>6, <2>1, <2>2 DEF InOrder!Arrive, InOrder!Last, Last
    <2> QED BY <2>3 DEF PipeStep, InOrder!Next
<1> QED
    BY <1>1, <1>7, <1>8

\* A slot given back, in either ring.
LEMMA GivenBack ==
    ASSUME NEW slots, NEW r, {"slot", "tail"} \subseteq DOMAIN r
    PROVE  /\ Released(r, slots).slot = [r.slot EXCEPT ![r.tail % slots] = NoFrame]
           /\ Released(r, slots).tail = (r.tail + 1) % Wrap
<1> DEFINE i == r.tail % slots
           t == (r.tail + 1) % Wrap
<1>1. Released(r, slots) = [r EXCEPT !.slot[i] = NoFrame, !.tail = t]
    BY DEF Released
<1> HIDE DEF i, t
<1>2. Released(r, slots).slot = [r.slot EXCEPT ![i] = NoFrame] /\ Released(r, slots).tail = t
    BY <1>1
<1> QED
    BY <1>2 DEF i, t

\* The servicer gives the slot of a frame back that has left its ring already.
LEMMA ServicedPipe == ASSUME PeerInv, wifi_rx_servicer PROVE PipeStep
<1>1. /\ busy.servicer /\ stage' = Released(stage, StageSlots)
      /\ busy' = [busy EXCEPT !.servicer = FALSE]
      /\ UNCHANGED <<dma, ring>>
    BY DEF wifi_rx_servicer
<1>2. /\ ~busy'.servicer /\ busy'.ipv4 = busy.ipv4
    BY <1>1, PeerParts
<1>3. Begun(busy.servicer) = 1 /\ Begun(busy'.servicer) = 0 /\ Begun(busy'.ipv4) = Begun(busy.ipv4)
    BY <1>1, <1>2 DEF Begun
<1>4. stage \in Ring(StageSlots, leases) /\ Count(stage) <= StageSlots /\ Count(stage) > 0
    BY <1>1, PeerParts
<1>5. stage' \in Ring(StageSlots, leases) /\ Count(stage') = Count(stage) - 1
    BY <1>1, <1>4, StageReleased
<1>6. Count(stage') <= StageSlots
    BY <1>4, <1>5, Counts, Sizes
<1>7. RingLike(stage, StageSlots, Inbound(leases)) /\ RingLike(stage', StageSlots, Inbound(leases))
    BY <1>4, <1>5, <1>6, StageIs
<1>8. /\ stage'.slot = [stage.slot EXCEPT ![stage.tail % StageSlots] = NoFrame]
      /\ stage'.tail = (stage.tail + 1) % Wrap
    BY <1>1, <1>4, GivenBack DEF Ring
<1>9. StageSlots \in {StageSlots, IpSlots}
    OBVIOUS
<1>10. From(stage', StageSlots, 0) = From(stage, StageSlots, 1)
    BY <1>4, <1>5, <1>7, <1>8, <1>9, GoneWaits
<1>11. UnderWay' = UnderWay
    BY <1>1, <1>3, <1>10, UnderWayNow
<1>12. InHand' = InHand
    BY <1>1, <1>2 DEF InHand
<1> QED
    BY <1>11, <1>12 DEF PipeStep

\* ipv4_proc takes the first packet in hand.
LEMMA Ipv4Pipe == ASSUME PeerInv, ipv4_proc PROVE PipeStep
<1> DEFINE R == Inbound(leases)
           w == From(ring, IpSlots, 0)
           b == From(stage, StageSlots, Begun(busy.servicer))
<1>1. /\ ~busy.ipv4 /\ ring.sem > 0
      /\ ring' = [ring EXCEPT !.sem = @ - 1]
      /\ busy' = [busy EXCEPT !.ipv4 = TRUE]
      /\ UNCHANGED <<dma, stage>>
    BY DEF ipv4_proc
<1>2. busy'.ipv4 /\ busy'.servicer = busy.servicer
    BY <1>1, PeerParts
<1>3. ring'.slot = ring.slot /\ ring'.head = ring.head /\ ring'.tail = ring.tail
    BY <1>1, PeerParts DEF IpRing
<1>4. Begun(busy.ipv4) = 0 /\ Begun(busy'.ipv4) = 1 /\ Begun(busy'.servicer) = Begun(busy.servicer)
    BY <1>1, <1>2 DEF Begun
<1>5. Count(ring) > 0
    BY <1>1, PeerParts, Counts
<1>6. IpSlots \in {StageSlots, IpSlots}
    OBVIOUS
<1>7. RingLike(ring, IpSlots, R) /\ w \in Seq(R) /\ b \in Seq(R) /\ dma \in Seq(R)
    BY <1>4, WaitingNow
<1>8. w # <<>> /\ Head(w) = SlotOf(ring, 0, IpSlots) /\ Tail(w) = From(ring, IpSlots, 1)
    BY <1>5, <1>6, <1>7, BegunWaits
<1>9. From(ring', IpSlots, 1) = Tail(w) /\ SlotOf(ring', 0, IpSlots) = SlotOf(ring, 0, IpSlots)
    BY <1>3, <1>8 DEF From, SlotOf, Count
<1>10. UnderWay = (w \o b) \o dma /\ UnderWay' = (Tail(w) \o b) \o dma
    BY <1>1, <1>4, <1>9, UnderWayNow
<1>11. InHand = NoFrame /\ InHand' = Head(w)
    <2>1. InHand' = SlotOf(ring', 0, IpSlots)
        BY <1>2 DEF InHand, SlotOf
    <2> QED BY <1>1, <1>8, <1>9, <2>1 DEF InHand
<1> HIDE DEF R, w, b
<1>12. /\ w \o b \in Seq(R) /\ w \o b # <<>> /\ Head(w \o b) = Head(w) /\ Tail(w \o b) = Tail(w) \o b
    BY <1>7, <1>8, ConcatProperties, FirstOfBoth
<1>13. /\ (w \o b) \o dma # <<>> /\ Head((w \o b) \o dma) = Head(w)
       /\ Tail((w \o b) \o dma) = (Tail(w) \o b) \o dma
    <2> DEFINE u == w \o b
    <2>1. u \in Seq(R) /\ u # <<>> /\ Head(u) = Head(w) /\ Tail(u) = Tail(w) \o b
        BY <1>12
    <2> HIDE DEF u
    <2>2. u \o dma # <<>> /\ Head(u \o dma) = Head(u) /\ Tail(u \o dma) = Tail(u) \o dma
        BY <1>7, <2>1, FirstOfBoth
    <2> QED BY <2>1, <2>2 DEF u
<1>14. InOrder!Take
    BY <1>10, <1>11, <1>13 DEF InOrder!Take
<1> QED
    BY <1>14 DEF PipeStep, InOrder!Next

\* The slot that was worked in is given back.
LEMMA ReleasePipe == ASSUME PeerInv, Genuine, ipv4_release PROVE PipeStep
<1>1. /\ busy.ipv4 /\ ring' = Released(ring, IpSlots)
      /\ busy' = [busy EXCEPT !.ipv4 = FALSE]
      /\ UNCHANGED <<dma, stage>>
    BY DEF ipv4_release
<1>2. /\ ~busy'.ipv4 /\ busy'.servicer = busy.servicer
    BY <1>1, PeerParts
<1>3. Begun(busy.ipv4) = 1 /\ Begun(busy'.ipv4) = 0 /\ Begun(busy'.servicer) = Begun(busy.servicer)
    BY <1>1, <1>2 DEF Begun
<1>4. ring \in IpRing(leases) /\ Count(ring) <= IpSlots /\ Count(ring) > 0
    BY <1>1, PeerParts, WaitingNow
<1>5. ring' \in IpRing(leases) /\ Count(ring') = Count(ring) - 1
    BY <1>1, <1>4, RingReleased
<1>6. Count(ring') <= IpSlots
    BY <1>4, <1>5, Counts, Sizes
<1>7. RingLike(ring, IpSlots, Inbound(leases)) /\ RingLike(ring', IpSlots, Inbound(leases))
    BY <1>4, <1>5, <1>6, RingIs
<1>8. /\ ring'.slot = [ring.slot EXCEPT ![ring.tail % IpSlots] = NoFrame]
      /\ ring'.tail = (ring.tail + 1) % Wrap
    BY <1>1, <1>4, GivenBack DEF IpRing
<1>9. IpSlots \in {StageSlots, IpSlots}
    OBVIOUS
<1>10. From(ring', IpSlots, 0) = From(ring, IpSlots, 1)
    BY <1>4, <1>5, <1>7, <1>8, <1>9, GoneWaits
<1>11. UnderWay' = UnderWay
    BY <1>1, <1>3, <1>10, UnderWayNow
<1>12. InHand # NoFrame
    BY <1>1 DEF InHand, Genuine
<1>13. InHand' = NoFrame
    BY <1>2 DEF InHand
<1>14. InOrder!Finish
    BY <1>11, <1>12, <1>13 DEF InOrder!Finish
<1> QED
    BY <1>14 DEF PipeStep, InOrder!Next

LEMMA OtherPipe == ASSUME UNCHANGED rxVars PROVE PipeStep
<1>1. UNCHANGED <<dma, stage, ring, busy>>
    BY DEF rxVars
<1>2. UnderWay' = UnderWay
    BY <1>1 DEF UnderWay, Waiting, Count, SlotOf
<1>3. InHand' = InHand
    BY <1>1 DEF InHand, SlotOf
<1> QED
    BY <1>2, <1>3 DEF PipeStep

LEMMA NextPipe == ASSUME PeerInv, Genuine, [Next]_vars PROVE PipeStep
<1>1. CASE UNCHANGED vars
    BY <1>1, OtherPipe DEF vars
<1>2. CASE \E p \in Proc : wifi_tx_frame(p)
    BY <1>2, OtherPipe DEF wifi_tx_frame
<1>3. CASE Client \/ HwSend \/ HwStall \/ Neighbourly \/ LinkUp \/ Rare
    BY <1>3, OtherPipe DEF Client, HwSend, HwStall, Neighbourly, LinkUp, Rare
<1> QED
    BY <1>1, <1>2, <1>3, DispatchPipe, DumpPipe, ServicedPipe, Ipv4Pipe, ReleasePipe, ReceivePipe
    DEF Next

-----------------------------------------------------------------------------
(* Genuine is an invariant.                                                *)

LEMMA RealParts ==
    ASSUME NEW S, NEW s \in Seq(S), Real(s)
    PROVE  /\ \A f \in S : f # NoFrame => Real(Append(s, f))
           /\ \A t \in Seq(S) : Real(t) => Real(s \o t)
           /\ s # <<>> => Real(Tail(s)) /\ Head(s) # NoFrame /\ Head(s) \in S
<1>0. Len(s) \in Nat
    BY LenProperties
<1>1. ASSUME NEW f \in S, f # NoFrame PROVE Real(Append(s, f))
    <2>1. /\ Len(Append(s, f)) = Len(s) + 1 /\ Append(s, f)[Len(s) + 1] = f
          /\ \A i \in 1 .. Len(s) : Append(s, f)[i] = s[i]
        BY AppendProperties
    <2>2. \A i \in 1 .. Len(s) + 1 : i \in 1 .. Len(s) \/ i = Len(s) + 1
        BY <1>0
    <2> QED BY <1>1, <2>1, <2>2 DEF Real
<1>2. ASSUME NEW t \in Seq(S), Real(t) PROVE Real(s \o t)
    <2>1. /\ Len(s \o t) = Len(s) + Len(t) /\ Len(t) \in Nat
          /\ \A i \in 1 .. Len(s) + Len(t) : (s \o t)[i] = IF i <= Len(s) THEN s[i] ELSE t[i - Len(s)]
        BY ConcatProperties, LenProperties
    <2> SUFFICES ASSUME NEW i \in 1 .. Len(s) + Len(t) PROVE (s \o t)[i] # NoFrame
        BY <2>1 DEF Real
    <2>2. IF i <= Len(s) THEN i \in 1 .. Len(s) ELSE i - Len(s) \in 1 .. Len(t)
        BY <1>0, <2>1
    <2> QED BY <1>2, <2>1, <2>2 DEF Real
<1>3. ASSUME s # <<>> PROVE Real(Tail(s)) /\ Head(s) # NoFrame /\ Head(s) \in S
    <2>1. /\ Len(s) # 0 /\ Head(s) = s[1] /\ Head(s) \in S /\ Len(Tail(s)) = Len(s) - 1
          /\ \A i \in 1 .. Len(s) - 1 : Tail(s)[i] = s[i + 1]
        BY <1>3, HeadTailProperties, EmptySeq
    <2>2. 1 \in 1 .. Len(s) /\ \A i \in 1 .. Len(s) - 1 : i + 1 \in 1 .. Len(s)
        BY <1>0, <2>1
    <2> QED BY <2>1, <2>2 DEF Real
<1> QED
    BY <1>1, <1>2, <1>3

LEMMA AnswersReal == ASSUME NEW f PROVE Real(Answers(f))
<1> DEFINE ss == SetToSeq(Servers)
           offers == [i \in 1 .. Len(ss) |-> LET s == ss[i] IN Frame("udp", s, s, <<"offer", s>>)]
<1>1. \A k, h, i, b : k # "none" => Frame(k, h, i, b) # NoFrame
    <2> TAKE k, h, i, b
    <2>1. Frame(k, h, i, b).kind = k /\ NoFrame.kind = "none"
        BY DEF Frame, NoFrame
    <2> QED BY <2>1
<1>2. \A g : g # NoFrame => Real(<<g>>)
    BY DEF Real
<1>3. Real(<<>>)
    BY DEF Real
<1>4. Real(offers)
    <2>1. Len(ss) \in Nat
        BY ServersInTurn, LenProperties
    <2> DEFINE n == Len(ss)
    <2>2. offers = [i \in 1 .. n |-> offers[i]] /\ \A i \in 1 .. n : offers[i] # NoFrame
        BY <1>1
    <2> HIDE DEF offers, n
    <2>3. Len(offers) = n
        BY <2>1, <2>2 DEF n
    <2> QED BY <2>2, <2>3 DEF Real
<1>5. CASE f.kind = "arp_request"
    BY <1>1, <1>2, <1>5 DEF Answers
<1>6. CASE f.kind = "udp"
    <2>1. CASE f.body[1] = "discover"
        <3>1. Answers(f) = offers
            BY <1>6, <2>1 DEF Answers
        <3> HIDE DEF offers
        <3> QED BY <1>4, <3>1
    <2>2. CASE f.body[1] = "request"
        BY <1>1, <1>2, <1>6, <2>2 DEF Answers
    <2>3. CASE f.body[1] = "query"
        BY <1>1, <1>2, <1>6, <2>3 DEF Answers
    <2>4. CASE f.body[1] \notin {"discover", "request", "query"}
        <3>1. Answers(f) = <<>>
            BY <1>6, <2>4 DEF Answers
        <3> QED BY <1>3, <3>1
    <2> QED BY <2>1, <2>2, <2>3, <2>4
<1>7. CASE f.kind \notin {"arp_request", "udp"}
    <2>1. Answers(f) = <<>>
        BY <1>7 DEF Answers
    <2> QED BY <1>3, <2>1
<1> QED
    BY <1>5, <1>6, <1>7

\* What is on its way.
LEMMA LanReal == ASSUME PeerInv, Genuine, [Next]_vars PROVE Real(lan')
<1> DEFINE R == Inbound(leases)
<1>1. lan \in Seq(R) /\ Real(lan)
    BY PeerParts DEF Genuine
<1>2. CASE lan' = lan
    BY <1>1, <1>2
<1>3. CASE lan # <<>> /\ (lan' = Tail(lan) \/ lan' = Append(lan, Head(lan)))
    <2> HIDE DEF R
    <2> QED BY <1>1, <1>3, RealParts
<1>4. CASE HwSend
    <2> DEFINE f == tx.buf.frame
    <2>1. lan' = lan \/ lan' = lan \o Answers(f)
        BY <1>4 DEF HwSend
    <2>2. Real(Answers(f))
        BY AnswersReal
    <2>3. Answers(f) \in Seq(Inbound(Servers)) /\ lan \in Seq(Inbound(Servers))
        <3>1. f \in Outbound
            BY PeerParts
        <3>2. f.kind = "udp" /\ f.body[1] = "request" => f.body[2] \in Servers
            BY <3>1, OutboundFacts
        <3>3. Seq(R) \subseteq Seq(Inbound(Servers))
            BY PeerParts, MoreLeases
        <3> HIDE DEF f, R
        <3> QED BY <1>1, <3>1, <3>2, <3>3, AnswersAre
    <2> HIDE DEF f
    <2> QED BY <1>1, <2>1, <2>2, <2>3, RealParts
<1>5. CASE Neighbourly
    <2>1. \E f \in {Frame("echo", Neighbour, Neighbour, <<cl.ip>>),
                    Frame("echo", Neighbour, Neighbour, <<All>>),
                    Frame("arp_request", Neighbour, cl.ip, <<>>)} : lan' = Append(lan, f)
        BY <1>5 DEF Neighbourly
    <2>2. PICK f : lan' = Append(lan, f) /\ f.kind \in {"echo", "arp_request"}
        BY <2>1 DEF Frame
    <2>3. f # NoFrame
        BY <2>2 DEF NoFrame, Frame
    <2>4. lan \in Seq(R \cup {f}) /\ f \in R \cup {f}
        BY <1>1, SeqMonotonic
    <2> HIDE DEF R
    <2> QED BY <1>1, <2>2, <2>3, <2>4, RealParts
<1>6. CASE HwReceive
    BY <1>3, <1>6 DEF HwReceive
<1>7. CASE Rare
    BY <1>2, <1>3, <1>7 DEF Rare, Lose, Repeat, LinkDown
<1>8. CASE UNCHANGED envVars \/ UNCHANGED vars
    BY <1>2, <1>8 DEF envVars, vars
<1>9. ASSUME NEW p \in Proc, wifi_tx_frame(p) PROVE UNCHANGED envVars
    BY <1>9 DEF wifi_tx_frame
<1>10. ASSUME wifi_fiq_dispatch \/ rx_dump \/ wifi_rx_servicer \/ ipv4_proc \/ ipv4_release
              \/ Client \/ HwStall \/ LinkUp
       PROVE  UNCHANGED envVars
    BY <1>10 DEF wifi_fiq_dispatch, rx_dump, wifi_rx_servicer, ipv4_proc, ipv4_release, Client,
       HwStall, LinkUp
<1> QED
    BY <1>4, <1>5, <1>6, <1>7, <1>8, <1>9, <1>10 DEF Next

LEMMA HandReal == ASSUME PeerInv, Genuine, [Next]_vars PROVE busy'.ipv4 => InHand' # NoFrame
<1>1. CASE ipv4_proc
    <2> DEFINE f == SlotOf(ring, 0, IpSlots)
    <2>1. ipv4_recv(f) /\ ring' = [ring EXCEPT !.sem = @ - 1]
        BY <1>1 DEF ipv4_proc
    <2>2. f.kind \in {"echo", "udp"}
        <3> HIDE DEF f
        <3> QED BY <2>1 DEF ipv4_recv
    <2>3. ring'.slot = ring.slot /\ ring'.tail = ring.tail
        BY <2>1, PeerParts DEF IpRing
    <2>4. SlotOf(ring', 0, IpSlots) = f
        BY <2>3 DEF SlotOf
    <2>5. f # NoFrame
        <3> HIDE DEF f
        <3> QED BY <2>2 DEF NoFrame, Frame
    <2>6. busy'.ipv4 => InHand' = SlotOf(ring', 0, IpSlots)
        BY DEF InHand, SlotOf
    <2> QED BY <2>4, <2>5, <2>6
<1>2. CASE ipv4_release
    <2>1. ~busy'.ipv4
        BY <1>2, PeerParts DEF ipv4_release
    <2> QED BY <2>1
<1>3. CASE busy'.ipv4 = busy.ipv4 /\ InHand' = InHand
    BY <1>3 DEF Genuine
<1>4. CASE rx_dump
    <2>1. busy'.ipv4 = busy.ipv4
        BY <1>4, PeerParts DEF rx_dump
    <2> QED BY <1>3, <1>4, <2>1, DumpPipe
<1>5. CASE wifi_rx_servicer
    <2>1. busy'.ipv4 = busy.ipv4 /\ ring' = ring
        BY <1>5, PeerParts DEF wifi_rx_servicer
    <2>2. InHand' = InHand
        BY <2>1 DEF InHand, SlotOf
    <2> QED BY <1>3, <2>1, <2>2
<1>6. CASE UNCHANGED <<ring, busy>>
    <2>1. InHand' = InHand
        BY <1>6 DEF InHand, SlotOf
    <2> QED BY <1>3, <1>6, <2>1
<1>7. ASSUME NEW p \in Proc, wifi_tx_frame(p) PROVE UNCHANGED <<ring, busy>>
    BY <1>7 DEF wifi_tx_frame, rxVars
<1>8. ASSUME \/ UNCHANGED vars \/ wifi_fiq_dispatch \/ Client \/ HwSend \/ HwStall
             \/ HwReceive \/ Neighbourly \/ LinkUp \/ Rare
      PROVE  UNCHANGED <<ring, busy>>
    BY <1>8 DEF vars, rxVars, wifi_fiq_dispatch, Client, HwSend, HwStall, HwReceive, Neighbourly,
       LinkUp, Rare
<1> QED
    BY <1>1, <1>2, <1>4, <1>5, <1>6, <1>7, <1>8 DEF Next

LEMMA PipeInit == ASSUME Init PROVE Genuine /\ InOrder!Init
<1>1. /\ stage = [slot |-> [i \in 0 .. StageSlots - 1 |-> NoFrame], head |-> 0, tail |-> 0]
      /\ ring = [slot |-> [i \in 0 .. IpSlots - 1 |-> NoFrame], head |-> 0, tail |-> 0, sem |-> 0]
      /\ busy = [servicer |-> FALSE, ipv4 |-> FALSE]
      /\ lan = <<>> /\ dma = <<>>
    BY DEF Init
<1>2. ~busy.ipv4 /\ ~busy.servicer
    BY <1>1
<1>3. Genuine
    BY <1>1, <1>2 DEF Genuine, Real
<1>4. InHand = NoFrame
    BY <1>2 DEF InHand
<1>5. UnderWay = <<>>
    <2>1. PeerInv
        BY PeerInit
    <2>2. Count(ring) = 0 /\ Count(stage) = 0
        <3>1. (0 - 0) % Wrap = 0
            BY Sizes
        <3> QED BY <1>1, <3>1 DEF Count
    <2>3. Begun(busy.ipv4) = 0 /\ Begun(busy.servicer) = 0
        BY <1>2 DEF Begun
    <2>4. \A r, slots : Count(r) = 0 => From(r, slots, 0) = <<>>
        BY DEF From
    <2>5. UnderWay = (<<>> \o <<>>) \o <<>>
        BY <1>1, <2>1, <2>2, <2>3, <2>4, UnderWayNow
    <2>6. <<>> \in Seq(Nat) /\ <<>> \o <<>> = <<>>
        BY ConcatEmptySeq, EmptySeq
    <2> QED BY <2>5, <2>6
<1> QED
    BY <1>3, <1>4, <1>5 DEF InOrder!Init

\* The receive path implements the pipe: whatever the interrupt, the servicer
\* and ipv4_proc do in whatever order, for rings of any size and counters that
\* wrap, packets are handled in the order of their arrival, none twice, and no
\* step but its own takes the packet ipv4_proc works on away or changes it
\* (wifi_rx_nmi_drain, rx_dump, ipv4_enqueue, ipv4_proc).
THEOREM ReceivesInOrder == Spec => PipeSpec
<1>1. Init => Genuine /\ InOrder!Init
    BY PipeInit
<1>2. PeerInv /\ Genuine /\ [Next]_vars => Genuine'
    BY LanReal, HandReal DEF Genuine, Real
<1>3. PeerInv /\ Genuine /\ [Next]_vars => [InOrder!Next]_<<UnderWay, InHand>>
    BY NextPipe DEF PipeStep
<1> QED
    BY <1>1, <1>2, <1>3, PeersFixed, PTL DEF Spec, PipeSpec, InOrder!Spec, InOrder!vars
=============================================================================
