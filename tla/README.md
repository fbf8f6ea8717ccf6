# teatime-os in TLA+

teatime-os is an operating system for the ESP8266: a preemptive kernel, a
device table, drivers for the uart, the pins and the wifi radio, a network
stack written for this machine, and a few servers on top of it. This directory
holds TLA+ modules of its logic, configurations that check them with TLC on
small instances, and proofs, checked by TLAPS, that hold for every instance.
Paths below are relative to the repository's root; the code is in `src/`.

## 1. The system

| part | source | state | operations |
|---|---|---|---|
| scheduler and tick | `system/sched.c`, `make_avail.c`, `proc_queue.c`, `handle_cputimer_intr.c` | `proctab[]`, `curr_pid`, `need_resched`, `avail_list` | `make_avail`, `sched`, the tick handler |
| synchronisation | `system/sem.c`, `cond.c`, `sleep.c` | `semtab[]`, `condtab[]` with `pending`, `nmi_pending`, `sleep_list`, `tick_count` | `sem_wait/signal`, `mutex_lock/unlock`, `cond_wait/timedwait`, `cond_signal/broadcast/_isr/_nmi`, `sleep`, `sleep_clock`, `cond_clock` |
| process life | `system/get_pid.c`, `create.c`, `start_proc.c` | a row of `proctab`, `stk_base`, the canary word | `spawn`, return of a process's function, the canary sweep in `sched` |
| allocator | `system/alloc.c`, `initmem.c` | the free list | `alloc`, `alloc_stack`, `free` |
| device table | `device/dev.c` | rows (name, ops, `used`, `cond`) | `dev_register`, `dev_alloc`, `open`, `close`, `read`, `write`, `control` |
| uart0 | `device/uart/uart.c` | `rx_ring`, head and tail, two mutexes, two hardware fifos | `uart_intr`, `uart_read`, `uart_write` |
| gpio | `device/gpio/gpio.c` | a row and an interrupt mode per pin | open, close, read (wait for an edge), write, the handler |
| wifi frames | `device/wifi/wifi_fiq.c`, `wifi_rx.c`, `wifi_tx.c`, `wifi_dma.c` | descriptor ring, stage ring, one transmit descriptor | the NMI, the servicer process, `wifi_tx_frame` |
| wifi station | `device/wifi/wifi_sta.c`, `wifi_wpa.c`, `wifi_ccmp.c`, `wifi_ap_scan.c` | association and handshake state, nonces, the key slots of the MAC, the channel | scan, authenticate, associate, the 4-way and group handshakes, the tick that repeats and restarts them |
| ethernet, ARP, IPv4, ICMP | `device/net/net.c`, `ipv4.c`, `icmp.c` | ARP cache, packet ring between the servicer and `ipv4_proc` | `net_recv`, `net_send`, `arp_recv`, `ipv4_proc`, echo |
| UDP, DHCP, DNS | `device/net/udp.c`, `dhcp.c`, `dns.c` | sockets with their datagram rings, the lease | open, bind, read, write, close, the two clients |
| TCP | `device/net/tcp.c` | `listener`, `tcp_ctrl`, `rx_ring` | listen, accept, read, write, close, `tcp_recv`, the retransmission timer's process |
| telnet, servers, shell | `device/net/telnet.c`, `app/` | option state, line editor, the pot's brew state | read/write with negotiation, requests |

How they interact. Everything runs in processes, except three interrupt
levels: level-1 handlers (uart, gpio) run with level-1 interrupts masked; the
tick is a level-1 handler that ends in `sched()`; the wifi MAC raises the NMI,
which nothing masks. Processes share state under mutexes and wait on
conditions. A condition can be signalled from a process (`cond_signal`,
`cond_broadcast`), from a level-1 handler (`cond_signal_isr`, which also leaves
`pending` set for a waiter that has tested but not parked) and from the NMI
(`cond_signal_nmi`, which may touch nothing but two flags; the next tick
delivers). Each device row has one condition, which its driver signals
whenever "that device changes". A received frame goes NMI -> stage ring ->
servicer (decrypt, ARP, enqueue) -> `ipv4_proc` -> `tcp_recv` or a UDP socket
-> the reader's condition; a frame to send goes from the caller's process
through ARP to the one transmit descriptor and waits for TX_DONE.

What is hard in it: an NMI between any two instructions of masked code; a
wait() that queues and unlocks and may switch in between; a timeout meeting a
signal; hand-off of a semaphore to a process that has not run yet; tick,
sequence and ring counters that wrap; a timer process that acts on what was
true before it had the mutex; a peer's segments lost, repeated and out of
order; rings and tables at their limit (heap, rows, conditions, ARP cache,
stage ring); half-made rows seen by a tick. `PROJECT.json` lists each at its
line under "hazards", with the properties that cover it.

What makes each part correct:

* kernel: a process is on the one queue its status names; nobody who could run
  outranks the current process; no signal is lost and none is delivered twice
  over (as a signal and as a timeout); a mutex has one owner; semaphores hand
  out what they were given; sleepers wake at their tick, across its wrap.
* process life and heap: free and used blocks tile the heap; a process runs on
  a stack of its own that carries its canary; nothing leaks; the machine
  reboots for an overrun stack only.
* uart0: bytes are read in order, once; a parked writer has the interrupt that
  wakes it enabled; read() and write() return.
* TCP: both byte streams arrive in order and whole; an acknowledged write has
  arrived; a segment that is outstanding is being timed; no call hangs.
* wifi station: `wpa_state` = DONE, all that `net_send` looks at, means an
  associated, tuned and keyed station; both ends hold the same keys when they
  think they do; the station comes back up by itself after any loss, refusal, move
  or restart, and the link with it as long as packets are sent over it.
* frames and network stack: the receive path drops packets but neither
  reorders, repeats nor overwrites one; transmitted frames carry ever higher
  numbers; a packet goes to the host it has to go to; the address in use is one
  that was granted; a DNS answer is the answer to the question; sends end.
* telnet and terminal: both ends agree on the options when nothing is under
  way, and the line that is run is the line that was typed.

## 2. The modules

| module | models | kind |
|---|---|---|
| `Kernel` | scheduler, semaphores, mutexes, conditions, sleep list, tick | state machine |
| `MCKernel` | its instances for TLC | |
| `KernelProofs` | what the queue operators do to a sequence; types and signals of `Kernel` | proofs |
| `KernelQueues` (extends `KernelProofs`) | queues, counts, priorities, owners and timeouts of `Kernel` | proofs |
| `Heap` | `first_fit`, `last_fit`, `insert_free`, `initmem` on a free list | operators |
| `ProcLife` (extends `Heap`) | row, stack, publication, canary, exit, sweep | state machine |
| `MCProcLife` | its instances | |
| `ProcLifeProofs` | lists of blocks, rows and stacks | proofs |
| `Uart` | handler, reader, writer and hardware of uart0 | state machine |
| `MCUart` | its instances | |
| `Tcp` | the one-connection server, its timer process, the clients and the network | state machine |
| `MCTcp` | its instances | |
| `Link` | the station's hunt, association, handshakes and keys, the access point and the air | state machine |
| `MCLink` | its instance | |
| `Net` | receive path from the NMI to a socket, ARP, the transmit path, DHCP and DNS | state machine |
| `Pipe` | what the receive path promises | abstract specification, implemented by `Net` |
| `MCNet` | its instance | |
| `Telnet` | telnet's option machine, the terminal's line editor, the accept loop, the client | state machine |
| `MCTelnet` | its instance | |
| `TcpStreams` | tcp's retransmission timer and both byte streams | proofs |
| `UartProofs`, `LinkProofs`, `NetProofs`, `TelnetProofs` | see section 4 | proofs |

Definitions keep the names of the code. A definition marked *Wrong* in a module
is what its neighbour would be with a plausible bug; nothing in the
specification uses it; in `Link`, `Net` and `Telnet` the name alone says so
(`TxReturn_GiveBack` stands before `TxReturn`). "mutants" in `PROJECT.json` pairs each with the property that
notices it.

### Kernel

One atomic step is what the code does between two points at which somebody
else can come in. `disable()` keeps level-1 interrupts and therefore the tick
and preemption out, so a masked routine would be one step if it were not for
the NMI. `at` is the place a masked routine has reached; `at = "user"` means
interrupts are open. `CondSignalNmi` is enabled everywhere; the other
interrupts only at "user". The routines are cut at each place where what the
NMI writes (`pending`, `nmi_pending`) is read or cleared, at each turn of a
masked loop, and before `sched()`:

| code | actions |
|---|---|
| `sem_wait`, `mutex_lock` | `SemWait`, `SemWaitReturn` |
| `sem_signal`, `mutex_unlock` | `SemSignal`, `MutexUnlock` (`Post`, `Unlock`) |
| `wait()` in `cond.c` | `CondWait` (test of `pending`), then `WaitClear`, or `WaitPark` (queue, unlock), `Sched`, `WaitReturn`, and `SemWait` for the relock |
| `cond_signal`, `cond_broadcast`, `cond_signal_isr` | `CondSignal`, `CondBroadcast`, `CondSignalIsr`, with `WakeAll` per turn of the loop |
| `cond_signal_nmi` | `CondSignalNmi` |
| `sleep` | `Sleep`, `SleepReturn` |
| the tick | `TimerIntr`, `SleepClock` per turn, `CondClock`, `Scan`, `ScanWake`, `Sched` |

`proctab`'s columns are functions on processes, queues are sequences, the
doubly linked lists being `proc_queue.c`'s representation of them. `op`,
`lockOf` and `holds` stand for a process's stack: the call it is suspended in,
and the mutexes it believes it holds. The processes are the most general ones
that keep two rules the code's clients keep: a holder unlocks or waits with a
mutex, and nobody locks a mutex it holds.

The initial state is the one the first tick finds: `start()` has spawned its
processes and is on the ready list itself, as the null process, while it runs.
`need_resched` is set then and nobody has called `sched()` (`Booting`); it is the one state in
user code of which that is true, and `HighestRuns` says so: a path out of the kernel
that sets the flag and leaves without `sched()` violates it.

### ProcLife and Heap

The heap is the list of free blocks with addresses and sizes in bytes, rounded
as `ceil_memblk` does. Each store of `get_pid` and `create` is an action,
because those run with interrupts open (`ScanRow`, `ClaimRow`, `AllocStack`,
`UnclaimRow`, `Publish`, `SetBase`, `SetCanary`, `MakeAvail`); allocation,
`free` and `start_proc`'s exit are masked and are one. `word` is the lowest
word of each possible stack, which the canary, the allocator's list pointers
and the owner of a data block write. The heap ends where the null process's stack
begins: `start()` takes that stack off the end of the memory first (`start.c:85`), so nothing
else ever moves it. The rows the boot fills before the first tick (the null process,
the servicer, `ipv4_proc`, the timer's process) are taken in the same way as those of
`main`'s later spawns, of which the model has them made. `sched` sweeps before it switches and
`rebooted` records a mismatch.

### Uart

`arrived` numbers the bytes the line delivers. The handler's steps are cut
where the hardware can change what it reads next: on entry (status read and
cleared), after the transmit half, at the sample of `rx_fifo_count`, at each
turn of the drain loop, at the signal. `uart_read`'s copy loop is cut between
fetching a byte and advancing `rx_tail`, which the handler can interrupt. The
condition is Kernel's, in one step: `cond_wait` takes a pending signal or parks
and releases its mutex, `cond_signal_isr` sets `pending` and wakes everybody.

### Tcp

Every access to `tcp_ctrl` is under `tcp_ctrl_mutex`, so the code from taking
the mutex to giving it up (unlocking or waiting) is one step. Such a stretch
is an *effect* (the control block it leaves, the ring, the segments sent, the
conditions signalled), built call by call from `send_new`, `disconnect`,
`TakeAck`, `TakeData` and so on, and applied by `Commit`, `WakeTimer` and
`WakeApp`. A process that was signalled or timed out is not running yet:
`timer` and `appWait` are "woken" or "timed_out" until it has the mutex again,
and other stretches can come in between. Delays are not measured; a timed wait
can end at any moment.

The application is `idle`, accepts, and then reads, writes and closes in any
order, as the four servers do in theirs. Clients connect from a port, may
repeat anything they have sent, disregard the window, take and acknowledge a
part of a segment, end their stream, reset, and connect again once the network
has forgotten their old segments (their own time-wait; the server keeps none).
Segments may be lost on sending or under way, delivered twice, delayed and
overtaken. Bytes are numbered in the order written, so a property can tell a
missing, repeated or misplaced one.

Sequence numbers are unsigneds of `SeqWrap` values compared as the `SEQ_`
macros do; `rng_read()` gives the numbers of the sequence `Iss`. The window
field, checksum, options and segments to other ports are left out.

### Link

The servicer process runs everything in the station, so a step is one frame
taken from the ring (`rx_dump`) or one turn of `wifi_station_tick` and of the
channel hop, which come when the ring is empty (`Turn`). `sta` is
`wifi_sta_state`, `wpa` is `wpa_state`, `mac` the two key slots of the
hardware. Times (`last_heard`, `last_tx`, `run_since`, the dwell) are ages in
retry periods, capped where the code stops telling them apart. A nonce is a
number, a key the pair of nonces it is derived from, a MIC the key it was made
with; what a frame is encrypted under is part of the frame, because a frame sent
to an access point in the clear state of its handshake is unreadable to it once
the station has enabled its key (`send_eapol`).

`link_down` stands for the three places that call `wifi_ccmp_clear_keys` and
`wpa_reset`: a deauthentication, the loss of beacons and a handshake that
stalls. `wpa_begin` takes a fresh snonce from IDLE only. A message 1 is answered
in any state but IDLE, in DONE too, and a message 3 that repeats is not
acknowledged again in DONE; both are as the code has them, and the run shows
that the restart after `WPA_STALL` and the access point's own give-up resolve
what comes of it.

The access point is external: it answers, repeats an unanswered handshake
message once per unit of time, gives up after `MaxTry`, and accepts only what
is encrypted as its state asks for. The faults are a lost frame, a request refused
(`Refuse`: a status that is not zero, which the station disregards), time that
passes while something was still to be done (a late frame, a late process), an
access point that forgets the station, moves to another channel, begins its
handshake anew, or rekeys the group.

### Net and Pipe

One module, because the questions are about the composition: what the NMI's
ring, the servicer, ARP, `ipv4_proc`, a socket and the client do to one
another's packets, and what three senders do with one descriptor. A call that
blocks is a step; `busy` says that a process works in the slot at its ring's
tail, and `call[p]` where a process is in `wifi_tx_frame`: before the lock (`fill`),
before the launch, waiting for TX_DONE.

| code | actions |
|---|---|
| `wifi_fiq_dispatch`, `wifi_rx_nmi_drain` | `wifi_fiq_dispatch` |
| servicer: decode, `net_recv`, `arp_recv`, `ipv4_enqueue`; the tail's advance | `rx_dump`, `wifi_rx_servicer` |
| `ipv4_proc`: wait, `ipv4_recv`, `udp_recv`, `icmp_recv`; the tail's advance | `ipv4_proc`, `ipv4_release` |
| `wifi_tx_frame` | `Fill`, `Launch`, `TxReturn`, `DescriptorExpires` |
| `net_send`, its ARP loop | `net_send`, `arp_cache_lookup`, `ArpExpires` |
| `dhcp_proc` | `dhcp_read`, `ReadExpires`, `dhcp_unanswered` |
| `dns_resolve` | `dns_resolve`, `dns_read` |
| MAC, access point, other hosts | `HwSend`, `HwStall`, `HwReceive`, `Neighbourly`, `Rare`, `LinkUp` |

The NMI is not masked, so no process takes a step while a descriptor waits for
it (`NoNmi`). A wait expires freely when nothing is left that could answer it; if it
expires all the same, the answer was slow, and that is a fault. A DHCP or DNS
exchange uses one transaction at a time, as the one client process does.

`Pipe` is the abstract receive path: a sequence `q` of packets under way and the one
in its handler's hands, `held`. Packets arrive at the end, any may be dropped (what is
left is `Thinned`: some positions of what was there, in their order), the
first is taken when the hands are free and given back unchanged. `Net` implements
it (`PipeSpec == InOrder!Spec`) with `q` the frames of the packet ring, the stage
ring and the descriptors, in that order, less what a process has handled
already (`UnderWay`), and `held` the slot at the packet ring's tail while `ipv4_proc` works on it (`InHand`).
A frame that is not for `ipv4_proc`, an ARP packet say, is dropped from the pipe where
the servicer takes it.
The refinement is what says that the two rings with their free-running counters
are one queue, with a writer that nothing masks.

### Telnet

One process reads, answers and echoes, so one read is one step: `telnet_read` runs the
protocol machine (`process`) over all its bytes, then `term_parse_buf` the terminal
(`term_handle_key`) over those that are left. Both loops are recursive functions on
the number of bytes handled. A read that leaves no byte makes the code read again
inside `telnet_read`; here the terminal is given nothing and the next read is the
next step. `TelnetAssumption` asks for positive lengths and an exit command with a name. A byte is named for the code that tells it apart, and reads cut the stream
anywhere, also inside a command. `Final` are the bytes that end an escape sequence; those before
the last, the parameters, are printable but swallowed. The two option tables are functions from options
to NO, YES, WANT_YES; nothing sets WANT_NO. The client is external: it types
keys, escape sequences and escaped bytes, negotiates by the rules of RFC 1143
without its queue, and hangs up in the middle of what it sent. `want` is its own
record of the line it has typed, `screen` what the echo has drawn.

## 3. What is checked

| run | properties | question |
|---|---|---|
| `kernel` | TypeOK, OneQueue, HighestRuns, NoStrandedSignal, MutexExcludes, WaitersCounted, SleepOrdered, SignalXorTimeout | is the kernel safe, with waits, timeouts, hand-offs, handlers and the NMI in every order? |
| `kernel_live` | NmiDelivered, SleeperWakes, TopPriorityRuns | do signals, sleepers and equal processes make progress? |
| `lifecycle` | TypeOK, HeapTiled, RunsOnOwnStack, StacksAccounted, RowExclusive | do spawns, exits and allocations, preempted anywhere, keep heap and table sound? |
| `canary` (violation) | NoFalseReboot | does the sweep reboot only for an overrun stack? |
| `uart` | TypeOK, BytesInOrder, WriterArmed, WriteReturns | is uart0 right with the process that opens it? |
| `uart_reader` (violation) | ReaderHears | does a byte in the ring release the reader? |
| `tcp` | TypeOK, StreamIn, StreamOut, AckedArrived, RtoArmed | are both streams right over a bad network? |
| `tcp_live` | WriteReturns, CloseReturns, ReaderReleased | does every blocking call end? |
| `tcp_timer` (violation) | TimerHasCause | does the timer act for an outstanding segment only? |
| `link` | TypeOK, KeysAgree, DoneIsKeyed, LinkUp | do the keys agree, does DONE mean a usable link, does the station come back by itself after four faults of any kind, and the link while packets are sent? |
| `net` | TypeOK, RightPeer, PipeSpec, AirOrder, ClientReturns | is the way of a packet right, in and out, and does the client get on, with one fault anywhere? |
| `telnet` | TypeOK, OptionsAgree, LineAsTyped | do both ends agree on the options, and is what is run what was typed? |

`RightPeer` is three claims in one: `RightHost` (the ARP cache), `LeaseHeld` (DHCP) and
`ResolveRight` (DNS).

### Bounds

* `kernel`: the null process, two processes of one priority (interchangeable,
  hence the symmetry set) and one above them: enough for round robin,
  preemption by a woken process and two waiters of each order in a queue. One
  condition signalled by all three sources, one mutex, one counting semaphore
  up to 1. Delays are of one and of two ticks and ticks are taken modulo 6, so that
  sleepers with different wake ticks are on the list at once, in both orders of
  arrival and with the wrap between them, where an unsigned comparison puts them the
  wrong way round. `2 * d < Wrap` is the assumption the code makes (delays below 2^31
  ticks). The run tells two states apart without what an ended wait has left in
  `timed_out` (`MCView`), which nothing reads before the next `wait()` clears it.
* `kernel_live`: two equal processes, two conditions, so that `cond_clock`'s
  scan has to pass one to reach the NMI's; delays of one tick, ticks modulo 4; no symmetry. The NMI's condition has
  one waiter, as those of `wifi_rx.c` and `wifi_tx.c` have. With two waiters
  `NmiDelivered` does not hold: `wait()` returns at once to one of them and clears
  the flag for both.
* `lifecycle`, `canary`: a heap of ten granules, stacks of two sizes, data
  blocks of one, so that it fragments, is exhausted, and splits and whole blocks
  both occur; four rows, two of which are taken for good. The one spawner is
  `main`, as in the code.
* `uart*`: a ring of two, counters modulo 4, fifos of two, reads of two and
  writes of four bytes, six bytes received: both fifos and the ring fill and
  every counter wraps.
* `tcp`: two segments under way at once, so they overtake each other; two
  bytes each way, a write in one segment that can be acknowledged in part;
  a ring of two; one retransmission before giving up; both streams' numbers
  wrap. `tcp_live`, `tcp_timer`: one segment under way, a write in two
  segments, up to two connections in turn. `MaxRetries` must not be 0: with 0 a
  spurious timeout could call `disconnect()` twice before the writer runs and
  wipe its `send_err`, and `AckedArrived` fails. The code's constant is 5.

* `link`: two channels, so that the hunt has to hop and the access point can
  move away; four faults, enough for a lost message followed by a restart, a
  late copy and a move; four nonces, used in turn, so that a message of an earlier
  handshake is told from one of this; `Retry` < `BeaconLoss` < `WpaStall` as in the code
  (1, 2, 3), with the access point giving up after one repetition, before the
  station restarts.
* `net`: rings of two with counters modulo 4, so that all fill up and wrap; a cache
  of one entry, so that every entry stored replaces another; two servers that
  answer one DISCOVER; two questions, so that a late answer meets the next; one
  frame from a neighbour (a ping to us, a broadcast ping, an ARP request); one
  fault. Two rounds of DHCP and one ARP retry, so that each loop ends both ways.
* `telnet`: lines of two characters, reads of three bytes, two bytes on the way
  before the client types again, four acts of the client (connections, keys and
  requests together): a second connection after an interrupted first, a request
  that crosses the server's, and a command cut by a read all happen.

`CHECK_DEADLOCK FALSE` is used where the program may rightly stop: nobody types
at the terminal any more, the machine is rebooting, the client waits for a DNS
reply that is lost (section 7), or clients and network have nothing left to say
within their bounds.

### Fairness

* Kernel: the timer interrupt is latched until it is taken, so a masked stretch
  delays but does not lose it (strong fairness of `TimerIntr`); masked code runs to
  its end (weak fairness of `Masked`). Nothing is assumed of processes or of other
  interrupts.
* Uart: the transmit fifo drains, received bytes raise their timeout event, a
  raised interrupt is handled, and a process inside a call keeps being scheduled,
  which is what `TopPriorityRuns` checks of the kernel. Nothing is assumed of what
  arrives.
* Tcp: the server's processes run when they can and timed waits end
  (`SleeperWakes`). Clients and network owe nothing: they may be silent for ever.
* Link: the servicer runs (`Turn`, `rx_dump`), the access point takes what reaches it,
  time passes. `Tick` needs strong fairness: it is disabled while the others work. Faults
  are bounded in number and owe nothing. Nothing is assumed of the processes that send:
  the station has no keepalive, and an access point that has forgotten it without a word
  and beacons on is found out only by the deauthentication that answers a packet.
  The half of `LinkUp` that is `StationUp` (the station ends up in RUN and DONE,
  whatever happened) therefore holds without traffic, and the other half (the access point agrees) has traffic as its hypothesis:
  `Traffic` says that packets go on being sent over a link that keeps coming up.
* Net: the NMI, the servicer, `ipv4_proc` and every sender run when they can, the MAC
  sends or gives up a frame, and the station comes back up (`Link`'s `StationUp`; the model's `up` is `wpa_state`). Weak
  fairness is enough throughout: none of these is disabled by anybody for good.
  Neighbours and faults owe nothing.
* Telnet: none; its properties are safety properties.

## 4. What is proved

`KernelProofs`, for any set of processes, priorities, semaphores, conditions,
delays and tick width that satisfy `ProcAssumption`, `SyncAssumption` and
`TickAssumption`:

* `TypeCorrect`: `Spec => []TypeOK`. One lemma per helper (`MakeAvailType`,
  `WakeType`, `PostType`, ...), one step per action. `TypeOK` is inductive by itself.
* `DeliveryPromise`: `Spec => []NoStrandedSignal`. A signal that is pending
  while somebody is parked is one that a tick, the scan under way or the loop
  of `cond_signal_isr` will still deliver. This is not inductive: `wait()` decides on
  `pending` in one step and parks in a later one, and in between the NMI may
  signal. `DeliveryInv` adds `LateSignal` (a signal found pending by a process that is
  about to park came after its test, and so with `nmi_pending` set) and
  `CallFree` (outside a wait and a scan no condition is being worked on, so a scan
  starts at condition 0 and passes every one). `QuietStep`
  covers the actions that touch neither queues nor flags; the rest are one step
  each.

The lemmas at the head of the module prove what the queue operators return, keep
and bound, among them that a place to insert always exists, that an insertion
adds just that process and a removal takes out just that one.

`KernelQueues`, under the same assumptions:

* `OneQueueAtATime` and `EveryWaiterCounted`: `Spec => []OneQueue`, `Spec => []WaitersCounted`.
  Neither is inductive: `sem_signal` hands its unit to whoever `proc_dequeue` returns,
  and from an empty queue that would be the null process, so `OneQueue` needs the
  waiters counted; and a process that blocks must be in no queue yet. `QueueInv` is the
  two with `Rows`: nobody but the current process is CURR, the null process never
  waits, outside `sched` the current process runs or is the boot thread, and whoever
  is inside `wait()` holds the mutex it passed.
* `HighestPriorityRuns`: `Spec => []HighestRuns`. It speaks of user code; `Ranked` is the same
  of masked code as long as `need_resched` is not set, and `Owed` that the flag is never
  left set on the way out: whoever sets it goes through `sched`, but for the boot thread.
* `MutualExclusion`: `Spec => []MutexExcludes`, with a process an owner from the moment it is
  handed the mutex, before it has run (`OneOwner`).
* `OneEndToAWait`: `Spec => SignalXorTimeout`, an action property. `NotLate` says that nobody
  parked on a condition carries the timeout mark.
* `SleepListInOrder`: `Spec => []SleepOrdered`. Ticks are compared by signed difference, so
  order is a relation between a list and a tick; `InTime` bounds how far ahead a wake
  tick can lie, which is where `2 * d < Wrap` is used.

`ProcLifeProofs`, under `LifeAssumption` and `HeapAssumption` and for `Spawners = {Main}`:

* `LifeTypes`, `HeapStaysTiled`, `RowStaysExclusive`, `EveryStackItsOwn`, `NoStackLost`, one for each
  property of the `lifecycle` run. The hypothesis is what the code does: only `start()`, as
  `main`, spawns; two creators at once could claim the same row, as `get_pid` scans and claims
  with interrupts open. About the heap, the lemmas show of every list of blocks
  that `first_fit` and `last_fit` take out just what they return, that `insert_free` merges
  with just the neighbours that touch, and that both keep a list sorted, apart
  and covering the same bytes (`HeapOK`). `RowStaysExclusive` needs no more than where `create` is (`Taking`:
  a row is UNAVAIL only while the one creator holds it, and comes back when there is no
  stack). `Rows` adds where the stacks are: a process that may
  run has a block with its canary (`HasStack`), the row under construction has what its
  place in `create` has given it (`NewStack`), and every block that is no data has a row
  (`Kept`).

`UartProofs`, under `UartAssumption`:

* `UartTypes`: `Spec => []TypeOK`. Not inductive alone: `RxAdvance` counts `left` down, so
  `ReadLeft` (a byte fetched has room) goes with it.
* `WriterStaysArmed`: `Spec => []WriterArmed` for one user (`OneUser`), which is the
  hypothesis it needs: a second process could take the signal. Between
  arming the interrupt and parking, the handler may disable it again;
  `SignalKept` says that it has then left `pending` set, so that the writer does not park.
* `BytesStayInOrder`: `Spec => []BytesInOrder`, for any number of users. What is in the ring,
  by the counters and not by the slots, is sorted, comes after what was read
  and before what is in the fifo (`OrderInv`); a slot that is being filled is not among those
  in use, because `RingSize` divides the range of the counters; and between the
  two mutexes only one process is inside the reader (`ReaderInv`).

`TcpStreams`, under `TcpAssumption`:

* `TimerStaysArmed`: `Spec /\ []AcksSane => []RtoArmed`. `Told(e)` says of an effect that what it
  makes outstanding it signals to the timer's process; one lemma per call
  (`send_new`, `disconnect`, `Acknowledged`, `TakeAck`, ...) shows that it keeps `Told`, and
  `ToldArms` that an effect with it keeps the timer armed. `AcksSane` excludes an
  acknowledgement exactly half the sequence space away, for which `SEQ_LT` and
  `SEQ_LEQ` both hold (`AckOnce` proves that no other has that property); the `tcp` run
  checks `AcksSane` of its clients as a part of `TypeOK`, and `StreamTypes` proves it.

and for `Roomy` connections:

* `ReadsWhatWasSent`: `StreamIn`. `SendsWhatWasWritten`: `StreamOut`. `AckedHasArrived`: `AckedArrived`.
  `StreamTypes`: `TypeOK`, with `AcksSane`. `TimerArmed`: `RtoArmed` without `TimerStaysArmed`'s hypothesis.
* `Roomy` says that fewer than half of the sequence space is written to one
  connection, and that no number a connection uses is the initial number of another.
  Without the first a number does not tell old from new; without the second an old
  client could take the SYN of a new connection for a part of its own, or the
  server its acknowledgement for one of the new connection. The constants of the
  `tcp` run satisfy it. (The second connection of `tcp_live` begins with a number the first
  may use; that run asks for liveness alone.) In the code the space has 2^32 numbers, a response of the servers a few hundred bytes, and
  initial numbers are random.
* `StreamInv` ties the three places together in which a byte can be. `World`: what is on the air
  from a client is a span of what it has sent, and what is on its way to it, what it
  has and what it acknowledges are numbers of one connection, whichever it knows us
  by (`On`). `CtrlOk`, by the state of the control block: what is in the ring continues what was
  read and ends at `rcv_nxt` (`RecvOk`); what was written and is not acknowledged is
  the end of what is kept for retransmission (`SendOk`); a client that knows an older
  connection by this port never gets this one open (`Stale`). `AppOk`: what the application
  waits for belongs to what `snd_una` says. The proof has a lemma per call (`NewAck`,
  `DataPut`, `UnackedData`, ...), and one per kind of segment for what a client makes of it.

`LinkProofs`, under `LinkAssumption`:

* `LinkTypes`: `Spec => []TypeOK`, over records of the station, the access point and the air.
* `DoneStaysKeyed`: `Spec => []DoneIsKeyed`. The invariant adds to it what makes it inductive:
  beyond INIT the channel is locked and tuned; a handshake under way belongs to
  RUN and has drawn its `snonce`; and a key derived from that is therefore never the
  pair of zeros that stands for an empty slot.
* `BothEndsAgree`: `Spec /\ []NoncesFresh => []KeysAgree`. `NoncesFresh` says that the nonce the access
  point draws is not that of a frame still on the air. The code's nonces are 32
  random bytes; the model's are used in turn and come round, so that it is a
  hypothesis here. It is an invariant of the `link` instance when that is given five
  nonces, one more than it has faults; with the four it has, so that they do come
  round, `AgreeInv` and `KeysAgree` hold all the same. `AgreeInv` follows the order of the frames: after
  message 3 under a key nothing is on its way that starts the handshake over
  (`Waiting`), so once it is answered the station has this key or none (`Settled`), and a new
  group message stands behind the older ones (`Rekeying`).

`NetProofs`, under `NetAssumption`:

* `NetTypes`: `Spec => []TypeOK`, and `PeersStayRight`: `Spec => []RightPeer`, by the invariant `PeerInv`: what each
  kind of frame can say wherever it is (`Inbound`, `Outbound`: an ARP reply names its sender, a
  DHCP answer offers what its server holds, a DNS answer has the question's number),
  the rings' counters against their semaphores (`Received`), the caller of `wifi_tx_frame` who
  has the descriptor (`OneSender`), and what the client's state says of its socket
  (`ClientFits`).
* `AirOrdered`: `Spec => AirOrder`. `Numbered` says that the buffer of a descriptor that is armed,
  or about to be, has a number that was given out, and that what was filled after
  the last frame on the air has a later one. It allows for the late completion: a
  descriptor may still be armed while the next process fills its buffer, and
  then the new frame goes out in the old one's place and once more.
* `ReceivesInOrder`: `Spec => PipeSpec`, the refinement, for rings of any size whose counters
  wrap. `Genuine` adds to `PeerInv` what the mapping needs: the frames of the network are
  packets, and what `ipv4_proc` holds is one. A lemma for each end of a ring says what its
  counter does to the frames that wait in it (`PutWaits`, `BegunWaits`, `GoneWaits`), and there is one
  step of the pipe for each action that moves a frame. `wifi_rx_nmi_drain` is a loop over
  the descriptors and may drop several at once when the stage ring is full;
  that it leaves a thinned sequence is shown by the least counterexample among
  the number of turns (`DrainKeeps`).

`TelnetProofs`, under `TelnetAssumption`:

* `TypeCorrect`: `TypeOK`. `OptionsSettle`: `OptionsAgree`. `LineIsTyped`: `LineAsTyped`. All three speak of what is
  left when nothing is on its way, so the invariant has to say what the bytes on
  their way will come to. Looked at only when they are read, they would have to be
  looked at for every cut into reads; but what the two make of a byte does not
  depend on where the read that brings it begins or ends (only what is echoed
  does), so that the end is the same for every cut. A `Glimpse` is both memories with the set of answers the
  device owes, `Sees(x, w, y)` says that the bytes `w` lead from `x` to `y` one at a time, and
  `TelInv` that what is on its way leads from now to a glimpse that agrees with the peer
  (`Ends`). `ReadAll` and `ParseAll` show that one read goes just as far as its bytes were
  foreseen to; `SeesFrom` gives the rest.
* `Fits` is the agreement on one option: six rows, of the peer's state, the device's
  and the one answer that may be under way. `FitsAsks` and `FitsGets` take the peer's
  requests and its replies through the table; `SeesWithout` says that an answer
  received changes nothing of what is foreseen, and `Once` that none is on its way
  twice. That the device never enters `WANT_NO` is why six rows are enough.
* `Lined` is the agreement on the line: behind the bytes on their way the terminal is
  between keys and holds what the peer wants, or it has left. `KeySeen` shows it of
  every key, escaped byte and subnegotiation.
* `ScreenInv` says that the tokens on their way back make the screen show the line
  (`Draws`). It holds from a line begun with the echo settled on (`clean`), since every key
  puts out what its edit looks like (`Edits`).

Where a proof needs the least place at which something fails (the loops of
`telnet_read`, `term_parse_buf`, `wifi_rx_nmi_drain`), it takes it with `WFMin` from the order
of the naturals; the library's induction theorems are out of reach.

## 5. What is only model-checked

Liveness, in all modules (`NmiDelivered`, `SleeperWakes`, `TopPriorityRuns`, both `WriteReturns`,
`CloseReturns`, `ReaderReleased`, `LinkUp`, `ClientReturns`): the prover has no fairness and no ENABLED.
These are checked on the instances above. Every other property of a passing run
is proved.

The next proof worth having: `NoncesFresh` from a bound on the handshakes that can begin
while a frame is under way.

## 6. Findings

1. `uart_reader` - `uart.c:109`. The handler samples `rx_fifo_count` and then drains
   until the fifo is empty. A byte that lands between the two is put in the ring
   with `received` still 0: no signal, and a parked reader waits for the next
   byte. The comment at `uart.c:97` covers the byte that lands after the drain.
2. `canary` - `create.c:69`. The row is published and its `stk_base` set before the
   canary is written, with interrupts open: a tick in between reboots the machine.
3. `tcp_timer` - `tcp.c:432`. After a timeout the timer process does not look at
   `snd_una` and `snd_nxt` again, although `tcp_recv` may have run before it got the
   mutex: it resends nothing in particular, counts a retry, or after the fifth
   drops a connection whose data was just acknowledged.

Remarks that contradict no comment of the code, but that a reader of it should
know:

* `cond.c:48`: `pending` is one flag per condition and a device has one condition. Were
  reader and writer of uart0 two processes, the reader's wait could take the
  signal meant for the writer. One process uses it.
* `tcp.c:242`: an acknowledgement exactly half the sequence space away would be taken
  for new (see `AcksSane`).
* `dns.c:109`: `dns_resolve` reads without a timeout, so one lost reply blocks its caller
  for good. `ClientReturns` asserts the return of every other call.
* `wifi_sta.c:154`: in RUN and DONE the station sends nothing of its own. Forgotten by an
  access point that beacons on, it believes in its link until the next packet is sent;
  `dhcp_proc` ends with its lease and the servers only answer, so that may be never.
* `udp.c:40`: `udp_open`'s five stores are one step here. `udp_recv`, which may come between them,
  disregards a socket until the last of them (`used`).
* `dhcp.c:67`: when `dhcp_proc` gives up it leaves its socket open and its port bound.
* `net.c:167`: `net_send` tests `wpa_state` once, before it resolves and transmits; a link that
  goes down in between costs the frame.
* `telnet.c`: whether to echo is asked after a whole read has been stripped of its
  protocol, so that characters typed before the echo was settled may be echoed or
  not, and erasing unechoed ones takes the prompt with them. `LineAsTyped` claims the
  screen for lines begun with the echo settled (`clean`); the line itself is right
  in any case.

## 7. What is not modelled, and why

* Radio bring-up (`wifi_rf.c`, `wifi_bb.c`, `wifi_mac.c`, ...): straight-line
  register programming.
* Cryptography (`wifi_crypto.c`): pure functions over byte strings, covered by the
  vectors of `tests/crypto_test.c`.
* Context switch, vectors and register save areas: assembly below the level of
  the model; their effect is `Sched` and the places interrupts are open.
* Polling output of `kprintf_uart`, `heap_available`, counters kept for the shell,
  string and number helpers, `http.c`: sequential, no shared state the properties
  could speak of.
* `dev.c`: a table filled at boot and looked up by name, its operations being
  those of each device. Whether the pools of 16 conditions and semaphores suffice
  is a sum over `start()`'s init calls, the same on every boot.
* `gpio.c`: open, close, write and the edge interrupt of a pin, whose wait is the one of
  `Kernel` (`CondSignalIsr`). The one user, `pot.c`, opens each pin once and only writes.
* `pot.c`, `htcpcp.c`, `pulse.c` and the shell's commands: each one process that serves one
  request after another and keeps nothing another process writes.
* Of what is modelled: lengths, checksums and layouts of frames; parts of a frame
  in several descriptors; the table of networks seen, which is only logged; the
  sequence control of data frames beyond the number, which wraps at 12 bits in the code
  (`wifi_tx.c:90`) and does not here, as it stands for the packet number too; the replay
  counter of the handshake, which the station only echoes; a name server's refusal; the
  doubling of IAC in `telnet_write`, which the terminal's output never contains; the
  advertised window and segments for other ports in TCP; `cond_create`, `sem_create`
  and `yield()`; `kprintf_uart`'s polling output.

`PROJECT.json` gives the status and the reason for each part under "components".
