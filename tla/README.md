# Verification of the fooljects: the redundancy protocol and its surroundings

The repository is a collection of small Windows programs and libraries. This
directory holds TLA+ modules for the parts of it that are concurrent or distributed
systems in their own right: the hot-standby protocol and the transport below it,
the telephone lines, a pair of services, and the tunnel of libjingle; TLC configurations that check them, and proofs that TLAPS checks.

Contents: 1. the system, 2. the modules, 3. the runs, 4. the proofs,
5. what the code does that a reader may not expect, 6. what is not modelled,
7. the plan.

## 1. The system

### 1.1 redundancy: the hot-standby protocol (`redundancy/fool_redundancy.cpp`)

Two servers of a cluster keep each other company: one is *primary*, the other
its *backup*. Class `Redundancy` decides which, and notices when the mate is
gone. It keeps

* the role `i_am` (`WHO_AM_I`, `ACTIVE_QUIT_ER`, `PRIMARY_WITHOUT_BACKUP`,
  `PRIMARY_WITH_BACKUP`, `BACKUP_WITH_PRIMARY`), read and written under a
  critical section, each access by itself;
* `m_mate_ip`, `m_connecetion_id` (the TCP connection to the mate),
  `m_quit_inner_thread`, and the caller's event `m_report_quit`;
* two threads. `negotiate` broadcasts the role by UDP and reacts to the
  broadcasts of others; it alone stores the mate and connects. `heartbeat` sends
  a `PING` to the mate whenever the role is a paired one, reads the mate's, and
  after too many missed ones sets `PRIMARY_WITHOUT_BACKUP` and sends `QUIT`.

A main program (`redundancy_test.cpp`) calls `init`, waits for a key or the
event, and calls `uninit`, which raises the flag and joins both threads.

Interaction: broadcasts to every server of the segment, the sender included;
TCP messages through VNClib; shared variables between the two threads; an event
and a callback towards the program.

Hard: each thread acts on values the other changes; the role is read before a
receive that blocks and used after it; a broadcast reads the role again; sockets
keep what earlier incarnations sent; processes die and come back at any moment.
What makes it correct: never two servers that are each other's backup; a paired
server knows its mate; at most one primary; a pair forms and stays; a dead mate
is given up, a live one is not; negotiation and shutdown end.

### 1.2 VNClib: the transport below it (`redundancy/VNClib`)

* `CVNQueue`, `CVNQueueGroup`: a linked list with a critical section and a
  semaphore that counts its messages. Insert, wait, remove, reset. Correct when
  permits and messages agree, so that no message is stranded or delivered twice.
* `CVNChannel`: one socket; framing of messages (header, then body) over
  partial sends and receives with timeouts. Correct when a timeout never leaves
  the stream in the middle of a message.
* `CVNConnection`: up to `MAXSENDCHAN` connections made and `MAXRECVCHAN`
  accepted, a free list of the latter, one listener thread and one reader thread
  per connection, all of them filling the queue group. Correct when the pool is
  never handed out twice or lost, and halting joins every thread.
* `CVNNetMsg`: typed parameters in one buffer.

### 1.3 TelecomDll: telephone lines

`TLine` keeps a line state, a call state and a call reference per line, driven by
Dialogic Global Call events (on `workThread`s) and by exported calls (from the
program's threads). Correct when the per-state totals count the lines, a call
that ends is released, and a line without a call becomes idle again.

### 1.4 Reload: a service that restarts another

`ClientService` reports its failure over a named pipe and stops; `ReloadService`
waits three seconds and starts it again. Both are paused, continued and
stopped by events. Correct when a failed client is restarted and a paused
service continues.

### 1.5 libjingle: the tunnel (`libjingle-0.4.0/talk`)

The library is third-party code. One part of it is a system of its own: `PseudoTcp`
(`p2p/base/pseudotcp.cc`) is TCP over datagrams, and `PseudoTcpChannel`
(`session/tunnel/pseudotcpchannel.cc`) drives one from three threads: the worker thread brings
datagrams and clock messages, the stream's thread reads, writes and closes, the
signalling thread takes the session away. A lock makes each call one step. The state is
that of TCP: a send buffer and the segments that cover it, a receive buffer with what
came early, windows of both kinds, and times. Correct when every byte arrives once
and in order, nobody waits for something that will not come, a live peer is not given up, and a
close sends what is left before the connection is deleted.

### 1.6 The rest

`kill`, `hmp`, `hmpv17`, `hmpvideo`, `DDEPrint`, `snapshot`,
`detect_fullscreen`, `GlobalInputIdle`, `queryprinterjob`, `fooltodo`, `resip.t38` are
one-shot tools or interactive drivers without state of their own.
The rest of `libjingle-0.4.0`, `g729_IPP` and `NTService` are
third-party code.

`PROJECT.json` lists every component with its status, and every hazard
with the line at which it bites.

## 2. The modules

| module | what it is |
| --- | --- |
| `Redundancy` | the protocol: both threads, the main program, the network, losses, kills and restarts; its properties |
| `RedundancyTimed` | the same steps on a clock of 500 ms ticks; the properties that need timely threads |
| `Redundancy_proofs` | the inductive invariant of `Redundancy` and its theorems |
| `RedundancyTimed_proofs` | that `RedundancyTimed` implements `Redundancy` |
| `RedundancyPair_proofs` | two servers on a healthy network: the invariant of their talk and their heartbeats, and its two theorems |
| `Fifo` | abstract: what a receive queue promises |
| `VNQueue` | `CVNQueue`: the linked list, its node memory, its semaphore and the receivers |
| `VNQueue_proofs` | the queue's invariant, and that it implements `Fifo` |
| `VNServer` | the receiving side of `CVNConnection` around one `VNQueue`: free list, listener, readers, shutdown |
| `VNServer_proofs` | the server's invariant: free list, slots and shutdown |
| `VNNetMsg` | `CVNNetMsg`: a message, its parameters and its buffer |
| `VNChannel` | `CVNChannel` and `VNSendMsg`: messages over TCP in pieces, timeouts, failures, reconnecting |
| `VNChannel_proofs` | the channel's invariant: the bytes under way are framed, and no message is there twice |
| `TelecomLine` | `TLine`, the work thread and the exported calls, and the board as they use it |
| `TelecomLine_proofs` | its invariants and theorems |
| `Reload` | `ReloadService` and `ClientService`, their controls and the pipe |
| `PseudoTcp` | the class of that name, one record per end and one operator per function |
| `Tunnel` | two `PseudoTcpChannel`s, their users, their clocks and the path between them |
| `Tunnel_proofs` | the tunnel's invariant: what each end, and each packet on its way, may be relied on for |
| `MCRedundancy`, `MCRedundancyTimed`, `MCVNChannel`, `MCTunnel` | values of the constants for TLC |

`RedundancyTimed` extends `Redundancy`, `VNServer` extends `VNQueue`, `VNChannel` extends
`VNNetMsg`, `Tunnel` extends `PseudoTcp`; `VNQueue` instantiates `Fifo`. Where one component only relies on another's
contract, its module states the contract: `Deliver` in `Redundancy` is what `VNChannel`
and `VNServer` do in detail.

### 2.1 `Redundancy`

Everything is per server. `main` is the process (off, running, or joining inside
`uninit`). `role`, `mate`, `conn`, `quit`, `report` are the members of the class,
`slots` the send channels VNClib has allocated. `negPc`, `negRole`, `negCount`,
`negPeer` are where `negotiate` stands and its locals; `hbPc`, `errCount` the
same of `heartbeat`. `udp` is what the broadcast socket has buffered, `hbq`
receive queue 0.

Actions follow the code between two points at which the other thread can be
noticed. For `negotiate`: `NegStart` (before the loop), `NegTop` (loop test, role
read, claim), then one action per outcome of the receive: `NegTimeout`,
`NegForeign`, and one per group of cases of the nested `switch`: `NegTieBreak`,
`NegAdopt`, `NegTurnAway`, `NegFollow`, `NegWidow`, `NegInactiveQuit`,
`NegIgnore`. `set_my_role` with a mate is followed by separate steps that store
the address (`NegPair`) and connect (`NegConnect`); losing a mate by `NegDrop`;
`NegLeave` and `NegBye` are the end. For `heartbeat`: `HbTop`, `HbIdle`,
`HbSend`, `HbReceive`, `HbTimeout`, `HbSayQuit`. For the process: `Start`
(constructor and `init`), `MainKey`, `MainReport` (`uninit` up to the wait),
`EndUninit`, `Crash`.

A broadcast reads the role in the same step as it is sent: `broadcast_my_role`
reads it once, and what happens between the read and the send changes neither
what is sent nor anything the other steps of the thread depend on. `NegAdopt`
broadcasts and sets the role in one step: it can only be reached with the role
it has read, because `heartbeat` writes nothing but `PRIMARY_WITHOUT_BACKUP`.
`NegTop` reads and claims in one step for the same reason: `heartbeat` never
writes the role of an undecided server (`ThreadInv`, proved).

`sndText` is the text in `heartbeat`'s own message. The message outlives the loop and
`SetStringParam` refuses a parameter that is there already (`VNNetMsg`), so the text
first said is said for ever after (`TextOf`). See section 5.

`VNSendMsg` reconnects a dead channel by itself, so a message reaches whoever
runs at the other end now; a send into a connection that is gone is one of the
counted faults. `conn` names the connection by the server at its other end;
after `VNDisconnect` it is stale, as in the code, and sending fails.

Left out: the callback of `set_my_role`, logging, malformed datagrams, `init`'s
error returns, and the `RS_Failed` return of `VNRecvMsg`, which needs a queue
that is reset while `heartbeat` runs.

### 2.2 `RedundancyTimed`

`negotiate` waits 500 ms in a receive (one tick), `heartbeat` 1 s in a receive or
idle wait (two). `Tick` happens only when every thread waits, so that whatever
can happen at once happens before time passes; a wait ends early only because
something arrives. `hbTurn` allows one `PING` per tick, as a stand-in for the
round trip: without it two servers would exchange any number of them within one
tick. Crashes and keys come at any moment. Every behaviour is one of
`Redundancy`, with the same action definitions.

`StartsApart` restricts when a server is started, and the restriction is a
statement about the code: without it `AtMostOnePrimary` is false without any
fault. See section 5.

### 2.3 `VNQueue` and `Fifo`

`header`, `tail`, `next`, `msg` and `allocated` are the list as it lies in
memory: a deleted node may be allocated again at once, and `tail` is left
pointing at it when the list runs empty, as in `getNode`. `permits` is the count
of the semaphore, `pc` and `result` where each receiver stands in `VNRecvMsg`
and what it returned last. `Insert` is `insertNode`, `Acquire` and `TimeOut` are
`WaitForQueueNotEmpty`, `Take` is `getNode` with the `RS_Failed` that
`VNRecvMsg` makes of a NULL, `Reset` is `resetQueue`. Each method of the list
holds the critical section throughout and is one step; the wait and the removal
are two. `list` is an auxiliary variable: the nodes in their order, which the
code keeps only implicitly.

`Fifo` has a sequence and four actions. `F!Spec`, with `items` read off `list`
and `msg`, is the property `ImplementsFifo`: acquiring a permit is a stutter,
and there is no abstract step that returns `RS_Failed`.

`Reset` requires that no receiver is between its two steps. That is its caller's
doing: `freeQueueGroup` runs in `uninit` after both threads have been joined.
The POSIX half of the sources is not modelled: it does not compile (`resetQueue`
calls `CloseHandle` in either build).

### 2.4 `VNServer`

Extends `VNQueue`, so the queue's steps are the server's. `headFree`, `tailFree`,
`nextFree` and `recCnt` are the free list of receive slots, `sock` the
channels, `lisPc`/`lisSlot` the listener thread, `reader` and `handle` the reader
thread of each slot and the handle kept of it, `main` and `visited` how far
`uninit` is. `idle` is auxiliary: the free slots in order.

`TakeSlot` and `PutSlot` are `ReduceAFreeChannel` and `AddAFreeChannel`, one step
each because of `m_csArray`. The listener selects, accepts, and starts a reader
in three steps; a reader's receive, insert and end are steps of their own; `uninit`
closes the listener, joins it, disconnects slot after slot, waits for the readers,
deletes the channels, and frees the queue, so that anything may happen between two of
these. The handshake message (`Control`) that the listener sends under the lock either
leaves the channel open or closed.

The list starts with `tailFree = MAXSENDCHAN - 1`: `InitialConnection` sets
`m_nTailFree` from the loop over the send channels. Until the first halt only 256
of the 1024 slots are ever used; `RefusesOnlyWhenFull` says that at least those
are never lost.

### 2.5 `VNNetMsg` and `VNChannel`

A message is a record of the object's fields (`max` for `m_MaxLength`, `pos` for
`m_Pos`) and of what the buffer holds (the header's length and count, the
parameters in order). `AddParam` is the method of that name; `WellFormed` is what
every other method relies on.

`VNChannel` has one caller that composes a message and sends it again and again, as
`heartbeat` does, and the server's reader threads. `sndPc` and `sndPos` are where
`VNSendMsg` and `SendMsgCore` are, `sock` is the send channel's socket, `wire` the bytes
that a connection buffers; `reader`, `got` and `want` are per connection what its
reader thread is waiting for and has. A byte is named by its message and its place
in it, so that a reader that takes the middle of a message for a header can be told;
what length such a header announces is any of `StrayLengths`.

`SendPart` and `RecvHeader`, `RecvBody` take as many bytes as they like. A send that
times out keeps the connection, and so does a header that times out; a body that times
out, and every error, closes it. After a failed send `Reconnect` opens the next
connection, and the server reads both until the first has ended. The client's reader thread
appears as `ClientReaderCloses`: when the server has closed the connection it closes the
socket under the sender. `carried` and `torn` are auxiliary: which messages were begun on
a connection, and whether a timeout has left part of one behind.

### 2.6 `TelecomLine`

`State`, `CallState`, `m_crn` and `Total` are the members of the code. `work` is the one
work thread (`NUM_OF_QUEUES` is 1): waiting, at the mutex, in a handler, or at one of the points in
`setCallState` at which the other thread can be noticed; `app` is a thread of the
application inside `makeCall`. Each handler is an action; `setCallState` is its first
write, and for the states that change the line's state, `WorkSwitch` and `WorkSetState`,
because it reads `CallState` again. A handler that begins with
`mutex_lock(MakeCallMutex); mutex_unlock(MakeCallMutex)` is a `WorkLock` followed by the
handler. `Heard` and `Becomes` are the guards and the results of the handlers of a call.

The board is external: `phase`, `crn` and `events` say which call it has and which
events it has sent, and `Asks` which calls of the library it accepts. `mine` is
auxiliary: the number of the call that `CallState` is about.

Left out: `tel_Initialize` and `tel_Uninitialize` (the model begins with the lines
open), errors that `gc_WaitCall` and `gc_ResetLineDev` return, playing files, tones, `rejectCall` (no caller), and the bookkeeping about why a call
ended. `OnClosed` destroys the mutex: what becomes of a `makeCall` that holds it is
undefined, and `WorkClosed` does not happen then; one that begins before `OnOpened`
creates the mutex again is excluded in `AppMakeCall`.

### 2.7 `Reload`

`at` is where each service's `Run` stands, `event` which of its three events are set,
`status` what it has reported. The loop and the handlers are the same code in both
services and the same actions here; `Works`, `AsksForReload` are what `ClientService` does
in its loop, `Connects`, `Connected`, `Restarts` what `ReloadService` does. A wait with a
time limit ends at once when its event is set, else by its limit.

### 2.8 `PseudoTcp` and `Tunnel`

`PseudoTcp` has no variables: an end is a record of the class's members under their
names, and each function is an operator from the record before to the one after. The packets
it would write and the callbacks it would make are collected in `out` and `told`. `process`
is `Control`, then `Acked` or `AckedAgain`, then `Taken`, which ends in `attemptSend`, in the code's
order; all of congestion control is there (slow start, limited transmit, fast retransmit,
NewReno recovery), for it decides what may be sent. The three loops are functions or
closed forms, not recursive operators, so that they can be proved about: `Rounds` is the loop of
`attemptSend` (each round sends a byte, so the length of the send buffer bounds it), `Freed` the one
that drops what was acknowledged from `m_slist`, and `Reach` the walk over `m_rlist`, which is a set
here because the list is kept in the order of `seq`. Bytes are the numbers 1, 2, ... of
each writer, so that a byte that comes twice, late or from nowhere can be told.

What is left of time: an operator is told which waits are over, and `m_rx_rto` is the number of its
doublings. `idle` says whether the last data were sent longer ago than that when `attemptSend` begins: any
value is possible when a datagram comes, except that a retransmission in the same call has just sent
something (`t.out` is not empty then). A packet with the wrong number, resets (which the code never sends), `NotifyMTU` after
the start, and writes that fail other than by `EMSGSIZE` are left out; sequence numbers do not wrap.
`m_dup_acks` does, after `DupsBound`.

`Tunnel` has an action per entry: `OnChannelWritableState`, `OnChannelRead`, `OnClock`
(`MSG_WK_CLOCK`), `Read`, `Write`, `CloseEnded` and `CloseOpen` (the user's `Close`),
`OnChannelDestroyed`. Each ends with `AdjustClock` as in the code (those of the worker thread by
`Handled`): the clock is set, or the `PseudoTcp` deleted (`gone`). `Read` and `Write` return before
their `AdjustClock`; the clock message that is always under way comes in any case. The events that
the channel posts to its user are `readable` and `writable`. `wire` is the path: `Lose`, `Repeat`
and `Delay` are its faults, `Narrow` a route that carries less, on which larger packets are refused.

A timer of a retransmission or a probe expires when nothing is on its way that would stop
it: a wait is 250 ms at least, 150 ms more than an acknowledgement is delayed. That it expires
before the answer on a slow path is one of the faults. This is an assumption about the path (`Quiet`), not
code; the code only computes the time (`clock_check`).

## 3. The runs

The runs of the protocol, of the server and of the tunnel use `CHECK_DEADLOCK FALSE`: when all
processes have ended and the bound on starts is used up, `uninit` has ended, or both ends have
nothing left to say, nothing is left to happen. The queue's run checks deadlock.

| run | instance | shows |
| --- | --- | --- |
| `redundancy_restart` | 2 servers, 1 kill and restart, 1 loss or 1 key, timeouts at any time (2.4 M states) | `TypeOK`, `NeverMutualBackups`, `RoleSteps` |
| `timed_takeover` | 2 servers, 2 starts, 1 kill, 1 key (1.0 M) | `AtMostOnePrimary`, `GivesUpOnlyTheLost` |
| `timed_pairs` | 2 servers, 2 starts, 1 kill or 1 key, weak fairness (277 k) | `Decides`, `UninitEnds`, `Pairs`, `TakesOver` |
| `timed_clusters` | 3 servers in 2 clusters (630 k) | `PairedKnowsMate` |
| `vnqueue` | 3 nodes, 2 messages, 2 receivers, semaphore up to 2 (33 k) | `TypeOK`, `Linked`, `PermitsBacked`, `NothingStranded`, `ImplementsFifo` |
| `vnserver` | 3 slots, 2 of them in the list, 4 connections, 2 messages, weak fairness (485 k) | `ServerTypeOK`, `FreeListLinked`, `NoUseAfterDelete`, `OneConnectionPerSlot`, `RefusesOnlyWhenFull`, `UninitEnds` |
| `vnchannel` | 2 messages of up to 2 parameters, 2 connections of 3 bytes, 1 fault, weak fairness (200 k) | `ChannelTypeOK`, `InFrame`, `NeverTwice`, `Arrives`, `SendReturns` |
| `telecom` | 1 line, 4 calls, 1 alarm, 1 reset, fairness (1.0 M) | `LineTypeOK`, `Accounted`, `OutboundHeard`, `ActiveHasCall`, `EndedIsReleased` |
| `tunnel` | 2 ends, 1 to 7 bytes, receive buffer of 4, up to 2 faults, fairness (730 k) | `TunnelTypeOK`, `InOrder`, `SegmentsCover`, `WindowKept`, `TimerArmed`, `AbortsOnlyTheDead`, `FlushedBeforeEnd`, `Delivers`, `CloseEnds` |
| `quit_unreported` | 2 servers, 1 key | `NormalQuitIsReported` is violated |
| `quit_unsaid` | 2 servers | `MateIsToldToQuit` is violated |
| `reload_pause` | both services, 3 controls, 2 faults | `PauseWaits` is violated |

Bounds.

* `NEGOTIATE_MAX_COUNT` and `MAX_HEARTBEAT_ERROR_COUNT` are 15 and 3 in the code.
  Untimed they are 1 and 0: a receive may time out whenever nothing is there, so a
  smaller count makes claiming and giving up possible earlier without taking any other
  order away. At 0 a server would claim before it can hear an answer (its own
  first broadcast counts as a round), so 1 is the least that is not degenerate. On
  the clock they are 6 and 1: long enough that a server starts well before another claims,
  and that a mate in its idle wait is not given up; scaling both keeps their ratio
  to the waits on the safe side that the code's values are on.
* `InboxBound` datagrams fit in a socket; more are dropped, as UDP does.
  2 to 4 hold the broadcasts of both servers at once.
* `PingBound` absorbs a `PING` that would lengthen a queue of them. `PING`s are
  all alike and only reset a counter. `QUIT` is never absorbed.
* `MaxStarts`, `MaxCrashes`, `MaxKeys`, `MaxFaults` bound what the outside does.
  Two starts let an incarnation meet what an earlier one sent.
* `negCount` and `errCount` stop one past the value at which the code acts.
* `timed_pairs` has one kill or one key in a behaviour (`KilledOrQuit`; nothing is assumed of either, so the
  constraint takes no fairness away). The key finds the threads anywhere: `negotiate` in a receive,
  `heartbeat` in a receive, an idle wait or about to send. `uninit` begins by the key or by
  negotiation: the `QUIT` of a timely mate never ends a server there, because the broadcast that goes with it
  has ended the pair before.
* Three nodes and two receivers let the list run empty, refill over reused memory,
  and hold more messages than a semaphore of 2 can count (65535 in the code), so
  that both sides of that limit occur.
* Two usable slots and four connections make the free list run empty, refuse a
  connection, and refill in an order other than the initial one, and give a slot to a second
  connection. `MaxMessages` is how much the readers receive in all.
* `redundancy_restart` has one kill and one restart, or one loss, or one key,
  in a behaviour (`OneMishap`), kills and presses keys while no datagram waits to be
  read (`BetweenDatagrams`; heartbeats may wait, and the threads may be
  anywhere), and tells states apart by what some thread will still read (`LiveState`: `negotiate`'s role outside of its receive, and
  its count once the server has decided, are set again before they are read). The
  theorems of section 4 cover any number of losses, kills and restarts.

* A header of 2 bytes and a parameter of 1 (24 and 6 and more in the code): every
  message has a middle, and a connection of 3 bytes is shorter than the longest
  one. `StrayLengths` has a length that ends a frame at once and one that asks for more.
  `MaxFaults` is a send that fails although the server reads, or a server that hangs.
* One line is enough for `TelecomLine`'s races, which are between the threads on one
  line; `CountSpace` is 4, so that the counters wrap. Four calls let an event of one
  call meet the next ones; `MaxEvents` bounds what the board sends of its own accord
  before the work thread has taken what there is, not what the code asks it for. The
  theorems are for any number of lines and calls.

* In `tunnel`, a segment is 2 bytes, or 1 before the connection is open and on the narrow route;
  a receive buffer of 4 and a send buffer of 6 (60 k and 90 k in the code) keep its assertion that the
  latter is larger by more than a segment. Four segments in flight give the three
  duplicate acknowledgements of a fast retransmit, and with two faults a partial acknowledgement in
  recovery. `MaxXmit` and `MaxXmitOpening` (15 and 30) are 4 and 5, above what the faults of a
  run cost; `Patience` is 3. `DupsBound` (255) is 4, which the run reaches and does not exceed; that
  the count begins again after it is covered by the proofs. `MCPlans` pairs what is written with what goes wrong, so that the
  combinations that meet are those that are of interest: two faults on one-way data, one on
  two-way data with a close, no fault with a close and a peer that goes away, and a
  writer that fills every buffer. Of two faults the first is a loss (`LossFirst`); a single one is of any kind.
* The clocks of the two ends are not compared: in the model one may expire any number of times before the other
  does. With a fault and 3 bytes, which `MCPlans` leaves out, that makes `AbortsOnlyTheDead` false: when the
  segment of the first two is lost, Nagle's rule holds the third back, and with it every acknowledgement (section
  5), until the writer's own timer expires; a peer that has sent its control byte `MaxXmitOpening` times by then gives
  the writer up. In the code that is 30 times at 3 s, while the writer's timer begins at 3 s or less, so the
  writer is early enough unless its clock hangs; the model has no measure for it.

Fairness in `RedundancyTimed`: weak fairness of the clock, of each thread and of the main loop, nothing else. The
threads of the code run free, block only with timeouts (`NEGOTIATE_RCV_TIMEOUT`,
`HEARTBEAT_TIMEOUT*2`), and the operating system schedules them; `uninit` and
the main loop wait for events. Nothing assumes that a server is started, a key
pressed, or that the network loses or keeps a message.

Fairness in `VNServer`: the listener goes on (its `select` returns at the latest after
10 microseconds), a reader with a closed socket or a message in hand goes on, and so does `uninit` once
it has begun to close. Nothing is assumed of the peers: a reader whose peer is
silent may wait for ever, until its socket is closed.

Fairness in `VNChannel`: a thread inside `VNSendMsg` goes on, because each of its
waits has a timeout, and so does each reader thread, unless the server hangs. Nothing is
assumed of the caller.

Fairness in `TelecomLine`: the work thread goes on in a handler and takes each
line's events in turn (`sr_waitevtEx` is asked for any of them; strong fairness because the thread
is not always waiting), and `makeCall` goes on. Nothing is assumed of the board's own
events or of the application.

Fairness in `Tunnel`: as long as a worker thread has a datagram or an expired timer, or
a user an event, one of them goes on (`CanWork` is when that is so). That is weak fairness of
all of them together, less than weak fairness of each, and suffices because
every fault-free sequence of their steps ends. It covers the users too: `Delivers` and
`CloseEnds` are about users that answer their events, as `StreamInterface` asks them to.
The path need not lose, keep or narrow anything.

## 4. The proofs

`Redundancy_proofs` proves, for any set of servers, any addresses and cluster
ids, and every value of the bounds (`IpAssumption`, `NobodyAssumption` and
`BoundAssumption` of `Redundancy` are all that is assumed of them):

* `TypeCorrect`: `Spec => []TypeOK`
* `SomebodyLeads`: `Spec => []NeverMutualBackups`
* `MateKnown`: `Spec => []PairedKnowsMate`
* `RoleOrder`: `Spec => RoleSteps`

The invariant is `IInv`, the conjunction of `TypeOK`, `ThreadInv`, `OfferInv`,
`PairedKnowsMate` and `NeverMutualBackups`.

* `ThreadInv` says what a thread may rely on across its own steps although the
  other one runs in between: a role of `WHO_AM_I` or `PRIMARY_WITHOUT_BACKUP`
  that `negotiate` read before it blocked is still the role when it wakes, and
  `heartbeat` is never past its test while the server is undecided. That is why
  the stale copy in `negotiate` is harmless in the cases in which it adopts or
  follows. It also bounds `negCount`, so `TypeOK` alone is not inductive.
* `OfferInv` is about broadcasts in flight. `NeverMutualBackups` could only be
  broken by a server that follows one of its own followers, so an undecided
  server must not have an offer in its socket from one that follows it, nor may two
  undecided servers hold each other's offer (both would accept). The second half
  is kept because an offer is only sent by a server that leads, and because a
  server that starts begins with an empty socket.

`StepKind` sorts the 27 actions into three kinds, `Quiet` (nobody follows anybody
new; only a leader offers itself), `Renewed` (a process starts or ends) and
`Joined` (an undecided server follows one whose offer it has read), and
`OfferNext` and `MutualNext` argue about the kinds alone. `TypeNext`,
`ThreadNext`, `MateNext` and `NextRole` go action by action.

`RedundancyTimed_proofs` proves, with no more assumptions:

* `TimedImplementsUntimed`: `TimedSpec => Spec`, step by step, so that the theorems above
  are about the timely behaviours too
* `TimedMateKnown`: `TimedSpec => []PairedKnowsMate`
* `TimedRoles`: `TimedSpec => []NeverMutualBackups /\ RoleSteps`

`RedundancyPair_proofs` proves what needs time:

* `OnePrimary`: `Healthy => (TimedSpec => []AtMostOnePrimary)`
* `OnlyTheLost`: `Healthy => (TimedSpec => GivesUpOnlyTheLost)`

for any number of crashes, quits and restarts, any `MAX_HEARTBEAT_ERROR_COUNT`, and any
`NEGOTIATE_MAX_COUNT` from 4 on (15 in the code). `Healthy` is about the constants alone,
and the constants of `timed_takeover` satisfy it:

* at most two servers, with one server id: the pair the program is written for. With a
  third server of the cluster `ACTIVE_QUIT_ER` separates pairs (section 5).
* `MaxFaults = 0`: no datagram and no heartbeat is lost, and no connection fails other than by the end
  of its process. The tie-break by address is two broadcasts; if one is lost both
  servers claim.
* `InboxBound >= 2`, `PingBound >= 1`: a socket holds a question and its answer, a queue a `PING`.
  The buffers of the code are far larger.
* `StartGap >= 4`: with fewer rounds left a server that starts has no time to ask and be
  answered before the other claims, and is told of the claim by nobody (section 5).

`OneInv` is `IInv`, the types of the clock, what holds of each server by itself
(`SoloInv`), and `PairInv`: two servers that are up and have not been told to quit are
`Fine`. A state predicate as weak as `AtMostOnePrimary` is far from inductive, for the roles are
decided by what was said rounds ago. `Fine` therefore describes the whole
conversation.

* `Talk` is about `negotiate`. The two sockets hold one question and at most its answer
  (`OneTalk`), which is still true of the one who gave it (`Honest`). Nobody times out
  with something to read between them (`Patient`), so a question is asked into silence. To an undecided
  server a decided one has answered, or the question is on its way (`Answered`). An undecided server
  that is going to lose has the rounds it needs to hear of it before it claims
  (`InTime`: four, or two once its question is with the other); this is where the numbers in `Healthy` come
  from. Each of a pair, once through connecting, holds the other in `m_mate_key`
  and has a channel to it (`Linked`).
* `Fed` is about `heartbeat`, and `Talk` depends on it: a server that gives its mate up
  by mistake is a second primary. `Due` is the ticks until the mate's next
  `PING` at the latest, from where its thread is and how long it has waited. While a pair
  is forming the survivor of an earlier one may have errors left, but is `Calm`; afterwards, in the last
  receive before it gives up, `Due` is less than what is left of the wait.

When one of two paired servers is told to quit, `Fine` ends, and `GivesUpOnlyTheLost` still speaks of
the quitter's last receive. `PartInv` keeps what is needed of `Fine` from then on (`Kept`): the
living one is decided, is asked nothing, and its `PING` comes in time.

The proof of `PairNext` takes one lemma per action of the server that moves (`NegStartStep` to
`NegTimeoutStep`, `HbTopStep` to `HbSendStep`), each for both directions of the pair, then time
(`TickFine`) and starts (`StartFine`). Sockets are treated once, by their possible contents (`Flights`), and
from then on only through what has been `Told` (`Reading`, `Asking`, `Replying`).

`VNQueue_proofs` proves, for any memory, messages, finite set of receivers and
maximum of the semaphore (`NullAssumption`, `SemaphoreAssumption`,
`ConsumersAssumption`):

* `QueueTypeCorrect`: `QueueSpec => []TypeOK`
* `ListLinked`: `QueueSpec => []Linked`
* `PermitsAlwaysBacked`: `QueueSpec => []PermitsBacked`
* `NobodyStrands`: `QueueSpec => NothingStranded`
* `QueueImplementsFifo`: `QueueSpec => ImplementsFifo`

`QueueInv` is `TypeOK`, `Linked` and `PermitsBacked`. `Linked` ties the pointers to
`list`; `PermitsBacked` says that a receiver past its wait still has a
message of its own (`TakerFindsNode`), without which `Take` could return
`RS_Failed` and the refinement would fail. It needs no bound on the messages: a
refused permit only makes permits fewer. The refinement is one lemma per
abstract step (`InsertPuts`, `TakeGets`) on what the change of `list` and `msg`
does to the mapped sequence.

`VNServer_proofs` proves, for any number of slots (`ChannelsAssumption`), peers and
messages:

* `ServerRunsQueue`: every behaviour of the server is one of the queue, so the
  theorems above hold in it
* `ServerTypeCorrect`: `ServerSpec => []ServerTypeOK`
* `FreeListStaysLinked`: `ServerSpec => []FreeListLinked`
* `NothingUsedAfterDelete`: `ServerSpec => []NoUseAfterDelete`
* `SlotsNotShared`: `ServerSpec => []OneConnectionPerSlot`
* `NoSlotLost`: `ServerSpec => RefusesOnlyWhenFull`

`FreeListLinked` ties `headFree`, `tailFree` and `nextFree` to `idle`, and keeps the idle slots
apart from those in use. Without the second part it is not inductive: a slot that is
idle and has a reader would be listed twice when the reader ends. `NoUseAfterDelete` needs
what `uninit` has done so far: the listener has been joined before the first
slot is disconnected, and a reader can only be started by the listener.

`VNChannel_proofs` proves, for any layout of a message with a header and at least two
ids (`LayoutAssumption`), any number of connections, calls and
faults and any buffer (`ChannelAssumption`):

* `ChannelTypeCorrect`: `ChannelSpec => []ChannelTypeOK`
* `ChannelInFrame`: `ChannelSpec => []InFrame`
* `ChannelNeverTwice`: `ChannelSpec => []NeverTwice`

`InFrame` speaks of the queue, where the bytes end up; nothing inductive can be said there.
`ChannelInv` is about the stream of a connection: what its reader has of the current
message, followed by what is on the wire.

* `StreamInv`: the stream of an untorn connection that is read begins with the first
  byte of the next message the connection carries (`Begins`), goes on inside a message from
  each byte to the next (`Runs`), passes from the last byte of a message to the first of the
  one carried after it (`Joins`), and ends where the sender is (`Ends`). A reader that
  waits for the rest of a message waits for as many bytes as the message has (`Waits`).
* `OnceInv`: the last byte of a message is in one place at most, of all streams and
  the queue, and in none while its call has still to write it. A failed send may leave
  the rest of a message in two streams, never its end.
* `SenderInv` ties the two to where `VNSendMsg` is: what a connection carries rises,
  ends with the call under way once that has written, and is nothing before the
  connection is opened.

`WriteKeepsFrame` and `TakeKeepsFrame` are the two facts about sequences of bytes that
carry the proof: what a write puts behind a stream in frame, and what is left when the
reader takes the first message off it. The steps are one lemma per kind: calls
(`BeginSendStep`), writes (`SendPartStep`), readers (`ReaderStep`, by way of `ReaderInserts`
and `ReaderCalm`), and those that only lose or wait (`CalmStreams`).

`TelecomLine_proofs` proves, for any finite set of lines and any number of calls,
alarms and resets (`LineAssumption`):

* `LineTypeCorrect`: `TelSpec => []LineTypeOK`
* `NoEventBeforeItsCall`: `TelSpec => []OutboundHeard`
* `NoLineActiveWithoutCall`: `TelSpec => []ActiveHasCall`
* `CountersAgree`: `TelSpec => []Accounted`

The second needs only that no event carries the number of a call that has not
been made (`Numbered`): the number is stored and the mutex taken in the same step of
`makeCall`, so an event of that call is taken by the work thread afterwards, and its
handler waits. The third rests on two invariants of a line that is never reset.
`Teardown` orders the end of a call: at most one `GCEV_DROPCALL` and one
`GCEV_RELEASECALL` are under way, nothing of either kind follows them, and a release that is
still to be reported is that of the call in `CallState`. Hence `makeCall` finds
`CALLSTATE_INVALID` only when no release is in hand, and `OnReleased` cannot take the state of the
call that has just been registered (`Activated`: whoever is about to count a line as
active has a call for it). A reset breaks `Teardown`, see section 5. `Accounted` is inductive
beside the types: `setState` takes a line out of one counted set and puts it into another
(`SetStateCounts`), and a counter that goes up or down modulo the width of `unsigned`
follows the number it stands for (`CountUp`, `CountDown`), even below zero, where the counter of
`CLOSED` begins when there are more lines than its start value. The remainders are
reasoned about by their uniqueness (`SameRemainder`): division by a constant that is a
parameter is not something the SMT backend knows more of than its definition.

`Tunnel_proofs` proves, for any two ends, any plan (any number of bytes, faults, closes and
sessions that go away), any buffers and any limits (`TcpAssumption`, `TunnelAssumption`):

* `TypeCorrect`: `TunnelSpec => []TunnelTypeOK`
* `ReadsInOrder`: `TunnelSpec => []InOrder`
* `SlistCovers`: `TunnelSpec => []SegmentsCover`
* `WindowsKept`: `TunnelSpec => []WindowKept`
* `TimersArmed`: `TunnelSpec => []TimerArmed`
* `FlushedFirst`: `TunnelSpec => FlushedBeforeEnd`

What is assumed of the constants the code's values satisfy: packet sizes fall from one entry of
`PACKET_MAXIMUMS` to the next, the send buffer is larger than the receive buffer by more than a first
segment (the constructor asserts it), and two of the largest segments are no more
than both buffers together (2 * 65535 < 60 K + 90 K), on which the bound `CwndBound` of the
congestion window relies.

None of the six is inductive, nor are they all together. That a buffer is covered by segments depends on
every acknowledgement ending a segment; what is acknowledged is what the other end has counted, which is
what came in packets, and those were cut from segments, which may have been split, or partly lost,
since. `TunnelInv` has one part for each of these.

* `TcpInv`: each end that is there is `Sound` towards the other one. `Line`: its segments are a chain
  from `m_snd_una` to the end of the buffer, the buffer holds the bytes of those numbers, and what was sent
  is within what the other announced (`Edge`). `Ear`: what it has counted is a point at which the other may be
  acknowledged (`AtPoint`: below `m_snd_una`, or the end of a sent segment), and the receive buffer holds byte
  `b` at its place, in order or saved behind a gap (`Saved`). `Pace`: the segment size is one of the
  table's. `Says`: the packets it is about to write are good.
* `WireInv`: so is every packet on its way (`Between`): its data are the bytes of their numbers and end at a
  point of the sender's, its acknowledgement is a point of the receiver's and no more than the sender has
  counted, its window no more than the sender keeps.
* `UserInv`: what the users have written and read is what the buffers say (`Stream`).

What carries the proof is `Onward`: an operation of one end only moves its numbers up, keeps its edge, and keeps
every point a point. A packet that was good stays good however late it comes, or how often, and the other
end stays sound without a look at it; hence loss, repetition and reordering need no argument of their own.
`ChainCut`, `ChainFirst` and the lemmas about `Freed` are what splitting, sending and dropping do to a chain; on top
of them each operator of `PseudoTcp` has a lemma that it keeps `Sound` and goes `Onward` (`SendSound` and
its like), and each action of `Tunnel` one that takes these to `TunnelInv`. The functions over numbers
(`Rounds`, `Left`) are reasoned about by the least number at which a statement fails (`WFMin`).
`FlushedFirst` follows from the invariant and its next state: an end that deletes itself after a graceful
close has nothing in its buffer left, so its `m_snd_una`, which the other has counted, is behind all that was
written.

Only model-checked:

* `AbortsOnlyTheDead`, because it is not true of every plan: with at least `MaxXmit` faults the same segment can be
  lost as often as the code is willing to send it, and then a living peer is given up; and with fewer faults it
  needs clocks that keep pace (section 3, on the plan of 3 bytes). A statement for every plan would need a
  measure of time and, for each segment, the history of its losses.
* liveness (`Decides`, `UninitEnds`, `TakesOver`, `Pairs`, `Arrives`, `SendReturns`, `EndedIsReleased`,
  `Delivers`, `CloseEnds`): TLAPS has no reasoning about fairness.

## 5. What the code does that a reader may not expect

Found by the violation runs, each against a comment of the code:

* A quit may be announced under another role: `heartbeat` overwrites
  `ACTIVE_QUIT_ER` (fool_redundancy.cpp:364) before the broadcast of line 302.
* `QUIT` is not said: `heartbeat` fills one message again and again, and
  `SetStringParam` refuses a parameter that is there already. A mate that is given up
  after the first `PING` (fool_redundancy.cpp:367) is sent another `PING`.
* A paused service ends: the event that asks for the pause is still set when the
  service looks whether another one has come (ReloadService.cpp:56, ClientService.cpp:52).

Met while looking for conditions under which `AtMostOnePrimary` holds; none of
them contradicts a statement of the repository, and `StartsApart` excludes them:

* A server that starts in the last rounds before another claims becomes primary
  next to it: the claim is not announced, and an undecided server only
  broadcasts when a receive times out. Its own broadcasts count as rounds too,
  so a server claims after about half of 15 * 500 ms.
* Datagrams of another cluster count as rounds, and as long as they keep coming
  a server never times out to announce itself.
* A survivor that gives its mate up while it waits in `negotiate` answers a
  newcomer by the old role: it announces itself as a lone primary, the newcomer
  becomes its backup, and the survivor does not adopt it.

* `ACTIVE_QUIT_ER` of any server of the cluster separates a pair (214-226): `remote_ip` is
  not compared with the mate's. A cluster is meant to have two servers, and the runs
  have no third of the same one.

In VNClib, with `torn` in `VNChannel` marking the connections concerned:

* `RecvHeader` gives up after 10 ms of silence in the middle of a header and `RecvMsg`
  forgets the part it has read (VNChannel.cpp:363). A comment (324) says that the timeout means
  that nothing was received. `SendMsgCore` gives up after a second in the middle of a message
  and keeps the connection (525). From then on the reader is out of frame.

In TelecomDll:

* A line that is free from the first (no `GCEV_BLOCKED`) stays `UNINITIALIZED`, since
  `OnUnblock` only leaves `BLOCKING`; `OnSeizureDetected` then ignores its first incoming call, whose
  `GCEV_DROPCALL` finds `CALLSTATE_INVALID` and does not release it (728). The same after a reset.
  `EndedIsReleased` is about calls that the line knows of (`mine`).
* A `makeCall` right after the board has released the last call, before `GCEV_RELEASECALL` has been
  handled, is not registered (662), and that call is not released either.
* `setCallState` may write `IDLE` over a line whose outgoing call has just made it
  `ACTIVE`: the board's call goes on, and the line looks idle.
* `OnUnblock` during a call, and `OnReleased` on a blocked line, make the line `IDLE`.
* A call that is abandoned between `GCEV_DETECTED` and `GCEV_OFFERED` leaves the last call's
  number in `m_crn`; hanging up is then about a call that is gone.
* A reset (505-525) keeps `CallState` and the events from before it. A late `GCEV_OFFERED` gives
  `m_crn` the number of a gone call, a late `GCEV_DROPCALL` releases the next one, and after
  some more calls a line can be `ACTIVE` without a call for good. It was the proof of
  `Teardown` that showed it; `ActiveHasCall` and `EndedIsReleased` are therefore about lines that
  are never reset (`fatal`).
* `acceptCall` returns `FALSE` when the library has accepted the request (211); the other
  calls test the opposite.

In Reload:

* A service's loop only notices that it has been stopped between two requests:
  `ReloadService` waits in `ConnectNamedPipe` without limit (63).
* A client that fails again before `ReloadService` has disconnected the pipe, or before its
  first `ConnectNamedPipe`, is not restarted; nor is one that has not stopped after
  three seconds (77).

In libjingle's tunnel:

* A probe of a closed window doubles the wait for the next one, and `NotifyClock` gives up
  when the last answer is 15 s old by then (pseudotcp.cc:333): a connection whose reader
  pauses for about half a minute is ended although the peer answers every probe.
  `AbortsOnlyTheDead` excepts a closed window for that reason.
* An acknowledgement that is due is not sent when Nagle's rule holds data back (1013): the
  return skips it, although the comment above `sflags` (782) says when acknowledgements must be sent. A
  retransmission of the one who holds back brings it, so `Delivers` holds; until then the other end
  sends again and again what has long arrived.
* `AdjustClock` at the end of `Read` and `Write` is never reached (pseudotcpchannel.cc:237,
  259): what `Write` sends has its timer looked at with the clock that was set before, up to four seconds
  late.

## 6. What is not modelled

* `VNConnect`, `VNDisconnect` and `ClearChannelHandle` in detail, and broadcasts: only by
  the contract that `Redundancy` uses. Nothing in `VNClib` keeps one thread from deleting
  a channel that another is sending on, so a model of them together would mostly be about
  undefined behaviour; the hazards are listed.
* `CVNChannel`'s UDP mode and raw `SendData`/`RecvData`, the single-field getters and setters of
  `CVNNetMsg`, the helpers of `foolbear.cpp`, the tools of 1.6: sequential, or plain
  input and output.
* Third-party code other than the tunnel: not this project's. It is also nearly all of the repository: of its
  158 589 lines of implementation, `g729_IPP` (most of them headers of Intel's
  libraries), `libjingle-0.4.0` and the copies of `NTService` make up the greater part by
  far. The share of lines that the map covers is therefore small, though the
  repository's own concurrent code is mostly covered.
* The line models leave out opening and closing the board, files and tones, and the errors of two calls of the
  library: `gc_WaitCall` (after which `OnUnblock` is skipped, Line.cpp:405 and 518) and `gc_ResetLineDev`
  (507) always succeed.
* In `Redundancy`, memory safety (channels deleted under a sender, the callback
  assigned late): below that model, listed as hazards.
* In `VNServer`, failures of `VNListen`, of memory allocation and of thread
  creation.

## 7. The plan

Done: the protocol (`Redundancy`, `RedundancyTimed`), the queue as an
implementation of `Fifo`, the receiving side, the framing, the telephone lines and libjingle's tunnel, each
with proofs; the services.

Left, in order of worth:

1. `Redundancy` refined: an abstract pair (who leads, who follows) that the
   protocol implements from the moment a pair has formed.
2. `TelecomLine` with the board opened and closed by `tel_Initialize` and
   `tel_Uninitialize`, and several work threads.
3. `VNConnect` and `VNDisconnect` in detail, for one thread that uses them.
4. `AbortsOnlyTheDead` for every plan with fewer faults than `MaxXmit`, on a clock that counts time, with the
   losses of each segment as an auxiliary variable.
