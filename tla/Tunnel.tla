------------------------------- MODULE Tunnel -------------------------------
(***************************************************************************)
(* Two PseudoTcpChannels of libjingle's tunnel and the datagrams between    *)
(* them: each has a PseudoTcp, a stream that its user reads, writes and     *)
(* closes, and a clock message that calls NotifyClock.  The lock cs_ makes  *)
(* each call one step.                                                      *)
(*                                                                          *)
(* Datagrams are kept in order, but the path may lose, repeat and swap      *)
(* them, as often as the plan says, and may come to carry only smaller ones.   *)
(* A clock is timely: a retransmission is due when what it waits for is     *)
(* neither on its way nor about to be sent, for an acknowledgement is late  *)
(* by 100 ms and the wait is 250 ms at least.  Otherwise the path is slow,  *)
(* which is one of its faults.                                              *)
(***************************************************************************)
EXTENDS PseudoTcp

CONSTANTS
  End, Initiator,    \* the two ends; the one whose session was initiated here
  Chunks,            \* how many bytes a user writes or reads at once
  Plans              \* how many bytes each user writes, how often the path
                     \* fails, which users close the stream while it is open
                     \* and whose session may go away under them

ASSUME TunnelAssumption ==
  /\ (\E p, q \in End : p # q /\ End = {p, q}) /\ Initiator \in End
  /\ Chunks \subseteq Nat \ {0}
  /\ Plans \subseteq [write : [End -> Nat], faults : Nat,
                      close : SUBSET End, destroy : SUBSET End]

VARIABLES
  tcp,        \* of each end, its PseudoTcp
  gone,       \* whether the end has deleted it
  wire,       \* datagrams on their way to the end
  plan,       \* the plan of this behaviour
  path,       \* data bytes that a datagram can carry
  readable,   \* whether the user has an event SE_READ to answer
  writable,   \* whether it has SE_WRITE, or has not been told to wait
  written,    \* bytes that Send has taken: they are numbered from 1
  got,        \* bytes that Recv has returned
  faults      \* how often the path has failed

users   == <<readable, writable, written, got>>
budgets == <<plan, path, faults>>
tunnel  == <<tcp, gone, wire, users, budgets>>

Peer(p) == CHOOSE q \in End : q # p

\* The end's PseudoTcp becomes t: its packets leave, its callbacks post events
\* to a user whose stream is open.  rest is still to be read.
Becomes(p, t, rest) ==
  /\ tcp' = [tcp EXCEPT ![p] = [t EXCEPT !.out = <<>>, !.told = {}]]
  /\ wire' = [wire EXCEPT ![Peer(p)] = IF gone[Peer(p)] THEN <<>> ELSE @ \o t.out,
                          ![p] = IF gone'[p] THEN <<>> ELSE rest]

Hears(p, t) ==
  /\ readable' = [readable EXCEPT
       ![p] = @ \/ (t.shutdown = "NONE" /\ t.told \cap {"open", "read"} # {})]
  /\ writable' = [writable EXCEPT
       ![p] = @ \/ (t.shutdown = "NONE" /\ t.told \cap {"open", "write"} # {})]
  /\ UNCHANGED <<written, got>>

\* AdjustClock: the next clock message, or the end of the PseudoTcp.
AdjustClock(p, t) == gone' = [gone EXCEPT ![p] = ~ clock_check(t)]

\* What each handler of the worker thread ends with, once its call has made t.
Handled(p, t, rest) == AdjustClock(p, t) /\ Becomes(p, t, rest) /\ Hears(p, t)

TunnelInit ==
  /\ tcp = [p \in End |-> NewTcp] /\ gone = [p \in End |-> FALSE]
  /\ wire = [p \in End |-> <<>>] /\ path = Mss[1] /\ plan \in Plans
  /\ readable = [p \in End |-> FALSE] /\ writable = [p \in End |-> FALSE]
  /\ written = [p \in End |-> 0] /\ got = [p \in End |-> <<>>]
  /\ faults = 0

-----------------------------------------------------------------------------
(* The worker thread.                                                      *)

OnChannelWritableState ==
  /\ ~ gone[Initiator] /\ tcp[Initiator].state = "LISTEN"
  /\ \E idle \in BOOLEAN :
       Handled(Initiator, Connect(tcp[Initiator], idle, path), wire[Initiator])
  /\ UNCHANGED budgets

OnChannelRead(p) ==
  /\ ~ gone[p] /\ wire[p] # <<>>
  /\ \E idle \in BOOLEAN :
       Handled(p, process(tcp[p], Head(wire[p]), idle, path), Tail(wire[p]))
  /\ UNCHANGED budgets

\* What is assumed of the path: a wait is over only when nothing that would
\* answer what an end has sent is under way.
Quiet == \A p \in End : wire[p] = <<>> /\ (gone[p] \/ ~ tcp[p].t_ack)

Armed(t) ==
  (IF t.rto THEN {"rto"} ELSE {}) \union (IF t.snd_wnd = 0 THEN {"probe"} ELSE {})
    \union (IF t.t_ack THEN {"ack"} ELSE {})

\* MSG_WK_CLOCK.
OnClock(p) ==
  /\ ~ gone[p] /\ tcp[p].state # "CLOSED"
  /\ \E due \in SUBSET Armed(tcp[p]) \ {{}} :
       /\ IF due \subseteq {"ack"} \/ Quiet THEN faults' = faults
          ELSE faults < plan.faults /\ faults' = faults + 1
       /\ Handled(p, NotifyClock(tcp[p], due, path), wire[p])
  /\ UNCHANGED <<plan, path>>

-----------------------------------------------------------------------------
(* The stream's user.                                                      *)

\* After a wait as long as a retransmission's an idle end starts slowly again.
Idle(p) == IF InFlight(tcp[p]) = 0 /\ Quiet THEN BOOLEAN ELSE {FALSE}

\* A read that returns bytes is followed by another; one that would block
\* waits for the next event.  Before the stream is open and after it has ended,
\* a read or a write fails without effect.
Opened(p) == ~ gone[p] /\ tcp[p].shutdown = "NONE" /\ tcp[p].state = "ESTABLISHED"

\* Mutant: only PseudoTcp tells that there is something to read.
PostsNothing(p) == FALSE

\* A read that returned bytes posts SE_READ again.
PostsRead(p) == tcp[p].rlen > 0

Read(p) ==
  /\ Opened(p) /\ readable[p] /\ UNCHANGED gone
  /\ \E n \in Chunks, idle \in Idle(p) : Becomes(p, Recv(tcp[p], n, idle, path), wire[p])
  /\ got' = [got EXCEPT ![p] = @ \o SubSeq(tcp[p].rbuf, 1, tcp[p].rlen - tcp'[p].rlen)]
  /\ readable' = [readable EXCEPT ![p] = PostsRead(p)]
  /\ UNCHANGED <<writable, written, budgets>>

ToWrite(p) == [i \in 1 .. plan.write[p] - written[p] |-> written[p] + i]

Write(p) ==
  /\ Opened(p) /\ writable[p] /\ ToWrite(p) # <<>> /\ UNCHANGED gone
  /\ \E n \in Chunks, idle \in Idle(p) :
       LET data  == SubSeq(ToWrite(p), 1, Smaller(n, Len(ToWrite(p))))
           space == SndBufSize - Len(tcp[p].sbuf)
       IN /\ Becomes(p, Send(tcp[p], data, idle, path), wire[p])
          /\ written' = [written EXCEPT ![p] = @ + Smaller(Len(data), space)]
          /\ writable' = [writable EXCEPT ![p] = space > 0]
  /\ UNCHANGED <<readable, got, budgets>>

Shut(p, how) ==
  LET t == [tcp[p] EXCEPT !.shutdown = how] IN
  /\ ~ gone[p]
  /\ AdjustClock(p, t) /\ Becomes(p, t, wire[p])
  /\ readable' = [readable EXCEPT ![p] = FALSE] /\ writable' = [writable EXCEPT ![p] = FALSE]
  /\ UNCHANGED <<written, got, budgets>>

\* A user closes a stream that has ended, and an open one if it likes.
CloseEnded(p) == tcp[p].state = "CLOSED" /\ tcp[p].shutdown = "NONE" /\ Shut(p, "GRACEFUL")
CloseOpen(p)  ==
  /\ p \in plan.close /\ tcp[p].state # "CLOSED" /\ tcp[p].shutdown = "NONE"
  /\ Shut(p, "GRACEFUL")

\* OnChannelDestroyed, on the signalling thread.
OnChannelDestroyed(p) == p \in plan.destroy /\ Shut(p, "FORCEFUL")

-----------------------------------------------------------------------------
(* The path.                                                               *)

Fault ==
  /\ faults < plan.faults /\ faults' = faults + 1
  /\ UNCHANGED <<tcp, gone, users, plan, path>>

Lose(p) == \E i \in 1 .. Len(wire[p]) : wire' = [wire EXCEPT ![p] = RemoveAt(@, i)] /\ Fault
Repeat(p) == wire[p] # <<>> /\ wire' = [wire EXCEPT ![p] = Append(@, Head(@))] /\ Fault
Delay(p) ==
  \E i \in 1 .. Len(wire[p]) - 1 :
    wire' = [wire EXCEPT ![p] = Append(RemoveAt(@, i), @[i])] /\ Fault

\* Another route, with the next smaller size.
Narrow ==
  /\ \E i \in 2 .. Len(Mss) : path = Mss[i - 1] /\ path' = Mss[i]
  /\ UNCHANGED <<tcp, gone, wire, users, plan, faults>>

User(p)   == Read(p) \/ Write(p) \/ CloseEnded(p)
Worker(p) == OnChannelRead(p) \/ OnClock(p)

TunnelNext ==
  \/ OnChannelWritableState
  \/ \E p \in End : \/ OnChannelRead(p) \/ OnClock(p)
                    \/ Read(p) \/ Write(p) \/ CloseEnded(p) \/ CloseOpen(p)
                    \/ OnChannelDestroyed(p) \/ Lose(p) \/ Repeat(p) \/ Delay(p)
  \/ Narrow

TunnelSpec == TunnelInit /\ [][TunnelNext]_tunnel

\* The worker thread handles its messages, timers expire and users answer
\* their events: an end takes a step as long as it has one to take.  That is
\* written with its enabling condition, the guards of Worker and User; the other
\* steps that leave the path alone are taken once at most.
CanWork ==
  \/ ~ gone[Initiator] /\ tcp[Initiator].state = "LISTEN"
  \/ \E p \in End : /\ ~ gone[p]
                    /\ \/ wire[p] # <<>>
                       \/ tcp[p].state # "CLOSED" /\ tcp[p].t_ack
                       \/ tcp[p].state # "CLOSED" /\ Armed(tcp[p]) # {} /\ Quiet
                       \/ Opened(p) /\ (readable[p] \/ (writable[p] /\ ToWrite(p) # <<>>))
                       \/ tcp[p].shutdown = "NONE" /\ tcp[p].state = "CLOSED"

TunnelFairness == []<>~ CanWork \/ []<><<UNCHANGED <<path, faults>>>>_tunnel

TunnelFairSpec == TunnelSpec /\ TunnelFairness

-----------------------------------------------------------------------------
(* Properties.                                                             *)

Bytes(p) == [i \in 1 .. written[p] |-> i]

\* The states are those of the enums, neither buffer holds more than it can,
\* and the congestion window is never shut.
TunnelTypeOK ==
  \A p \in End :
    LET t == tcp[p] IN
    /\ t.state \in {"LISTEN", "SYN_SENT", "SYN_RECEIVED", "ESTABLISHED", "CLOSED"}
    /\ t.shutdown \in {"NONE", "GRACEFUL", "FORCEFUL"}
    /\ {t.rlen, t.rcv_wnd} \subseteq 0 .. RcvBufSize /\ Len(t.sbuf) \in 0 .. SndBufSize
    /\ t.cwnd \in 1 .. CwndBound /\ t.dup_acks \in 0 .. DupsBound
    /\ t.doublings \in 0 .. Patience /\ t.mss \in {FirstMss} \union Range(Mss)
    /\ {gone[p], readable[p], writable[p]} \subseteq BOOLEAN

\* What a user has read, and what waits in the buffer to be read, is what the
\* other user has written, in order, whatever the path did to the datagrams.
InOrder ==
  \A p \in End : ~ gone[p] =>
    IsPrefix(got[p] \o SubSeq(tcp[p].rbuf, 1, tcp[p].rlen), Bytes(Peer(p)))

\* The segments cover the bytes one after the other, and those that were sent
\* are those below m_snd_nxt.
Covered(t) ==
  LET s == t.slist IN
  /\ \A i \in 1 .. Len(s) :
       /\ s[i].seq = IF i = 1 THEN t.snd_una ELSE s[i - 1].seq + s[i - 1].len
       /\ s[i].len > 0 /\ (s[i].xmit > 0 <=> s[i].seq < t.snd_nxt)
       /\ s[i].xmit > 0 => s[i].seq + s[i].len <= t.snd_nxt
  /\ Len(t.sbuf) = IF s = <<>> THEN 0 ELSE s[Len(s)].seq + s[Len(s)].len - t.snd_una

\* Of an open end, m_slist covers m_sbuf: an acknowledgement never ends inside
\* a segment, and a retransmission finds its bytes.
SegmentsCover == \A p \in End : tcp[p].state # "CLOSED" => Covered(tcp[p])

\* The window that is announced fits into the buffer, and nothing is sent
\* beyond what was announced, so that no byte that arrives is turned away.
WindowKept ==
  \A p \in End : ~ gone[p] /\ ~ gone[Peer(p)] =>
    /\ tcp[p].rcv_wnd + tcp[p].rlen <= RcvBufSize
    /\ tcp[p].snd_nxt <= tcp[Peer(p)].rcv_nxt + Larger(tcp[Peer(p)].rcv_wnd, 1)

\* m_rto_base is set while something is in flight, and only then: NotifyClock
\* never finds it set with nothing to send, and nothing is sent and forgotten.
TimerArmed ==
  \A p \in End : tcp[p].state # "CLOSED" => (tcp[p].rto <=> InFlight(tcp[p]) > 0)

\* An end that is told to close while it is open is deleted only when the
\* other one has all of its bytes.
FlushedBeforeEnd ==
  [][\A p \in End :
       /\ ~ gone[p] /\ gone'[p] /\ tcp'[p].shutdown = "GRACEFUL"
       /\ tcp'[p].state = "ESTABLISHED" /\ ~ gone[Peer(p)]
       => tcp[Peer(p)].rcv_nxt > written[p]]_tunnel

\* Whether an end has stopped, or is about to.
Ending(p) == gone[p] \/ tcp[p].shutdown # "NONE" \/ tcp[p].state = "CLOSED"

\* An end gives up only a peer that has gone, or whose window stays shut: not
\* one that a few datagrams were lost to.
AbortsOnlyTheDead ==
  \A p \in End : tcp[p].state = "CLOSED" =>
    gone[Peer(p)] \/ tcp[Peer(p)].state = "CLOSED" \/ tcp[p].snd_wnd = 0

\* The connection opens and everything that its users write is read, unless an
\* end stops.
Delivers ==
  \A p \in End :
    (\A q \in End : ~ Ending(q)) ~>
      (Len(got[p]) = plan.write[Peer(p)] \/ \E q \in End : Ending(q))

\* An end that is told to close is deleted in the end.
CloseEnds == \A p \in End : (tcp[p].shutdown # "NONE") ~> gone[p]

=============================================================================
