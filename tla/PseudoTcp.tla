----------------------------- MODULE PseudoTcp -----------------------------
(***************************************************************************)
(* Class PseudoTcp of libjingle: TCP over datagrams, for one end of the     *)
(* connection.  An end is a record t of its fields, and each function is an *)
(* operator from the record before to the record after.  What it hands to   *)
(* its owner on the way is collected in two fields: out, the packets given  *)
(* to TcpWritePacket, and told, the callbacks made.                         *)
(*                                                                          *)
(* A byte is a number; bytes are numbered per end, the control byte being   *)
(* byte 0.  Time is left out: an operator is told which waits are over, and *)
(* the retransmission time is kept as the number of its doublings.  Resets, *)
(* which nobody sends, and a write that fails are left out too.             *)
(***************************************************************************)
EXTENDS Integers, Sequences, SequencesExt, FiniteSetsExt

CONSTANTS
  RcvBufSize, SndBufSize,        \* kRcvBufSize, kSndBufSize
  FirstMss,                      \* MIN_PACKET less the headers
  Mss,                           \* PACKET_MAXIMUMS less the headers
  MaxXmit, MaxXmitOpening,       \* sends of a segment: 15, and 30 to open
  Patience,                      \* doublings after which a probe waits 15 s
  DupsBound                      \* m_dup_acks is an 8-bit count: 255

ASSUME TcpAssumption ==
  /\ {RcvBufSize, SndBufSize, FirstMss, MaxXmit, MaxXmitOpening, Patience,
      DupsBound} \subseteq Nat \ {0}
  /\ RcvBufSize + FirstMss < SndBufSize /\ 2 * FirstMss <= RcvBufSize + SndBufSize
  /\ Mss \in Seq(Nat \ {0}) /\ Mss # <<>> /\ 2 * Mss[1] <= RcvBufSize + SndBufSize
  /\ \A i, j \in 1 .. Len(Mss) : i < j => Mss[j] < Mss[i]

CTL_CONNECT == 0
Garbage     == -1   \* a byte of m_rbuf that nothing was written to

\* A window larger than both buffers lets no more through.
CwndBound == RcvBufSize + SndBufSize

Smaller(a, b) == IF a < b THEN a ELSE b
Larger(a, b)  == IF a < b THEN b ELSE a
Cwnd(n) == Smaller(n, CwndBound)

NewTcp ==
  [state |-> "LISTEN", shutdown |-> "NONE",
   sbuf |-> <<>>, slist |-> <<>>, snd_una |-> 0, snd_nxt |-> 0, snd_wnd |-> 1,
   rbuf |-> [i \in 1 .. RcvBufSize |-> Garbage], rlen |-> 0, rcv_nxt |-> 0,
   rcv_wnd |-> RcvBufSize, rlist |-> {},
   readEnable |-> TRUE, writeEnable |-> FALSE,
   t_ack |-> FALSE, rto |-> FALSE, doublings |-> 0,
   msslevel |-> 1, mss |-> FirstMss, cwnd |-> 2 * FirstMss, ssthresh |-> RcvBufSize,
   dup_acks |-> 0, recover |-> 0,
   out |-> <<>>, told |-> {}]

InFlight(t) == t.snd_nxt - t.snd_una

-----------------------------------------------------------------------------
(* Sending.                                                                *)

\* Room for len bytes, and a segment for them: the last one, unless it has
\* been sent or is of another kind.
queue(t, data, ctl) ==
  LET d    == SubSeq(data, 1, Smaller(Len(data), SndBufSize - Len(t.sbuf)))
      n    == Len(t.slist)
      open == n > 0 /\ t.slist[n].ctl = ctl /\ t.slist[n].xmit = 0
      seg  == [seq |-> t.snd_una + Len(t.sbuf), len |-> Len(d), ctl |-> ctl, xmit |-> 0]
      list == IF open THEN [t.slist EXCEPT ![n].len = @ + Len(d)] ELSE Append(t.slist, seg)
  IN [t EXCEPT !.sbuf = @ \o d, !.slist = list]

packet(t, seq, ctl, data) ==
  [t EXCEPT !.out = Append(@, [seq |-> seq, ctl |-> ctl, ack |-> t.rcv_nxt,
                               wnd |-> t.rcv_wnd, data |-> data]),
            !.t_ack = FALSE]

\* Mutant: the first part keeps its length.
SplitUncut(t, i, n) ==
  LET s == t.slist[i]
  IN IF n < s.len
       THEN [t EXCEPT !.slist =
               InsertAt(@, i + 1, [s EXCEPT !.seq = @ + n, !.len = @ - n])]
       ELSE t

\* A segment is cut in two; both parts have been sent as often as it was.
Split(t, i, n) ==
  LET s == t.slist[i]
  IN IF n < s.len
       THEN [t EXCEPT !.slist =
               InsertAt([@ EXCEPT ![i].len = n], i + 1,
                        [s EXCEPT !.seq = @ + n, !.len = @ - n])]
       ELSE t

mayTransmit(t, i) ==
  t.slist[i].xmit < IF t.state = "ESTABLISHED" THEN MaxXmit ELSE MaxXmitOpening

\* WR_TOO_LARGE: down to the first size that the path takes.
Fit(t, n, path) ==
  IF n <= path
    THEN t
    ELSE LET l == Min({k \in t.msslevel + 1 .. Len(Mss) : Mss[k] <= path})
         IN [t EXCEPT !.msslevel = l, !.mss = Mss[l], !.cwnd = 2 * Mss[l]]

transmit(t, i, path) ==
  LET f == Fit(t, Smaller(t.slist[i].len, t.mss), path)
      n == Smaller(t.slist[i].len, f.mss)
      s == t.slist[i]
      p == packet(f, s.seq, s.ctl, SubSeq(t.sbuf, s.seq - t.snd_una + 1,
                                                  s.seq - t.snd_una + n))
  IN [Split(p, i, n) EXCEPT !.slist[i].xmit = @ + 1,
                            !.snd_nxt = IF s.xmit = 0 THEN @ + n ELSE @,
                            !.rto = TRUE]

\* Mutant: the windows are forgotten.
AvailableAtOnce(t) == Smaller(Len(t.sbuf) - InFlight(t), t.mss)

\* What may be sent now: a segment, as far as the windows allow, unless that
\* is so little that it is better to wait (RFC 813).
Available(t) ==
  LET limited == IF t.dup_acks \in {1, 2} THEN t.dup_acks * t.mss ELSE 0
      window  == Smaller(t.snd_wnd, t.cwnd + limited)
      useable == Larger(window - InFlight(t), 0)
      wanted  == Smaller(Len(t.sbuf) - InFlight(t), t.mss)
  IN IF wanted <= useable THEN wanted
     ELSE IF useable * 4 < window THEN 0 ELSE useable

\* Nothing to send, or a remainder that waits for the acknowledgement of what
\* is in flight (Nagle).
Waits(t) == Available(t) = 0 \/ (InFlight(t) > 0 /\ Available(t) < t.mss)

\* The first segment that was not sent yet, or as much of it as is available.
SendNext(t, path) ==
  LET i == SelectInSeq(t.slist, LAMBDA s : s.xmit = 0)
  IN transmit(Split(t, i, Available(t)), i, path)

\* The loop of attemptSend, round by round; each round sends a byte at least.
Rounds(t, path) ==
  LET after[n \in 0 .. Len(t.sbuf)] ==
        IF n = 0 THEN t
        ELSE LET u == after[n - 1] IN IF Waits(u) THEN u ELSE SendNext(u, path)
  IN after

\* idle: before this call no data was sent for as long as a retransmission
\* waits, and what the call itself has sent ends that.  An
\* acknowledgement leaves on its own when nothing was available that takes it
\* along: at once, or the second time.
attemptSend(t, flag, idle, path) ==
  LET s == IF idle /\ t.out = <<>> THEN [t EXCEPT !.cwnd = t.mss] ELSE t
      u == Rounds(s, path)[Len(s.sbuf)]
  IN CASE flag = "none" \/ u.snd_nxt # t.snd_nxt \/ Available(u) > 0 -> u
       [] OTHER -> IF flag = "immediate" \/ u.t_ack
                     THEN packet(u, u.snd_nxt, FALSE, <<>>)
                     ELSE [u EXCEPT !.t_ack = TRUE]

closedown(t) ==
  [t EXCEPT !.sbuf = <<>>, !.state = "CLOSED", !.told = @ \union {"closed"}]

-----------------------------------------------------------------------------
(* Receiving a packet g.                                                   *)

\* adjustMTU, with the advice of an interface that takes any packet.
Established(t) ==
  [t EXCEPT !.state = "ESTABLISHED", !.msslevel = 1, !.mss = Mss[1],
            !.ssthresh = Larger(@, 2 * Mss[1]), !.cwnd = Larger(@, Mss[1]),
            !.told = @ \union {"open"}]

Control(t, g) ==
  CASE ~ g.ctl -> t
    [] g.ctl /\ t.state = "LISTEN" ->
         queue([t EXCEPT !.state = "SYN_RECEIVED"], <<CTL_CONNECT>>, TRUE)
    [] g.ctl /\ t.state = "SYN_SENT" -> Established(t)
    [] OTHER -> t

\* How many of n bytes are left when the first k segments are gone.
Left(slist, n) ==
  LET left[k \in 0 .. Len(slist)] == IF k = 0 THEN n ELSE left[k - 1] - slist[k].len
  IN left

\* The segments without the first n bytes.  What is left of one keeps the
\* number of its first byte.
Freed(slist, n) ==
  LET left == Left(slist, n)
      k    == Max({i \in 0 .. Len(slist) : left[i] >= 0})
      rest == SubSeq(slist, k + 1, Len(slist))
  IN IF left[k] = 0 THEN rest ELSE [rest EXCEPT ![1].len = @ - left[k]]

\* Mutant: the timer stops while segments are in flight.
LetGoUntimed(t, g) ==
  LET n == g.ack - t.snd_una
  IN [t EXCEPT !.snd_wnd = g.wnd, !.snd_una = g.ack, !.doublings = 0, !.rto = FALSE,
               !.sbuf = SubSeq(@, n + 1, Len(@)), !.slist = Freed(@, n)]

\* The bytes below g.ack are let go.
LetGo(t, g) ==
  LET n == g.ack - t.snd_una
  IN [t EXCEPT !.snd_wnd = g.wnd, !.snd_una = g.ack, !.doublings = 0,
               !.rto = (g.ack # t.snd_nxt),
               !.sbuf = SubSeq(@, n + 1, Len(@)), !.slist = Freed(@, n)]

\* How fast a goes on when n bytes were let go: in recovery of a loss until
\* all that was in flight then is acknowledged (NewReno), faster otherwise.
Paced(a, n, path) ==
  CASE a.dup_acks >= 3 /\ a.snd_una >= a.recover ->
         [a EXCEPT !.cwnd = Smaller(a.ssthresh, InFlight(a) + a.mss), !.dup_acks = 0]
    [] a.dup_acks >= 3 /\ a.snd_una < a.recover ->
         IF mayTransmit(a, 1)
           THEN LET r == transmit(a, 1, path)
                IN [r EXCEPT !.cwnd = Cwnd(@ + r.mss - Smaller(n, r.cwnd))]
           ELSE closedown(a)
    [] a.dup_acks < 3 ->
         [a EXCEPT !.dup_acks = 0,
                   !.cwnd = Cwnd(@ + IF @ < a.ssthresh THEN a.mss
                                     ELSE Larger(1, (a.mss * a.mss) \div a.cwnd))]

\* A valuable acknowledgement: bytes are let go, the windows move on.
Acked(t, g, path) ==
  LET b == Paced(LetGo(t, g), g.ack - t.snd_una, path)
      c == IF b.state = "SYN_RECEIVED" /\ ~ g.ctl THEN Established(b) ELSE b
  IN IF c.state # "CLOSED" /\ c.writeEnable
        /\ Len(c.sbuf) < (SndBufSize + RcvBufSize) \div 2
       THEN [c EXCEPT !.writeEnable = FALSE, !.told = @ \union {"write"}]
       ELSE c

\* The same acknowledgement again: the third one is taken for a loss.  The
\* count of them begins again when its width is used up.
AckedAgain(t, g, path) ==
  LET dups == IF t.dup_acks = DupsBound THEN 0 ELSE t.dup_acks + 1
      a    == [t EXCEPT !.snd_wnd = g.wnd]
      d    == [a EXCEPT !.dup_acks = dups]
  IN CASE g.data # <<>> -> a
       [] g.data = <<>> /\ InFlight(t) = 0 -> [a EXCEPT !.dup_acks = 0]
       [] g.data = <<>> /\ InFlight(t) > 0 ->
            CASE dups = 3 ->
                   IF mayTransmit(d, 1)
                     THEN LET r    == transmit(d, 1, path)
                              half == Larger(InFlight(r) \div 2, 2 * r.mss)
                          IN [r EXCEPT !.recover = r.snd_nxt, !.ssthresh = half,
                                       !.cwnd = Cwnd(half + 3 * r.mss)]
                     ELSE closedown(d)
              [] dups > 3 -> [d EXCEPT !.cwnd = Cwnd(@ + d.mss)]
              [] OTHER -> d

\* Mutant: a segment that was saved beyond a gap is taken too.
ReachOverGaps(rlist, n) == Max({n} \union {s.seq + s.len : s \in rlist})

\* How far the buffer is filled once the bytes below n have come: no saved
\* segment that begins there goes on beyond it.
Reach(rlist, n) ==
  Min({r \in n .. n + RcvBufSize : \A s \in rlist : s.seq <= r => s.seq + s.len <= r})

\* Mutant: what is too old is not acknowledged again.
AckFlagOfNew(t, g) ==
  CASE g.seq > t.rcv_nxt -> "immediate"
    [] g.seq = t.rcv_nxt /\ g.data # <<>> -> "delayed"
    [] OTHER -> "none"

\* Whether g is acknowledged: at once when it is too old or too new.
AckFlag(t, g) ==
  CASE g.seq # t.rcv_nxt -> "immediate"
    [] g.seq = t.rcv_nxt /\ g.data # <<>> -> "delayed"
    [] OTHER -> "none"

\* The data of g that is new and fits, and the byte that it begins with.
From(t, g) == Larger(g.seq, t.rcv_nxt)
Fresh(t, g) ==
  SubSeq(g.data, From(t, g) - g.seq + 1,
                 Smaller(Len(g.data), t.rcv_nxt + RcvBufSize - t.rlen - g.seq))

\* m_rbuf with data at the place of byte seq.
Stored(t, seq, data) ==
  LET place == t.rlen + seq - t.rcv_nxt
  IN [i \in 1 .. RcvBufSize |->
        IF i - place \in 1 .. Len(data) THEN data[i - place] ELSE t.rbuf[i]]

\* What comes in order is taken, with what was saved behind it; what comes
\* early is saved at its place in the buffer.  A control byte, and a byte for
\* a user who does not read any more, is only counted.
Placed(t, g) ==
  LET seq  == From(t, g)
      n    == Len(Fresh(t, g))
      rbuf == Stored(t, seq, Fresh(t, g))
      more == Reach(t.rlist, seq + n) - seq
  IN IF n = 0 THEN t
     ELSE IF g.ctl \/ t.shutdown # "NONE"
       THEN [t EXCEPT !.rcv_nxt = IF seq = @ THEN @ + n ELSE @]
     ELSE IF seq = t.rcv_nxt
       THEN [t EXCEPT !.rbuf = rbuf, !.rlen = @ + more, !.rcv_nxt = @ + more,
                      !.rcv_wnd = @ - more, !.rlist = {s \in @ : s.seq > seq + more}]
     ELSE [t EXCEPT !.rbuf = rbuf, !.rlist = @ \union {[seq |-> seq, len |-> n]}]

\* A gap that was filled is told at once, and so is a user who waits to read.
Taken(t, g, idle, path) ==
  LET v    == Placed(t, g)
      flag == IF v.rlen - t.rlen > Len(Fresh(t, g)) THEN "immediate" ELSE AckFlag(t, g)
      r    == attemptSend(v, flag, idle, path)
  IN IF v.rlen > t.rlen /\ t.readEnable
       THEN [r EXCEPT !.readEnable = FALSE, !.told = @ \union {"read"}]
       ELSE r

process(t, g, idle, path) ==
  LET c == Control(t, g)
      a == CASE g.ack > c.snd_una /\ g.ack <= c.snd_nxt -> Acked(c, g, path)
             [] g.ack = c.snd_una -> AckedAgain(c, g, path)
             [] OTHER -> c
  IN IF t.state = "CLOSED" THEN t
     ELSE IF a.state = "CLOSED" THEN a ELSE Taken(a, g, idle, path)

-----------------------------------------------------------------------------
(* The other calls of the owner.                                           *)

Connect(t, idle, path) ==
  attemptSend(queue([t EXCEPT !.state = "SYN_SENT"], <<CTL_CONNECT>>, TRUE),
              "none", idle, path)

\* A retransmission whose time has come.
Retransmitted(t, path) ==
  IF ~ mayTransmit(t, 1) THEN closedown(t)
  ELSE LET r == transmit(t, 1, path)
       IN [r EXCEPT !.ssthresh = Larger(InFlight(r) \div 2, 2 * r.mss), !.cwnd = r.mss,
                    !.doublings = Smaller(@ + 1, Patience)]

\* Mutant: an end is never given up.
ProbedForever(t) == [packet(t, t.snd_nxt - 1, FALSE, <<>>) EXCEPT !.doublings = @ + 1]

\* A closed window is probed with a packet of an old number; an end that has
\* heard nothing for 15 s by then is given up.
Probed(t) ==
  IF t.doublings >= Patience THEN closedown(t)
  ELSE [packet(t, t.snd_nxt - 1, FALSE, <<>>) EXCEPT !.doublings = @ + 1]

\* due: the waits that are over.
NotifyClock(t, due, path) ==
  LET r == IF "rto" \in due /\ t.rto /\ t.slist # <<>> THEN Retransmitted(t, path) ELSE t
      p == IF r.state # "CLOSED" /\ "probe" \in due /\ r.snd_wnd = 0 THEN Probed(r) ELSE r
  IN IF p.state # "CLOSED" /\ "ack" \in due /\ p.t_ack
       THEN packet(p, p.snd_nxt, FALSE, <<>>)
       ELSE p

\* n bytes at most are read.  Only a window that was shut is announced.
Recv(t, n, idle, path) ==
  LET k == Smaller(n, t.rlen)
      r == [t EXCEPT !.rlen = @ - k,
                     !.rbuf = [i \in 1 .. RcvBufSize |->
                                 IF i + k <= RcvBufSize THEN @[i + k] ELSE @[i]]]
      w == [r EXCEPT !.rcv_wnd = RcvBufSize - r.rlen]
  IN IF t.rlen = 0 THEN [t EXCEPT !.readEnable = TRUE]
     ELSE IF w.rcv_wnd - t.rcv_wnd < Smaller(RcvBufSize \div 2, t.mss) THEN r
     ELSE IF t.rcv_wnd = 0 THEN attemptSend(w, "immediate", idle, path) ELSE w

Send(t, data, idle, path) ==
  IF Len(t.sbuf) = SndBufSize
    THEN [t EXCEPT !.writeEnable = TRUE]
    ELSE attemptSend(queue(t, data, FALSE), "none", idle, path)

\* Mutants: what is in the send buffer is forgotten; an end with nothing
\* left to send waits all the same.
clock_checkUnflushed(t) ==
  t.shutdown # "FORCEFUL" /\ (t.shutdown = "GRACEFUL" => t.state = "ESTABLISHED" /\ t.t_ack)

clock_checkOpen(t) ==
  t.shutdown # "FORCEFUL" /\ (t.shutdown = "GRACEFUL" => t.state = "ESTABLISHED")

\* clock_check: whether there is anything left to wait for.
clock_check(t) ==
  /\ t.shutdown # "FORCEFUL"
  /\ t.shutdown = "GRACEFUL" => t.state = "ESTABLISHED" /\ (t.sbuf # <<>> \/ t.t_ack)

=============================================================================
