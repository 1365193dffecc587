--------------------------- MODULE Tunnel_proofs ---------------------------
(***************************************************************************)
(* What Tunnel keeps, whatever its constants: the bytes arrive in order, the *)
(* segments cover the send buffer, the windows are kept, the timer is armed, *)
(* and an end is not deleted before what it wrote has arrived.               *)
(*                                                                         *)
(* The invariant TunnelInv has three parts.  TcpInv says of each end what it *)
(* has to send (Line), how fast (Pace), what it has received (Ear) and that  *)
(* the packets it is about to send are good (Says); WireInv says the same of *)
(* the packets on their way (Between); UserInv ties both to what the users   *)
(* have written and read.  An operation of PseudoTcp is shown to keep its    *)
(* end sound (Sound) and to go onward (Onward): it takes back nothing that   *)
(* the other end, or a packet, relies on.  So a packet that is good stays    *)
(* good however late it arrives, and a step of one end needs no proof about  *)
(* the other.                                                              *)
(***************************************************************************)
EXTENDS Tunnel, SequenceTheorems, WellFoundedInduction, TLAPS

-----------------------------------------------------------------------------
(* The invariant.                                                          *)

Segment == [seq : Nat, len : Nat, ctl : BOOLEAN, xmit : Nat]
Packet  == [seq : Int, ctl : BOOLEAN, ack : Nat, wnd : Nat, data : Seq(Nat)]

\* The fields of a PseudoTcp and their values.
Fields ==
  {"state", "shutdown", "sbuf", "slist", "snd_una", "snd_nxt", "snd_wnd", "rbuf", "rlen",
   "rcv_nxt", "rcv_wnd", "rlist", "readEnable", "writeEnable", "t_ack", "rto", "doublings",
   "msslevel", "mss", "cwnd", "ssthresh", "dup_acks", "recover", "out", "told"}

Typed(t) ==
  /\ DOMAIN t = Fields
  /\ t.state \in {"LISTEN", "SYN_SENT", "SYN_RECEIVED", "ESTABLISHED", "CLOSED"}
  /\ t.shutdown \in {"NONE", "GRACEFUL", "FORCEFUL"}
  /\ t.sbuf \in Seq(Nat) /\ Len(t.sbuf) \in 0 .. SndBufSize /\ t.slist \in Seq(Segment)
  /\ t.snd_una \in Nat /\ t.snd_nxt \in Nat /\ t.snd_wnd \in 0 .. RcvBufSize
  /\ t.rbuf \in [1 .. RcvBufSize -> Int] /\ t.rlen \in 0 .. RcvBufSize
  /\ t.rcv_nxt \in Nat /\ t.rcv_wnd \in 0 .. RcvBufSize
  /\ t.rlist \in SUBSET [seq : Nat, len : Nat]
  /\ t.readEnable \in BOOLEAN /\ t.writeEnable \in BOOLEAN
  /\ t.t_ack \in BOOLEAN /\ t.rto \in BOOLEAN /\ t.doublings \in 0 .. Patience
  /\ t.msslevel \in 1 .. Len(Mss) /\ t.mss \in Nat \ {0} /\ t.cwnd \in 1 .. CwndBound
  /\ t.ssthresh \in Nat \ {0} /\ t.dup_acks \in 0 .. DupsBound /\ t.recover \in Nat
  /\ t.out \in Seq(Packet) /\ t.told \subseteq {"open", "closed", "read", "write"}

Stop(s) == s.seq + s.len

\* The segments s lie one behind the other from byte una on, and those that
\* were sent are those below nxt.  Only byte 0 is a control byte.
Chain(s, una, nxt) ==
  /\ una <= nxt
  /\ \A i \in 1 .. Len(s) :
       /\ s[i].seq = IF i = 1 THEN una ELSE Stop(s[i - 1])
       /\ s[i].len > 0 /\ (s[i].xmit > 0 <=> s[i].seq < nxt)
       /\ s[i].xmit > 0 => Stop(s[i]) <= nxt
       /\ s[i].ctl <=> s[i].seq = 0
       /\ s[i].ctl => s[i].len = 1

\* Where the segments end.
Span(s, una) == IF s = <<>> THEN una ELSE Stop(s[Len(s)])

\* A byte that an acknowledgement may name: it is acknowledged already, or a
\* segment that was sent ends before it.
Ends(s, n) == \E i \in 1 .. Len(s) : s[i].xmit > 0 /\ n = Stop(s[i])
AtPoint(t, n) == n <= t.snd_una \/ Ends(t.slist, n)

Total(t) == t.snd_una + Len(t.sbuf)
Edge(t)  == t.rcv_nxt + t.rcv_wnd

\* What an end sends: its buffer and its segments hold the same bytes.
Flow(t) ==
  /\ Total(t) = Span(t.slist, t.snd_una) /\ t.snd_nxt <= Total(t)
  /\ \A i \in 1 .. Len(t.sbuf) : t.sbuf[i] = t.snd_una + i - 1
  /\ Len(t.sbuf) <= SndBufSize
  /\ t.rto <=> t.snd_una < t.snd_nxt
  /\ t.snd_una >= 1 \/ Len(t.sbuf) <= 1
  /\ t.state # "ESTABLISHED" => Total(t) <= 1
  /\ t.state = "LISTEN" => Total(t) = 0

\* ... within what the other end o announced.
Line(t, o) ==
  /\ Chain(t.slist, t.snd_una, t.snd_nxt)
  /\ t.state # "CLOSED" => Flow(t)
  /\ t.snd_una >= 1 \/ t.snd_nxt <= 1
  /\ t.snd_nxt <= t.snd_una + RcvBufSize
  /\ t.snd_una <= o.rcv_nxt
  /\ t.snd_una + t.snd_wnd <= Edge(o) /\ t.snd_nxt <= Edge(o)

Pace(t) ==
  /\ t.mss \in {FirstMss} \union Range(Mss)
  /\ t.state = "ESTABLISHED" => t.mss = Mss[t.msslevel]
  /\ t.recover <= t.snd_nxt

\* What an end has received, when its user has read k bytes: byte b is kept at
\* place b - k of the buffer, in order or beyond a gap.
Saved(t, o, k, s) ==
  /\ s.seq > t.rcv_nxt /\ s.len > 0 /\ AtPoint(o, Stop(s)) /\ Stop(s) <= k + 1 + RcvBufSize
  /\ \A b \in s.seq .. Stop(s) - 1 : t.rbuf[b - k] = b

Ear(t, o, k) ==
  /\ t.rcv_wnd + t.rlen <= RcvBufSize
  /\ AtPoint(o, t.rcv_nxt)
  /\ t.rcv_nxt = 0 => k = 0 /\ t.rlen = 0 /\ t.rlist = {}
  /\ t.rcv_nxt > 0 => k + t.rlen <= t.rcv_nxt - 1
  /\ t.rcv_nxt > 0 /\ t.shutdown = "NONE" => k + t.rlen = t.rcv_nxt - 1
  /\ \A i \in 1 .. t.rlen : t.rbuf[i] = k + i
  /\ t.shutdown = "NONE" => \A s \in t.rlist : Saved(t, o, k, s)

\* A packet g on its way from end p, which is t, to o.
Between(p, t, o, g) ==
  /\ \A i \in 1 .. Len(g.data) : g.data[i] = g.seq + i - 1
  /\ g.data # <<>> => g.seq >= 0 /\ AtPoint(t, g.seq + Len(g.data)) /\ (g.ctl <=> g.seq = 0)
  /\ g.ctl => Len(g.data) = 1
  /\ AtPoint(o, g.ack) /\ g.ack <= t.rcv_nxt
  /\ g.ack + g.wnd <= Edge(t) /\ g.wnd <= RcvBufSize
  /\ g.ctl /\ p # Initiator => g.ack >= 1

Says(p, t, o) == \A i \in 1 .. Len(t.out) : Between(p, t, o, t.out[i])

\* Of the end p, whose record is t, towards the other end o.
Sound(p, t, o, k) ==
  Typed(t) /\ Line(t, o) /\ Pace(t) /\ Ear(t, o, k) /\ Says(p, t, o)

\* The two roles: only one end connects, and the other one speaks only after
\* it has heard that.
Role(p, t) ==
  /\ t.state = "SYN_SENT" => p = Initiator
  /\ t.state = "SYN_RECEIVED" => p # Initiator

Heard(p, t) ==
  /\ Role(p, t)
  /\ t.state \in {"SYN_RECEIVED", "ESTABLISHED"} /\ p # Initiator => t.rcv_nxt >= 1

Begun(t) == t.state = "ESTABLISHED" => t.snd_una >= 1

\* The bytes an open end has for the other, the control byte included.
Stream(t) == IF t.state = "LISTEN" THEN 1 ELSE Total(t)

\* What a step from t to u may do as far as the other end can tell,
Onward(t, u) ==
  /\ t.rcv_nxt <= u.rcv_nxt /\ Edge(t) <= Edge(u)
  /\ \A n \in Nat : AtPoint(t, n) => AtPoint(u, n)

\* ... and what an operation of PseudoTcp does that the user has no part in.
Moves(t, u) ==
  /\ Onward(t, u)
  /\ u.shutdown = t.shutdown
  /\ u.state # "CLOSED" => t.state # "CLOSED" /\ Stream(u) = Stream(t)
  /\ t.state # "CLOSED" => u.snd_nxt <= Stream(t)
  /\ t.state = "CLOSED" => u.snd_nxt = t.snd_nxt

\* The fields that each part depends on.
SameLine(t, u) ==
  /\ u.state = t.state /\ u.sbuf = t.sbuf /\ u.slist = t.slist
  /\ u.snd_una = t.snd_una /\ u.snd_nxt = t.snd_nxt /\ u.snd_wnd = t.snd_wnd /\ u.rto = t.rto

SameEar(t, u) ==
  /\ u.shutdown = t.shutdown /\ u.rbuf = t.rbuf /\ u.rlen = t.rlen
  /\ u.rcv_nxt = t.rcv_nxt /\ u.rcv_wnd = t.rcv_wnd /\ u.rlist = t.rlist

\* The fields that sending leaves alone.
Kept(t, u) ==
  /\ SameEar(t, u)
  /\ u.state = t.state /\ u.sbuf = t.sbuf /\ u.snd_una = t.snd_una /\ u.snd_wnd = t.snd_wnd
  /\ u.doublings = t.doublings /\ u.ssthresh = t.ssthresh /\ u.dup_acks = t.dup_acks
  /\ u.recover = t.recover /\ u.readEnable = t.readEnable /\ u.writeEnable = t.writeEnable
  /\ u.told = t.told

TcpInv ==
  \A p \in End :
    /\ tcp[p].out = <<>> /\ tcp[p].told = {}
    /\ Sound(p, tcp[p], tcp[Peer(p)], Len(got[p])) /\ Heard(p, tcp[p]) /\ Begun(tcp[p])

WireInv ==
  \A p \in End : \A i \in 1 .. Len(wire[p]) : Between(Peer(p), tcp[Peer(p)], tcp[p], wire[p][i])

UserInv ==
  \A p \in End :
    /\ \A i \in 1 .. Len(got[p]) : got[p][i] = i
    /\ tcp[p].state # "CLOSED" => Stream(tcp[p]) = written[p] + 1
    /\ tcp[p].snd_nxt <= written[p] + 1

VarTypes ==
  /\ tcp = [p \in End |-> tcp[p]]
  /\ gone \in [End -> BOOLEAN] /\ wire \in [End -> Seq(Packet)]
  /\ readable \in [End -> BOOLEAN] /\ writable \in [End -> BOOLEAN]
  /\ written \in [End -> Nat] /\ got \in [End -> Seq(Int)]
  /\ plan \in Plans /\ path \in Range(Mss)

TunnelInv == VarTypes /\ TcpInv /\ WireInv /\ UserInv

-----------------------------------------------------------------------------
(* Numbers and sequences.                                                  *)

\* What the assumption on the sizes says of each of them.
LEMMA Sizes ==
  /\ RcvBufSize \in Nat \ {0} /\ SndBufSize \in Nat \ {0} /\ Patience \in Nat \ {0}
  /\ CwndBound = RcvBufSize + SndBufSize /\ DupsBound \in Nat \ {0}
  /\ Len(Mss) \in Nat \ {0}
  /\ \A i \in 1 .. Len(Mss) : Mss[i] \in Nat \ {0} /\ Mss[i] \in Range(Mss)
  /\ \A i, j \in 1 .. Len(Mss) : i < j => Mss[j] < Mss[i]
  /\ \A n \in Range(Mss) : n \in Nat \ {0} /\ \E i \in 1 .. Len(Mss) : n = Mss[i]
  /\ \A n \in {FirstMss} \union Range(Mss) : n \in Nat \ {0} /\ 2 * n <= CwndBound /\ n <= SndBufSize
<1>1. /\ {RcvBufSize, SndBufSize, FirstMss, Patience, DupsBound} \subseteq Nat \ {0}
      /\ RcvBufSize + FirstMss < SndBufSize /\ 2 * FirstMss <= RcvBufSize + SndBufSize
      /\ Mss \in Seq(Nat \ {0}) /\ Mss # <<>> /\ 2 * Mss[1] <= RcvBufSize + SndBufSize
      /\ \A i, j \in 1 .. Len(Mss) : i < j => Mss[j] < Mss[i]
  BY TcpAssumption DEF TcpAssumption
<1>2. Len(Mss) \in Nat \ {0} /\ DOMAIN Mss = 1 .. Len(Mss) BY <1>1
<1>3. \A i \in 1 .. Len(Mss) : Mss[i] \in Nat \ {0} /\ Mss[i] <= Mss[1]
  <2>1. \A i \in 1 .. Len(Mss) : Mss[i] \in Nat \ {0} BY <1>1
  <2>2. ASSUME NEW i \in 1 .. Len(Mss) PROVE Mss[i] <= Mss[1]
    <3>1. 1 \in 1 .. Len(Mss) BY <1>2
    <3>2. CASE i = 1 BY <3>2, <3>1, <2>1
    <3>3. CASE i # 1
      <4>1. 1 < i BY <3>3
      <4>2. Mss[i] < Mss[1] BY <4>1, <3>1, <1>1
      <4> QED BY <4>2, <3>1, <2>1
    <3> QED BY <3>2, <3>3
  <2> QED BY <2>1, <2>2
<1>4. \A n \in Range(Mss) : \E i \in 1 .. Len(Mss) : n = Mss[i]
  BY <1>2 DEF Range
<1>5. \A i \in 1 .. Len(Mss) : Mss[i] \in Range(Mss)
  BY <1>2 DEF Range
<1>6. ASSUME NEW n \in {FirstMss} \union Range(Mss)
      PROVE  n \in Nat \ {0} /\ 2 * n <= RcvBufSize + SndBufSize /\ n <= SndBufSize
  <2>1. CASE n = FirstMss BY <2>1, <1>1
  <2>2. CASE n # FirstMss
    <3>1. PICK i \in 1 .. Len(Mss) : n = Mss[i] BY <2>2, <1>6, <1>4
    <3>2. n \in Nat \ {0} /\ n <= Mss[1] /\ Mss[1] \in Nat BY <3>1, <1>3, <1>2
    <3> QED BY SMTT(30), <3>2, <1>1
  <2> QED BY <2>1, <2>2
<1> QED BY <1>1, <1>2, <1>3, <1>4, <1>5, <1>6 DEF CwndBound

\* A set of numbers that is not empty has a least one.
LEMMA MinFacts ==
  ASSUME NEW S, S \subseteq Nat, S # {}
  PROVE  Min(S) \in S /\ \A x \in S : Min(S) <= x
<1>1. IsWellFoundedOn(OpToRel(<, Nat), Nat) BY NatLessThanWellFounded
<1>2. PICK x \in S : \A y \in S : ~ (<<y, x>> \in OpToRel(<, Nat))
  BY <1>1, WFMin
<1>3. \A y \in S : ~ (y < x) BY <1>2 DEF OpToRel
<1>4. \A y \in S : x <= y BY <1>3
<1> QED BY <1>4 DEF Min

\* ... and, when it has a bound, a largest one.
LEMMA MaxFacts ==
  ASSUME NEW N \in Nat, NEW S, S \subseteq 0 .. N, S # {}
  PROVE  Max(S) \in S /\ \A x \in S : x <= Max(S)
<1> DEFINE T == {N - x : x \in S}
<1>1. T \subseteq Nat /\ T # {}
  <2>1. \A x \in S : x \in 0 .. N /\ N - x \in Nat OBVIOUS
  <2> QED BY <2>1
<1>2. Min(T) \in T /\ \A x \in T : Min(T) <= x BY <1>1, MinFacts
<1>3. PICK x \in S : Min(T) = N - x BY <1>2
<1>4. \A y \in S : y <= x
  <2>1. SUFFICES ASSUME NEW y \in S PROVE y <= x OBVIOUS
  <2>2. N - x <= N - y BY <1>2, <1>3
  <2> QED BY <2>2
<1> QED BY <1>3, <1>4 DEF Max

\* The smaller and the larger of two numbers.
LEMMA SmallerLarger ==
  ASSUME NEW a \in Int, NEW b \in Int
  PROVE  /\ Smaller(a, b) \in {a, b} /\ Smaller(a, b) <= a /\ Smaller(a, b) <= b
         /\ Larger(a, b) \in {a, b} /\ a <= Larger(a, b) /\ b <= Larger(a, b)
         /\ Smaller(a, b) \in Int /\ Larger(a, b) \in Int
BY DEF Smaller, Larger

\* SelectInSeq finds the first element that was not sent.
LEMMA FirstUnsent ==
  ASSUME NEW s \in Seq(Segment), NEW j \in 1 .. Len(s), s[j].xmit = 0
  PROVE  LET i == SelectInSeq(s, LAMBDA e : e.xmit = 0)
         IN i \in 1 .. Len(s) /\ s[i].xmit = 0 /\ \A h \in 1 .. i - 1 : s[h].xmit > 0
<1> DEFINE I == {i \in 1 .. Len(s) : s[i].xmit = 0}
<1>1. I \subseteq Nat /\ I # {} OBVIOUS
<1>2. SelectInSeq(s, LAMBDA e : e.xmit = 0) = Min(I) BY <1>1 DEF SelectInSeq
<1>3. Min(I) \in I /\ \A x \in I : Min(I) <= x BY <1>1, MinFacts
<1>4. \A h \in 1 .. Len(s) : s[h].xmit \in Nat
  <2>1. \A h \in 1 .. Len(s) : s[h] \in Segment OBVIOUS
  <2> QED BY <2>1 DEF Segment
<1>5. ASSUME NEW h \in 1 .. Min(I) - 1 PROVE s[h].xmit > 0
  <2>1. h \in 1 .. Len(s) /\ h \notin I BY <1>3
  <2> QED BY <2>1, <1>4
<1> QED BY <1>2, <1>3, <1>5

\* The elements of a sequence after one was put in.
LEMMA InsertFacts ==
  ASSUME NEW S, NEW s \in Seq(S), NEW i \in 1 .. Len(s) + 1, NEW e \in S
  PROVE  LET q == InsertAt(s, i, e)
         IN /\ q \in Seq(S) /\ Len(q) = Len(s) + 1
            /\ \A j \in 1 .. i - 1 : q[j] = s[j]
            /\ q[i] = e
            /\ \A j \in i + 1 .. Len(s) + 1 : q[j] = s[j - 1]
<1> DEFINE a == SubSeq(s, 1, i - 1)
           b == SubSeq(s, i, Len(s))
           ab == a \o <<e>>
           q == ab \o b
<1>1. a \in Seq(S) /\ Len(a) = i - 1 /\ \A j \in 1 .. i - 1 : a[j] = s[j]
  BY SubSeqProperties
<1>2. b \in Seq(S) /\ Len(b) = Len(s) + 1 - i /\ \A j \in 1 .. Len(s) + 1 - i : b[j] = s[i + j - 1]
  BY SubSeqProperties
<1>3. ab \in Seq(S) /\ Len(ab) = i /\ ab[i] = e /\ \A j \in 1 .. i - 1 : ab[j] = s[j]
  <2>1. <<e>> \in Seq(S) /\ Len(<<e>>) = 1 /\ <<e>>[1] = e OBVIOUS
  <2> HIDE DEF a
  <2>2. ab \in Seq(S) /\ Len(ab) = Len(a) + 1
        /\ \A j \in 1 .. Len(a) + 1 : ab[j] = IF j <= Len(a) THEN a[j] ELSE <<e>>[j - Len(a)]
    BY <1>1, <2>1, ConcatProperties
  <2> HIDE DEF ab
  <2>3. ab[i] = e BY <2>1, <2>2, <1>1
  <2>4. \A j \in 1 .. i - 1 : ab[j] = s[j] BY <2>2, <1>1
  <2> QED BY <2>2, <2>3, <2>4, <1>1
<1> HIDE DEF a, b, ab
<1>4. q \in Seq(S) /\ Len(q) = Len(s) + 1 /\ (\A j \in 1 .. i : q[j] = ab[j])
      /\ \A j \in i + 1 .. Len(s) + 1 : q[j] = b[j - i]
  <2>1. q \in Seq(S) /\ Len(q) = Len(ab) + Len(b)
        /\ \A j \in 1 .. Len(ab) + Len(b) : q[j] = IF j <= Len(ab) THEN ab[j] ELSE b[j - Len(ab)]
    BY <1>2, <1>3, ConcatProperties
  <2> HIDE DEF q
  <2> QED BY <2>1, <1>2, <1>3
<1>5. ASSUME NEW j \in i + 1 .. Len(s) + 1 PROVE q[j] = s[j - 1]
  <2>1. j - i \in 1 .. Len(s) + 1 - i /\ i + (j - i) - 1 = j - 1 BY <1>5
  <2>2. q[j] = b[j - i] BY <1>4
  <2> QED BY <2>1, <2>2, <1>2
<1>6. q[i] = e BY <1>3, <1>4
<1>7. \A j \in 1 .. i - 1 : q[j] = s[j] BY <1>3, <1>4
<1>8. InsertAt(s, i, e) = q BY DEF InsertAt, q, a, b, ab
<1> HIDE DEF q
<1> QED BY <1>4, <1>5, <1>6, <1>7, <1>8

\* The elements of a sequence after one was taken out.
LEMMA RemoveFacts ==
  ASSUME NEW S, NEW s \in Seq(S), NEW i \in 1 .. Len(s)
  PROVE  LET q == RemoveAt(s, i)
         IN /\ q \in Seq(S)
            /\ \A j \in 1 .. Len(q) : \E h \in 1 .. Len(s) : q[j] = s[h]
<1> DEFINE a == SubSeq(s, 1, i - 1)
           b == SubSeq(s, i + 1, Len(s))
           q == a \o b
<1>1. a \in Seq(S) /\ Len(a) = i - 1 /\ \A j \in 1 .. i - 1 : a[j] = s[j]
  BY SubSeqProperties
<1>2. b \in Seq(S) /\ Len(b) = Len(s) - i /\ \A j \in 1 .. Len(s) - i : b[j] = s[i + j]
  BY SubSeqProperties
<1> HIDE DEF a, b
<1>3. q \in Seq(S) /\ Len(q) = Len(s) - 1 /\ (\A j \in 1 .. i - 1 : q[j] = a[j])
      /\ \A j \in i .. Len(s) - 1 : q[j] = b[j - (i - 1)]
  <2>1. q \in Seq(S) /\ Len(q) = Len(a) + Len(b)
        /\ \A j \in 1 .. Len(a) + Len(b) : q[j] = IF j <= Len(a) THEN a[j] ELSE b[j - Len(a)]
    BY <1>1, <1>2, ConcatProperties
  <2> HIDE DEF q
  <2>2. Len(a) + Len(b) = Len(s) - 1 BY <1>1, <1>2
  <2>3. \A j \in 1 .. i - 1 : q[j] = a[j]
    <3>1. SUFFICES ASSUME NEW j \in 1 .. i - 1 PROVE q[j] = a[j] OBVIOUS
    <3>2. j \in 1 .. Len(a) + Len(b) /\ j <= Len(a) BY <2>2, <1>1
    <3> QED BY <2>1, <3>2
  <2>4. \A j \in i .. Len(s) - 1 : q[j] = b[j - (i - 1)]
    <3>1. SUFFICES ASSUME NEW j \in i .. Len(s) - 1 PROVE q[j] = b[j - (i - 1)] OBVIOUS
    <3>2. j \in 1 .. Len(a) + Len(b) /\ ~ (j <= Len(a)) BY <2>2, <1>1
    <3> QED BY <2>1, <3>2, <1>1
  <2> QED BY <2>1, <2>2, <2>3, <2>4
<1>4. ASSUME NEW j \in 1 .. Len(q) PROVE \E h \in 1 .. Len(s) : q[j] = s[h]
  <2>1. CASE j < i
    <3>1. j \in 1 .. i - 1 /\ j \in 1 .. Len(s) BY <2>1, <1>3
    <3>2. q[j] = s[j] BY <3>1, <1>1, <1>3
    <3> QED BY <3>1, <3>2
  <2>2. CASE j >= i
    <3>1. j \in i .. Len(s) - 1 /\ j - (i - 1) \in 1 .. Len(s) - i BY <2>2, <1>3
    <3>2. q[j] = s[i + (j - (i - 1))] BY <3>1, <1>2, <1>3
    <3>3. i + (j - (i - 1)) \in 1 .. Len(s) BY <3>1
    <3> QED BY <3>2, <3>3
  <2> QED BY <2>1, <2>2, <1>3
<1>5. RemoveAt(s, i) = q BY DEF RemoveAt, q, a, b
<1> QED BY <1>3, <1>4, <1>5

-----------------------------------------------------------------------------
(* The list of segments.                                                   *)

\* A segment's fields are numbers, but for its kind.
LEMMA SegmentFields ==
  ASSUME NEW s \in Seq(Segment), NEW i \in 1 .. Len(s)
  PROVE  /\ s[i] \in Segment /\ s[i].seq \in Nat /\ s[i].len \in Nat /\ s[i].xmit \in Nat
         /\ s[i].ctl \in BOOLEAN /\ Stop(s[i]) \in Nat /\ Stop(s[i]) = s[i].seq + s[i].len
         /\ DOMAIN s[i] = {"seq", "len", "ctl", "xmit"}
<1>1. s[i] \in Segment OBVIOUS
<1> QED BY <1>1 DEF Segment, Stop

\* In a chain each segment ends before the next one begins.
LEMMA ChainOrder ==
  ASSUME NEW s \in Seq(Segment), NEW una \in Nat, NEW nxt \in Nat, Chain(s, una, nxt),
         NEW j \in 1 .. Len(s), NEW i \in 1 .. j - 1
  PROVE  Stop(s[i]) <= s[j].seq
<1> DEFINE Late == {h \in 1 .. Len(s) : \E g \in 1 .. h - 1 : ~ (Stop(s[g]) <= s[h].seq)}
<1>1. Late = {}
  <2>1. SUFFICES ASSUME Late # {} PROVE FALSE OBVIOUS
  <2>2. Late \subseteq Nat OBVIOUS
  <2>3. PICK h \in Late : \A x \in Late : h <= x BY <2>1, <2>2, MinFacts
  <2>4. PICK g \in 1 .. h - 1 : ~ (Stop(s[g]) <= s[h].seq) OBVIOUS
  <2>5. h \in 2 .. Len(s) /\ h - 1 \in 1 .. Len(s) /\ g \in 1 .. Len(s) OBVIOUS
  <2>6. s[h].seq = Stop(s[h - 1]) BY <2>5 DEF Chain
  <2>7. g # h - 1
    <3>1. SUFFICES ASSUME g = h - 1 PROVE FALSE OBVIOUS
    <3>2. Stop(s[g]) = s[h].seq BY <3>1, <2>6
    <3>3. Stop(s[g]) \in Nat BY <2>5, SegmentFields
    <3> QED BY <3>2, <3>3, <2>4
  <2>8. g \in 1 .. (h - 1) - 1 BY <2>7, <2>5
  <2>9. h - 1 \notin Late BY <2>3, <2>5
  <2>10. Stop(s[g]) <= s[h - 1].seq BY <2>9, <2>8, <2>5
  <2>11. s[h - 1].seq \in Nat /\ s[h - 1].len \in Nat /\ Stop(s[h - 1]) = s[h - 1].seq + s[h - 1].len
    BY <2>5, SegmentFields
  <2>12. Stop(s[g]) \in Nat BY <2>5, SegmentFields
  <2> QED BY <2>4, <2>6, <2>10, <2>11, <2>12
<1> QED BY <1>1

\* ... and all of them lie between the first byte and the end.
LEMMA ChainSpan ==
  ASSUME NEW s \in Seq(Segment), NEW una \in Nat, NEW nxt \in Nat, Chain(s, una, nxt)
  PROVE  /\ Span(s, una) \in Nat /\ una <= Span(s, una)
         /\ \A i \in 1 .. Len(s) : una <= s[i].seq /\ s[i].seq < Stop(s[i]) /\ Stop(s[i]) <= Span(s, una)
<1>1. ASSUME NEW i \in 1 .. Len(s)
      PROVE  una <= s[i].seq /\ s[i].seq < Stop(s[i]) /\ Stop(s[i]) <= Span(s, una)
  <2>1. s[i].seq \in Nat /\ s[i].len \in Nat /\ Stop(s[i]) = s[i].seq + s[i].len /\ s[i].len > 0
    BY SegmentFields DEF Chain
  <2>2. una <= s[i].seq
    <3>1. 1 \in 1 .. Len(s) OBVIOUS
    <3>2. s[1].seq = una /\ s[1].len \in Nat /\ Stop(s[1]) = una + s[1].len
      BY <3>1, SegmentFields DEF Chain
    <3>3. CASE i = 1 BY <3>3, <3>2
    <3>4. CASE i # 1
      <4>1. 1 \in 1 .. i - 1 BY <3>4
      <4>2. Stop(s[1]) <= s[i].seq BY <4>1, ChainOrder
      <4> QED BY <4>2, <3>2, <2>1
    <3> QED BY <3>3, <3>4
  <2>3. Stop(s[i]) <= Span(s, una)
    <3>1. Len(s) \in 1 .. Len(s) /\ s # <<>> OBVIOUS
    <3>2. s[Len(s)].seq \in Nat /\ s[Len(s)].len \in Nat
          /\ Stop(s[Len(s)]) = s[Len(s)].seq + s[Len(s)].len
      BY <3>1, SegmentFields
    <3>3. Span(s, una) = Stop(s[Len(s)]) BY <3>1 DEF Span
    <3>4. CASE i = Len(s) BY <3>4, <3>3, <3>2
    <3>5. CASE i # Len(s)
      <4>1. i \in 1 .. Len(s) - 1 BY <3>5
      <4>2. Stop(s[i]) <= s[Len(s)].seq BY <4>1, <3>1, ChainOrder
      <4> QED BY <4>2, <3>2, <3>3, <2>1
    <3> QED BY <3>4, <3>5
  <2> QED BY <2>1, <2>2, <2>3
<1>2. Span(s, una) \in Nat /\ una <= Span(s, una)
  <2>1. CASE s = <<>> BY <2>1 DEF Span
  <2>2. CASE s # <<>>
    <3>1. Len(s) \in 1 .. Len(s) BY <2>2
    <3>2. Span(s, una) = Stop(s[Len(s)]) BY <2>2 DEF Span
    <3>3. Stop(s[Len(s)]) \in Nat /\ s[Len(s)].seq \in Nat BY <3>1, SegmentFields
    <3>4. una <= s[Len(s)].seq /\ s[Len(s)].seq < Stop(s[Len(s)]) BY <3>1, <1>1
    <3> QED BY <3>2, <3>3, <3>4
  <2> QED BY <2>1, <2>2
<1> QED BY <1>1, <1>2

\* The list s with segment i cut in two, after n bytes.
Cut(s, i, n) ==
  IF n < s[i].len
    THEN InsertAt([s EXCEPT ![i].len = n], i + 1, [s[i] EXCEPT !.seq = @ + n, !.len = @ - n])
    ELSE s

\* What the elements of such a list are.
LEMMA CutFacts ==
  ASSUME NEW s \in Seq(Segment), NEW i \in 1 .. Len(s), NEW n \in Nat, n < s[i].len
  PROVE  LET q == Cut(s, i, n)
         IN /\ q \in Seq(Segment) /\ Len(q) = Len(s) + 1
            /\ \A j \in 1 .. i - 1 : q[j] = s[j]
            /\ \A j \in i + 2 .. Len(s) + 1 : q[j] = s[j - 1]
            /\ q[i].seq = s[i].seq /\ q[i].len = n /\ q[i].ctl = s[i].ctl /\ q[i].xmit = s[i].xmit
            /\ q[i + 1].seq = s[i].seq + n /\ q[i + 1].len = s[i].len - n
            /\ q[i + 1].ctl = s[i].ctl /\ q[i + 1].xmit = s[i].xmit
<1> DEFINE e == [s[i] EXCEPT !.seq = @ + n, !.len = @ - n]
           c == [s[i] EXCEPT !.len = n]
           r == [s EXCEPT ![i] = c]
           q == InsertAt(r, i + 1, e)
<1>1. /\ s[i] \in Segment /\ s[i].seq + n \in Nat /\ s[i].len - n \in Nat
      /\ DOMAIN s[i] = {"seq", "len", "ctl", "xmit"}
  BY SegmentFields
<1>2. e \in Segment /\ c \in Segment BY <1>1 DEF Segment
<1>3. e.seq = s[i].seq + n /\ e.len = s[i].len - n /\ e.ctl = s[i].ctl /\ e.xmit = s[i].xmit
  BY <1>1
<1>4. c.seq = s[i].seq /\ c.len = n /\ c.ctl = s[i].ctl /\ c.xmit = s[i].xmit
  BY <1>1
<1>5. Cut(s, i, n) = q BY DEF Cut
<1> HIDE DEF e, c
<1>6. r \in Seq(Segment) /\ Len(r) = Len(s) /\ r[i] = c /\ \A j \in 1 .. Len(s) : j # i => r[j] = s[j]
  <2>1. r \in Seq(Segment) /\ Len(r) = Len(s)
        /\ \A j \in 1 .. Len(s) : r[j] = IF j = i THEN c ELSE s[j]
    BY <1>2, ExceptSeq
  <2> QED BY <2>1
<1> HIDE DEF r
<1>7. /\ q \in Seq(Segment) /\ Len(q) = Len(s) + 1
      /\ \A j \in 1 .. i : q[j] = r[j]
      /\ q[i + 1] = e
      /\ \A j \in i + 2 .. Len(s) + 1 : q[j] = r[j - 1]
  <2>1. PICK h \in 1 .. Len(r) + 1 : h = i + 1 BY <1>6
  <2>2. /\ InsertAt(r, h, e) \in Seq(Segment) /\ Len(InsertAt(r, h, e)) = Len(r) + 1
        /\ \A j \in 1 .. h - 1 : InsertAt(r, h, e)[j] = r[j]
        /\ InsertAt(r, h, e)[h] = e
        /\ \A j \in h + 1 .. Len(r) + 1 : InsertAt(r, h, e)[j] = r[j - 1]
    <3>1. r \in Seq(Segment) /\ e \in Segment BY <1>2, <1>6
    <3>2. h \in 1 .. Len(r) + 1 BY <2>1
    <3> QED BY <3>1, <3>2, InsertFacts
  <2>3. q = InsertAt(r, h, e) BY <2>1
  <2> HIDE DEF q
  <2>4. h - 1 = i /\ h + 1 = i + 2 /\ Len(r) = Len(s) BY <2>1, <1>6
  <2> QED BY <2>1, <2>2, <2>3, <2>4
<1> HIDE DEF q
<1>8. \A j \in 1 .. i - 1 : q[j] = s[j]
  <2>1. \A j \in 1 .. i - 1 : j \in 1 .. i /\ j \in 1 .. Len(s) /\ j # i OBVIOUS
  <2> QED BY <2>1, <1>6, <1>7
<1>9. \A j \in i + 2 .. Len(s) + 1 : q[j] = s[j - 1]
  <2>1. \A j \in i + 2 .. Len(s) + 1 : j - 1 \in 1 .. Len(s) /\ j - 1 # i OBVIOUS
  <2> QED BY <2>1, <1>6, <1>7
<1>10. q[i] = c BY <1>6, <1>7
<1> QED BY <1>3, <1>4, <1>5, <1>7, <1>8, <1>9, <1>10

\* A chain stays one when a segment is cut, it ends where it did, and every
\* segment that was sent still ends at the end of one.
LEMMA ChainCut ==
  ASSUME NEW s \in Seq(Segment), NEW una \in Nat, NEW nxt \in Nat, Chain(s, una, nxt),
         NEW i \in 1 .. Len(s), NEW n \in Nat \ {0}
  PROVE  LET q == Cut(s, i, n)
         IN /\ q \in Seq(Segment) /\ i \in 1 .. Len(q) /\ Chain(q, una, nxt)
            /\ Span(q, una) = Span(s, una)
            /\ \A m \in Nat : Ends(s, m) => Ends(q, m)
            /\ q[i].seq = s[i].seq /\ q[i].xmit = s[i].xmit /\ q[i].ctl = s[i].ctl
            /\ q[i].len = Smaller(s[i].len, n)
            /\ \A j \in 1 .. i - 1 : q[j] = s[j]
<1>1. CASE ~ (n < s[i].len)
  <2>1. Cut(s, i, n) = s BY <1>1 DEF Cut
  <2>2. s[i].len \in Nat BY SegmentFields
  <2>3. s[i].len = Smaller(s[i].len, n) BY <1>1, <2>2 DEF Smaller
  <2> QED BY <2>1, <2>3
<1>2. CASE n < s[i].len
  <2> DEFINE q == Cut(s, i, n)
  <2>1. /\ q \in Seq(Segment) /\ Len(q) = Len(s) + 1
        /\ \A j \in 1 .. i - 1 : q[j] = s[j]
        /\ \A j \in i + 2 .. Len(s) + 1 : q[j] = s[j - 1]
        /\ q[i].seq = s[i].seq /\ q[i].len = n /\ q[i].ctl = s[i].ctl /\ q[i].xmit = s[i].xmit
        /\ q[i + 1].seq = s[i].seq + n /\ q[i + 1].len = s[i].len - n
        /\ q[i + 1].ctl = s[i].ctl /\ q[i + 1].xmit = s[i].xmit
    BY SMTT(30), <1>2, CutFacts
  <2> HIDE DEF q
  <2>2. s[i].seq \in Nat /\ s[i].len \in Nat /\ s[i].xmit \in Nat /\ Stop(s[i]) = s[i].seq + s[i].len
    BY SegmentFields
  <2>3. /\ s[i].seq = IF i = 1 THEN una ELSE Stop(s[i - 1])
        /\ s[i].xmit > 0 <=> s[i].seq < nxt
        /\ s[i].xmit > 0 => Stop(s[i]) <= nxt
        /\ s[i].ctl <=> s[i].seq = 0
        /\ s[i].ctl => s[i].len = 1
    BY DEF Chain
  <2>4. Stop(q[i]) = s[i].seq + n /\ Stop(q[i + 1]) = Stop(s[i])
    BY <2>1, <2>2 DEF Stop
  <2>5. ASSUME NEW j \in 1 .. Len(q)
        PROVE  /\ q[j].seq = IF j = 1 THEN una ELSE Stop(q[j - 1])
               /\ q[j].len > 0 /\ (q[j].xmit > 0 <=> q[j].seq < nxt)
               /\ q[j].xmit > 0 => Stop(q[j]) <= nxt
               /\ q[j].ctl <=> q[j].seq = 0
               /\ q[j].ctl => q[j].len = 1
    <3>1. CASE j < i
      <4>1. j \in 1 .. Len(s) /\ j \in 1 .. i - 1 /\ (j # 1 => j - 1 \in 1 .. i - 1) BY <3>1
      <4>2. q[j] = s[j] /\ (j # 1 => q[j - 1] = s[j - 1]) BY <4>1, <2>1
      <4> QED BY <4>1, <4>2 DEF Chain
    <3>2. CASE j = i
      <4>1. i # 1 => i - 1 \in 1 .. i - 1 OBVIOUS
      <4>2. i # 1 => q[i - 1] = s[i - 1] BY <4>1, <2>1
      <4>3. q[i].seq = IF i = 1 THEN una ELSE Stop(q[i - 1]) BY <4>2, <2>1, <2>3
      <4>4. ~ s[i].ctl BY <2>3, <1>2, <2>2
      <4>5. Stop(q[i]) < Stop(s[i]) BY <2>4, <1>2, <2>2
      <4>6. q[i].xmit > 0 => Stop(q[i]) <= nxt BY <4>5, <2>1, <2>2, <2>3, <2>4
      <4> QED BY <4>3, <4>4, <4>6, <2>1, <2>3, <3>2
    <3>3. CASE j = i + 1
      <4>1. j # 1 /\ j - 1 = i BY <3>3
      <4>2. q[j].seq = Stop(q[j - 1]) BY <4>1, <2>1, <2>4, <3>3
      <4>3. ~ s[i].ctl /\ ~ q[j].ctl BY <2>3, <1>2, <2>2, <2>1, <3>3
      <4>4. q[j].len > 0 /\ q[j].seq # 0 BY SMTT(30), <2>1, <2>2, <1>2, <3>3
      <4>5. q[j].xmit > 0 <=> q[j].seq < nxt BY SMTT(30), <2>1, <2>2, <2>3, <1>2, <3>3
      <4>6. q[j].xmit > 0 => Stop(q[j]) <= nxt BY <2>1, <2>3, <2>4, <3>3
      <4> QED BY <4>1, <4>2, <4>3, <4>4, <4>5, <4>6
    <3>4. CASE j > i + 1
      <4>1. j \in i + 2 .. Len(s) + 1 /\ j - 1 \in 1 .. Len(s) /\ j - 1 # 1 /\ j # 1 BY <3>4, <2>1
      <4>2. q[j] = s[j - 1] BY <4>1, <2>1
      <4>3. q[j].seq = Stop(s[j - 1 - 1]) BY <4>1, <4>2 DEF Chain
      <4>4. Stop(q[j - 1]) = Stop(s[j - 1 - 1])
        <5>1. CASE j - 1 = i + 1
          <6>1. j - 1 - 1 = i BY <5>1
          <6> QED BY <6>1, <5>1, <2>4
        <5>2. CASE j - 1 # i + 1
          <6>1. j - 1 \in i + 2 .. Len(s) + 1 BY <5>2, <4>1
          <6> QED BY <6>1, <2>1
        <5> QED BY <5>1, <5>2
      <4> QED BY SMTT(30), <4>1, <4>2, <4>3, <4>4 DEF Chain
    <3> QED BY <3>1, <3>2, <3>3, <3>4
  <2>6. Chain(q, una, nxt) BY <2>5 DEF Chain
  <2>7. Span(q, una) = Span(s, una)
    <3>1. q # <<>> /\ s # <<>> BY <2>1
    <3>2. Stop(q[Len(q)]) = Stop(s[Len(s)])
      <4>1. CASE i = Len(s) BY <4>1, <2>1, <2>4
      <4>2. CASE i # Len(s)
        <5>1. Len(s) + 1 \in i + 2 .. Len(s) + 1 /\ Len(s) + 1 - 1 = Len(s) BY <4>2
        <5> QED BY <5>1, <2>1
      <4> QED BY <4>1, <4>2
    <3> QED BY <3>1, <3>2 DEF Span
  <2>8. ASSUME NEW m \in Nat, Ends(s, m) PROVE Ends(q, m)
    <3>1. PICK j \in 1 .. Len(s) : s[j].xmit > 0 /\ m = Stop(s[j]) BY <2>8 DEF Ends
    <3>2. CASE j < i
      <4>1. j \in 1 .. i - 1 /\ j \in 1 .. Len(q) BY <3>2, <2>1
      <4> QED BY <4>1, <3>1, <2>1 DEF Ends
    <3>3. CASE j = i
      <4>1. i + 1 \in 1 .. Len(q) BY <2>1
      <4> QED BY <4>1, <3>1, <3>3, <2>1, <2>4 DEF Ends
    <3>4. CASE j > i
      <4>1. j + 1 \in 1 .. Len(q) /\ j + 1 \in i + 2 .. Len(s) + 1 /\ j + 1 - 1 = j BY <3>4, <2>1
      <4>2. q[j + 1] = s[j] BY <4>1, <2>1
      <4> QED BY <4>1, <4>2, <3>1 DEF Ends
    <3> QED BY <3>2, <3>3, <3>4
  <2>9. q[i].len = Smaller(s[i].len, n) BY <2>1, <2>2, <1>2 DEF Smaller
  <2>10. i \in 1 .. Len(q) BY <2>1
  <2> QED BY <2>1, <2>6, <2>7, <2>8, <2>9, <2>10 DEF q
<1> QED BY <1>1, <1>2

\* The list q after segment i was sent once more.
Mark(q, i) == [q EXCEPT ![i].xmit = @ + 1]

\* It differs from q in that count alone.
LEMMA MarkFacts ==
  ASSUME NEW q \in Seq(Segment), NEW i \in 1 .. Len(q)
  PROVE  /\ Mark(q, i) \in Seq(Segment) /\ Len(Mark(q, i)) = Len(q)
         /\ \A j \in 1 .. Len(q) : j # i => Mark(q, i)[j] = q[j]
         /\ Mark(q, i)[i].seq = q[i].seq /\ Mark(q, i)[i].len = q[i].len
         /\ Mark(q, i)[i].ctl = q[i].ctl /\ Mark(q, i)[i].xmit = q[i].xmit + 1
<1> DEFINE c == [q[i] EXCEPT !.xmit = @ + 1]
<1>1. q[i] \in Segment /\ q[i].xmit + 1 \in Nat /\ DOMAIN q[i] = {"seq", "len", "ctl", "xmit"}
  BY SegmentFields
<1>2. c \in Segment BY <1>1 DEF Segment
<1>3. c.seq = q[i].seq /\ c.len = q[i].len /\ c.ctl = q[i].ctl /\ c.xmit = q[i].xmit + 1
  BY <1>1
<1>4. Mark(q, i) = [q EXCEPT ![i] = c] BY DEF Mark
<1> HIDE DEF c
<1>5. /\ [q EXCEPT ![i] = c] \in Seq(Segment) /\ Len([q EXCEPT ![i] = c]) = Len(q)
      /\ \A j \in 1 .. Len(q) : [q EXCEPT ![i] = c][j] = IF j = i THEN c ELSE q[j]
  BY <1>2, ExceptSeq
<1>6. Mark(q, i)[i] = c BY <1>4, <1>5
<1>7. \A j \in 1 .. Len(q) : j # i => Mark(q, i)[j] = q[j] BY <1>4, <1>5
<1>8. Mark(q, i) \in Seq(Segment) /\ Len(Mark(q, i)) = Len(q) BY <1>4, <1>5
<1> QED BY <1>3, <1>6, <1>7, <1>8

\* The first segment that was not sent begins at nxt.
LEMMA ChainFirst ==
  ASSUME NEW q \in Seq(Segment), NEW una \in Nat, NEW nxt \in Nat, Chain(q, una, nxt),
         NEW i \in 1 .. Len(q), q[i].xmit = 0, \A j \in 1 .. i - 1 : q[j].xmit > 0
  PROVE  q[i].seq = nxt
<1>1. q[i].seq \in Nat /\ nxt <= q[i].seq BY SegmentFields DEF Chain
<1>2. CASE i = 1
  <2>1. q[i].seq = una /\ una <= nxt BY <1>2 DEF Chain
  <2> QED BY <2>1, <1>1
<1>3. CASE i # 1
  <2>1. i - 1 \in 1 .. i - 1 /\ i - 1 \in 1 .. Len(q) BY <1>3
  <2>2. q[i - 1].xmit > 0 BY <2>1
  <2>3. Stop(q[i - 1]) <= nxt BY <2>1, <2>2 DEF Chain
  <2>4. q[i].seq = Stop(q[i - 1]) BY <1>3 DEF Chain
  <2> QED BY <2>3, <2>4, <1>1
<1> QED BY <1>2, <1>3

\* A chain stays one when a segment is sent, the first time or again.
LEMMA ChainMark ==
  ASSUME NEW q \in Seq(Segment), NEW una \in Nat, NEW nxt \in Nat, Chain(q, una, nxt),
         NEW i \in 1 .. Len(q), NEW new \in Nat,
         \/ q[i].xmit > 0 /\ new = nxt
         \/ q[i].xmit = 0 /\ (\A j \in 1 .. i - 1 : q[j].xmit > 0) /\ new = nxt + q[i].len
  PROVE  /\ Mark(q, i) \in Seq(Segment) /\ Chain(Mark(q, i), una, new)
         /\ Span(Mark(q, i), una) = Span(q, una)
         /\ \A m \in Nat : Ends(q, m) => Ends(Mark(q, i), m)
         /\ Ends(Mark(q, i), Stop(q[i]))
<1> DEFINE r == Mark(q, i)
<1>1. /\ r \in Seq(Segment) /\ Len(r) = Len(q)
      /\ \A j \in 1 .. Len(q) : j # i => r[j] = q[j]
      /\ r[i].seq = q[i].seq /\ r[i].len = q[i].len
      /\ r[i].ctl = q[i].ctl /\ r[i].xmit = q[i].xmit + 1
  BY MarkFacts
<1> HIDE DEF r
<1>2. \A j \in 1 .. Len(q) : r[j].seq = q[j].seq /\ r[j].len = q[j].len /\ r[j].ctl = q[j].ctl
                             /\ Stop(r[j]) = Stop(q[j])
  BY <1>1 DEF Stop
<1>3. nxt <= new
  <2>1. q[i].len \in Nat BY SegmentFields
  <2> QED BY <2>1
<1>4. ASSUME NEW j \in 1 .. Len(q)
      PROVE  /\ r[j].xmit > 0 <=> r[j].seq < new
             /\ r[j].xmit > 0 => Stop(r[j]) <= new
  <2>1. /\ q[j].xmit > 0 <=> q[j].seq < nxt
        /\ q[j].xmit > 0 => Stop(q[j]) <= nxt
        /\ q[j].len > 0
    BY DEF Chain
  <2>2. q[j].seq \in Nat /\ q[j].len \in Nat /\ q[j].xmit \in Nat /\ Stop(q[j]) = q[j].seq + q[j].len
    BY SegmentFields
  <2>3. CASE q[i].xmit > 0
    <3>1. new = nxt BY <2>3
    <3>2. r[j].xmit > 0 <=> q[j].xmit > 0
      <4>1. CASE j = i BY <4>1, <2>3, <2>2, <1>1
      <4>2. CASE j # i BY <4>2, <1>1
      <4> QED BY <4>1, <4>2
    <3> QED BY <3>1, <3>2, <2>1, <1>2
  <2>4. CASE ~ (q[i].xmit > 0)
    <3>1. q[i].xmit = 0 /\ (\A h \in 1 .. i - 1 : q[h].xmit > 0) /\ new = nxt + q[i].len BY <2>4
    <3>2. q[i].seq = nxt BY <3>1, ChainFirst
    <3>3. CASE j = i
      <4>1. r[j].xmit > 0 /\ r[j].seq = nxt BY <3>3, <3>1, <3>2, <1>1
      <4>2. Stop(r[j]) = new BY <3>3, <3>1, <3>2, <1>2, <2>2
      <4>3. nxt < new BY <3>1, <2>1, <2>2, <3>3
      <4> QED BY <4>1, <4>2, <4>3
    <3>4. CASE j < i
      <4>1. q[j].xmit > 0 BY <3>1, <3>4
      <4>2. r[j].xmit > 0 BY <4>1, <1>1, <3>4
      <4>3. r[j].seq < new /\ Stop(r[j]) <= new BY <4>1, <2>1, <2>2, <1>2, <1>3
      <4> QED BY <4>2, <4>3
    <3>5. CASE j > i
      <4>1. i \in 1 .. j - 1 BY <3>5
      <4>2. Stop(q[i]) <= q[j].seq BY <4>1, ChainOrder
      <4>3. Stop(q[i]) = new BY <3>1, <3>2, SegmentFields
      <4>4. ~ (r[j].seq < new) BY <4>2, <4>3, <2>2, <1>2
      <4>5. r[j].xmit = q[j].xmit BY <1>1, <3>5
      <4>6. ~ (q[j].xmit > 0) BY <4>2, <4>3, <1>3, <2>1, <2>2
      <4> QED BY <4>4, <4>5, <4>6
    <3> QED BY <3>3, <3>4, <3>5
  <2> QED BY <2>3, <2>4
<1>5. Chain(r, una, new)
  <2>1. una <= new BY <1>3 DEF Chain
  <2>2. ASSUME NEW j \in 1 .. Len(r)
        PROVE  /\ r[j].seq = IF j = 1 THEN una ELSE Stop(r[j - 1])
               /\ r[j].len > 0
               /\ r[j].ctl <=> r[j].seq = 0
               /\ r[j].ctl => r[j].len = 1
    <3>1. j \in 1 .. Len(q) /\ (j # 1 => j - 1 \in 1 .. Len(q)) BY <1>1
    <3>2. /\ q[j].seq = IF j = 1 THEN una ELSE Stop(q[j - 1])
          /\ q[j].len > 0
          /\ q[j].ctl <=> q[j].seq = 0
          /\ q[j].ctl => q[j].len = 1
      BY <3>1 DEF Chain
    <3> QED BY <3>1, <3>2, <1>2
  <2> QED BY <2>1, <2>2, <1>4, <1>1 DEF Chain
<1>6. Span(r, una) = Span(q, una)
  <2>1. r # <<>> /\ q # <<>> /\ Len(q) \in 1 .. Len(q) BY <1>1
  <2> QED BY <2>1, <1>1, <1>2 DEF Span
<1>7. ASSUME NEW j \in 1 .. Len(q), q[j].xmit > 0 \/ j = i PROVE r[j].xmit > 0
  <2>1. q[j].xmit \in Nat BY SegmentFields
  <2>2. CASE j = i BY <2>2, <2>1, <1>1
  <2>3. CASE j # i BY <2>3, <1>7, <1>1
  <2> QED BY <2>2, <2>3
<1>8. ASSUME NEW m \in Nat, Ends(q, m) PROVE Ends(r, m)
  <2>1. PICK j \in 1 .. Len(q) : q[j].xmit > 0 /\ m = Stop(q[j]) BY <1>8 DEF Ends
  <2>2. r[j].xmit > 0 /\ m = Stop(r[j]) /\ j \in 1 .. Len(r) BY <2>1, <1>7, <1>2, <1>1
  <2> QED BY <2>2 DEF Ends
<1>9. Ends(r, Stop(q[i]))
  <2>1. r[i].xmit > 0 /\ Stop(r[i]) = Stop(q[i]) /\ i \in 1 .. Len(r) BY <1>7, <1>2, <1>1
  <2> QED BY <2>1 DEF Ends
<1> QED BY <1>1, <1>5, <1>6, <1>8, <1>9 DEF r

\* What is left of n bytes after the first j segments.
LEMMA LeftFacts ==
  ASSUME NEW s \in Seq(Segment), NEW una \in Nat, NEW nxt \in Nat, Chain(s, una, nxt), NEW n \in Nat
  PROVE  /\ Left(s, n)[0] = n
         /\ \A j \in 1 .. Len(s) : Left(s, n)[j] = n + una - Stop(s[j])
<1> DEFINE D == 0 .. Len(s)
           left == Left(s, n)
           w == [j \in D |-> IF j = 0 THEN n ELSE n + una - Stop(s[j])]
           Step(f) == f = [j \in D |-> IF j = 0 THEN n ELSE f[j - 1] - s[j].len]
<1>1. Step(w)
  <2>1. ASSUME NEW j \in D, j # 0 PROVE n + una - Stop(s[j]) = w[j - 1] - s[j].len
    <3>1. j \in 1 .. Len(s) /\ j - 1 \in D BY <2>1
    <3>2. s[j].seq \in Nat /\ s[j].len \in Nat /\ Stop(s[j]) = s[j].seq + s[j].len
      BY <3>1, SegmentFields
    <3>3. CASE j = 1
      <4>1. w[j - 1] = n /\ s[j].seq = una BY <3>1, <3>3 DEF Chain
      <4> QED BY <4>1, <3>2
    <3>4. CASE j # 1
      <4>1. j - 1 \in 1 .. Len(s) /\ j - 1 # 0 BY <3>1, <3>4
      <4>2. w[j - 1] = n + una - Stop(s[j - 1]) BY <3>1, <4>1
      <4>3. s[j].seq = Stop(s[j - 1]) BY <3>1, <3>4 DEF Chain
      <4>4. Stop(s[j - 1]) \in Nat BY <4>1, SegmentFields
      <4> QED BY <4>2, <4>3, <4>4, <3>2
    <3> QED BY <3>3, <3>4
  <2> HIDE DEF D
  <2> QED BY <2>1
<1>2. left = CHOOSE f : Step(f) BY DEF Left
<1>3. Step(left) BY <1>1, <1>2
<1> HIDE DEF left, w
<1>4. left[0] = n
  <2>1. 0 \in D OBVIOUS
  <2> QED BY <2>1, <1>3
<1>5. \A j \in 1 .. Len(s) : left[j] = left[j - 1] - s[j].len
  <2>1. \A j \in 1 .. Len(s) : j \in D /\ j # 0 OBVIOUS
  <2> HIDE DEF D
  <2> QED BY <2>1, <1>3
<1> HIDE DEF Step
<1>6. \A j \in 1 .. Len(s) : left[j] = n + una - Stop(s[j])
  <2> DEFINE Bad == {j \in 1 .. Len(s) : left[j] # n + una - Stop(s[j])}
  <2>1. SUFFICES ASSUME Bad # {} PROVE FALSE OBVIOUS
  <2>2. Bad \subseteq Nat OBVIOUS
  <2>3. PICK j \in Bad : \A x \in Bad : j <= x BY <2>1, <2>2, MinFacts
  <2>4. j \in 1 .. Len(s) /\ left[j] = left[j - 1] - s[j].len BY <2>3, <1>5
  <2>5. s[j].seq \in Nat /\ s[j].len \in Nat /\ Stop(s[j]) = s[j].seq + s[j].len
    BY <2>4, SegmentFields
  <2>6. CASE j = 1
    <3>1. s[j].seq = una /\ left[j - 1] = n BY <2>6, <2>4, <1>4 DEF Chain
    <3> QED BY <3>1, <2>3, <2>4, <2>5
  <2>7. CASE j # 1
    <3>1. j - 1 \in 1 .. Len(s) /\ j - 1 \notin Bad BY <2>7, <2>3, <2>4
    <3>2. left[j - 1] = n + una - Stop(s[j - 1]) BY <3>1
    <3>3. s[j].seq = Stop(s[j - 1]) /\ Stop(s[j - 1]) \in Nat
      BY <2>7, <2>4, <3>1, SegmentFields DEF Chain
    <3> QED BY <3>2, <3>3, <2>3, <2>4, <2>5
  <2> QED BY <2>6, <2>7
<1> QED BY <1>4, <1>6 DEF left

\* An acknowledgement that names the end of a segment lets go of that segment
\* and of those before it: none is cut.
LEMMA FreedFacts ==
  ASSUME NEW s \in Seq(Segment), NEW una \in Nat, NEW nxt \in Nat, Chain(s, una, nxt),
         NEW h \in 1 .. Len(s)
  PROVE  Freed(s, Stop(s[h]) - una) = SubSeq(s, h + 1, Len(s))
<1> DEFINE n == Stop(s[h]) - una
           left == Left(s, n)
           K == {i \in 0 .. Len(s) : left[i] >= 0}
<1>1. una <= s[h].seq /\ s[h].seq < Stop(s[h]) /\ Stop(s[h]) \in Nat /\ s[h].seq \in Nat
  BY ChainSpan, SegmentFields
<1>2. n \in Nat BY <1>1
<1>3. left[0] = n /\ \A j \in 1 .. Len(s) : left[j] = n + una - Stop(s[j])
  BY <1>2, LeftFacts
<1> HIDE DEF left
<1>4. left[h] = 0 BY <1>1, <1>3
<1>5. h \in K /\ K \subseteq 0 .. Len(s) BY <1>4
<1>6. Max(K) \in K /\ h <= Max(K)
  <2>1. Len(s) \in Nat /\ K # {} BY <1>5
  <2> HIDE DEF K
  <2> QED BY <1>5, <2>1, MaxFacts
<1>7. Max(K) = h
  <2>1. SUFFICES ASSUME Max(K) # h PROVE FALSE OBVIOUS
  <2>2. PICK j \in K : j = Max(K) BY <1>6
  <2>3. j \in 1 .. Len(s) /\ h \in 1 .. j - 1 BY <2>1, <2>2, <1>6
  <2>4. Stop(s[h]) <= s[j].seq BY <2>3, ChainOrder
  <2>5. s[j].seq < Stop(s[j]) /\ Stop(s[j]) \in Nat /\ s[j].seq \in Nat
    BY <2>3, ChainSpan, SegmentFields
  <2>6. left[j] = n + una - Stop(s[j]) BY <2>3, <1>3
  <2>7. left[j] >= 0 BY <2>2
  <2> QED BY <2>4, <2>5, <2>6, <2>7, <1>1
<1>8. Freed(s, n) = IF left[Max(K)] = 0 THEN SubSeq(s, Max(K) + 1, Len(s))
                    ELSE [SubSeq(s, Max(K) + 1, Len(s)) EXCEPT ![1].len = @ - left[Max(K)]]
  BY DEF Freed, left
<1> QED BY <1>4, <1>7, <1>8

\* What follows a segment that was sent is a chain again.
LEMMA ChainFreed ==
  ASSUME NEW s \in Seq(Segment), NEW una \in Nat, NEW nxt \in Nat, Chain(s, una, nxt),
         NEW ack \in Nat, Ends(s, ack), una < ack
  PROVE  LET r == Freed(s, ack - una)
         IN /\ r \in Seq(Segment) /\ Chain(r, ack, nxt) /\ Span(r, ack) = Span(s, una)
            /\ ack <= nxt
            /\ \A m \in Nat : Ends(s, m) => m <= ack \/ Ends(r, m)
<1>1. PICK h \in 1 .. Len(s) : s[h].xmit > 0 /\ ack = Stop(s[h]) BY DEF Ends
<1> DEFINE r == SubSeq(s, h + 1, Len(s))
<1>2. Freed(s, ack - una) = r BY <1>1, FreedFacts
<1>3. /\ r \in Seq(Segment) /\ Len(r) = Len(s) - h
      /\ \A j \in 1 .. Len(s) - h : r[j] = s[h + j]
  <2>1. h \in 1 .. Len(s) BY <1>1
  <2> QED BY <2>1, SubSeqProperties
<1> HIDE DEF r
<1>4. ack <= nxt BY <1>1 DEF Chain
<1>5. ASSUME NEW j \in 1 .. Len(r)
      PROVE  /\ r[j].seq = IF j = 1 THEN ack ELSE Stop(r[j - 1])
             /\ r[j].len > 0 /\ (r[j].xmit > 0 <=> r[j].seq < nxt)
             /\ r[j].xmit > 0 => Stop(r[j]) <= nxt
             /\ r[j].ctl <=> r[j].seq = 0
             /\ r[j].ctl => r[j].len = 1
  <2>1. h + j \in 1 .. Len(s) /\ h + j # 1 /\ h + j - 1 = h + (j - 1) /\ h + 1 - 1 = h BY <1>1, <1>3
  <2>2. r[j] = s[h + j] BY <1>3
  <2>3. s[h + j].seq = Stop(s[h + j - 1]) BY <2>1 DEF Chain
  <2>4. r[j].seq = IF j = 1 THEN ack ELSE Stop(r[j - 1])
    <3>1. CASE j = 1 BY <3>1, <2>1, <2>2, <2>3, <1>1
    <3>2. CASE j # 1
      <4>1. j - 1 \in 1 .. Len(s) - h BY <3>2, <1>3
      <4>2. r[j - 1] = s[h + (j - 1)] BY <4>1, <1>3
      <4> QED BY <4>2, <3>2, <2>1, <2>2, <2>3
    <3> QED BY <3>1, <3>2
  <2> QED BY <2>1, <2>2, <2>4 DEF Chain
<1>6. Chain(r, ack, nxt) BY <1>4, <1>5 DEF Chain
<1>7. Span(r, ack) = Span(s, una)
  <2>1. s # <<>> /\ h \in 1 .. Len(s) /\ Len(s) \in Nat BY <1>1
  <2>2. CASE h = Len(s)
    <3>1. r = <<>> BY <2>2, <1>3
    <3> QED BY <3>1, <2>1, <2>2, <1>1 DEF Span
  <2>3. CASE h # Len(s)
    <3>1. Len(s) - h \in 1 .. Len(s) - h /\ h + (Len(s) - h) = Len(s) BY <2>3, <2>1
    <3>2. r # <<>> /\ r[Len(r)] = s[Len(s)] BY <3>1, <1>3
    <3> QED BY <3>2, <2>1 DEF Span
  <2> QED BY <2>2, <2>3
<1>8. ASSUME NEW m \in Nat, Ends(s, m) PROVE m <= ack \/ Ends(r, m)
  <2>1. PICK j \in 1 .. Len(s) : s[j].xmit > 0 /\ m = Stop(s[j]) BY <1>8 DEF Ends
  <2>2. CASE j > h
    <3>1. j - h \in 1 .. Len(s) - h /\ h + (j - h) = j BY <2>2, <2>1, <1>1
    <3>2. r[j - h] = s[j] /\ j - h \in 1 .. Len(r) BY <3>1, <1>3
    <3> QED BY <3>2, <2>1 DEF Ends
  <2>3. CASE j = h BY <2>3, <2>1, <1>1
  <2>4. CASE j < h
    <3>1. h \in 1 .. Len(s) /\ j \in 1 .. h - 1 BY <2>4, <1>1
    <3>2. Stop(s[j]) <= s[h].seq BY <3>1, ChainOrder
    <3>3. s[h].seq < Stop(s[h]) /\ s[h].seq \in Nat BY <3>1, ChainSpan, SegmentFields
    <3> QED BY <3>2, <3>3, <2>1, <1>1
  <2> QED BY <2>2, <2>3, <2>4, <1>1, <2>1
<1> QED BY <1>2, <1>3, <1>4, <1>6, <1>7, <1>8

\* A new segment at the end of a chain.
LEMMA ChainAppend ==
  ASSUME NEW s \in Seq(Segment), NEW una \in Nat, NEW nxt \in Nat, Chain(s, una, nxt),
         NEW e \in Segment, e.seq = Span(s, una), e.len > 0, e.xmit = 0, nxt <= Span(s, una),
         e.ctl <=> e.seq = 0, e.ctl => e.len = 1
  PROVE  /\ Append(s, e) \in Seq(Segment) /\ Chain(Append(s, e), una, nxt)
         /\ Span(Append(s, e), una) = Span(s, una) + e.len
         /\ \A m \in Nat : Ends(s, m) => Ends(Append(s, e), m)
<1> DEFINE q == Append(s, e)
<1>1. /\ q \in Seq(Segment) /\ Len(q) = Len(s) + 1 /\ q[Len(s) + 1] = e
      /\ \A j \in 1 .. Len(s) : q[j] = s[j]
  OBVIOUS
<1> HIDE DEF q
<1>2. e.seq \in Nat /\ e.len \in Nat /\ e.xmit \in Nat /\ Stop(e) = e.seq + e.len BY DEF Segment, Stop
<1>3. ASSUME NEW j \in 1 .. Len(q)
      PROVE  /\ q[j].seq = IF j = 1 THEN una ELSE Stop(q[j - 1])
             /\ q[j].len > 0 /\ (q[j].xmit > 0 <=> q[j].seq < nxt)
             /\ q[j].xmit > 0 => Stop(q[j]) <= nxt
             /\ q[j].ctl <=> q[j].seq = 0
             /\ q[j].ctl => q[j].len = 1
  <2>1. CASE j \in 1 .. Len(s)
    <3>1. q[j] = s[j] /\ (j # 1 => q[j - 1] = s[j - 1]) BY <2>1, <1>1
    <3> QED BY <3>1, <2>1 DEF Chain
  <2>2. CASE j = Len(s) + 1
    <3>1. q[j].seq = IF j = 1 THEN una ELSE Stop(q[j - 1])
      <4>1. CASE s = <<>> BY <4>1, <2>2, <1>1 DEF Span
      <4>2. CASE s # <<>>
        <5>1. j # 1 /\ j - 1 = Len(s) /\ Len(s) \in 1 .. Len(s) BY <4>2, <2>2
        <5> QED BY <5>1, <4>2, <2>2, <1>1 DEF Span
      <4> QED BY <4>1, <4>2
    <3>2. q[j] = e BY <2>2, <1>1
    <3>3. ~ (e.seq < nxt) /\ ~ (e.xmit > 0) BY <1>2, ChainSpan
    <3> QED BY <3>1, <3>2, <3>3
  <2> QED BY <2>1, <2>2, <1>1
<1>4. Chain(q, una, nxt) BY <1>3 DEF Chain
<1>5. Span(q, una) = Span(s, una) + e.len
  <2>1. q # <<>> /\ q[Len(q)] = e BY <1>1
  <2> QED BY <2>1, <1>2 DEF Span
<1>6. ASSUME NEW m \in Nat, Ends(s, m) PROVE Ends(q, m)
  <2>1. PICK j \in 1 .. Len(s) : s[j].xmit > 0 /\ m = Stop(s[j]) BY <1>6 DEF Ends
  <2>2. j \in 1 .. Len(q) /\ q[j] = s[j] BY <2>1, <1>1
  <2> QED BY <2>1, <2>2 DEF Ends
<1> QED BY <1>1, <1>4, <1>5, <1>6 DEF q

\* More bytes in the last segment of a chain, which was not sent and is no
\* control segment.
LEMMA ChainExtend ==
  ASSUME NEW s \in Seq(Segment), s # <<>>, NEW una \in Nat, NEW nxt \in Nat, Chain(s, una, nxt),
         NEW n \in Nat, s[Len(s)].xmit = 0, ~ s[Len(s)].ctl
  PROVE  LET q == [s EXCEPT ![Len(s)].len = @ + n]
         IN /\ q \in Seq(Segment) /\ Chain(q, una, nxt)
            /\ Span(q, una) = Span(s, una) + n
            /\ \A m \in Nat : Ends(s, m) => Ends(q, m)
<1> DEFINE k == Len(s)
           c == [s[k] EXCEPT !.len = @ + n]
           q == [s EXCEPT ![k] = c]
<1>1. k \in 1 .. Len(s) OBVIOUS
<1>2. s[k] \in Segment /\ s[k].len + n \in Nat /\ DOMAIN s[k] = {"seq", "len", "ctl", "xmit"}
      /\ s[k].seq \in Nat /\ s[k].len \in Nat /\ Stop(s[k]) = s[k].seq + s[k].len
  BY <1>1, SegmentFields
<1>3. c \in Segment BY <1>2 DEF Segment
<1>4. c.seq = s[k].seq /\ c.len = s[k].len + n /\ c.ctl = s[k].ctl /\ c.xmit = s[k].xmit
  BY <1>2
<1>5. [s EXCEPT ![Len(s)].len = @ + n] = q OBVIOUS
<1> HIDE DEF c
<1>6. /\ q \in Seq(Segment) /\ Len(q) = Len(s) /\ q[k] = c
      /\ \A j \in 1 .. Len(s) : j # k => q[j] = s[j]
  <2>1. q \in Seq(Segment) /\ Len(q) = Len(s)
        /\ \A j \in 1 .. Len(s) : q[j] = IF j = k THEN c ELSE s[j]
    BY <1>3, <1>1, ExceptSeq
  <2> QED BY <2>1, <1>1
<1> HIDE DEF q
<1>7. Stop(c) = Stop(s[k]) + n BY <1>2, <1>4 DEF Stop
<1>8. ASSUME NEW j \in 1 .. Len(q)
      PROVE  /\ q[j].seq = IF j = 1 THEN una ELSE Stop(q[j - 1])
             /\ q[j].len > 0 /\ (q[j].xmit > 0 <=> q[j].seq < nxt)
             /\ q[j].xmit > 0 => Stop(q[j]) <= nxt
             /\ q[j].ctl <=> q[j].seq = 0
             /\ q[j].ctl => q[j].len = 1
  <2>1. j \in 1 .. Len(s) /\ (j # 1 => j - 1 \in 1 .. Len(s) /\ j - 1 # k) BY <1>6
  <2>2. j # 1 => q[j - 1] = s[j - 1] BY <2>1, <1>6
  <2>3. CASE j = k
    <3>1. /\ s[k].seq = IF j = 1 THEN una ELSE Stop(s[j - 1])
          /\ s[k].len > 0 /\ (s[k].xmit > 0 <=> s[k].seq < nxt)
          /\ s[k].ctl <=> s[k].seq = 0
      BY <2>3, <1>1 DEF Chain
    <3>2. q[j] = c BY <2>3, <1>6
    <3> QED BY <3>1, <3>2, <2>2, <1>2, <1>4
  <2>4. CASE j # k
    <3>1. q[j] = s[j] BY <2>4, <2>1, <1>6
    <3> QED BY <3>1, <2>1, <2>2 DEF Chain
  <2> QED BY <2>3, <2>4
<1>9. Chain(q, una, nxt) BY <1>8 DEF Chain
<1>10. Span(q, una) = Span(s, una) + n
  <2>1. q # <<>> /\ Len(q) = k BY <1>6, <1>1
  <2> QED BY <2>1, <1>6, <1>7 DEF Span
<1>11. ASSUME NEW m \in Nat, Ends(s, m) PROVE Ends(q, m)
  <2>1. PICK j \in 1 .. Len(s) : s[j].xmit > 0 /\ m = Stop(s[j]) BY <1>11 DEF Ends
  <2>2. j \in 1 .. Len(q) /\ j # k /\ q[j] = s[j] BY <2>1, <1>1, <1>6
  <2> QED BY <2>1, <2>2 DEF Ends
<1> QED BY <1>5, <1>6, <1>9, <1>10, <1>11

-----------------------------------------------------------------------------
(* What the operations leave alone, and what they may change.              *)

\* The numbers of a record, for the arithmetic of the proofs.
LEMMA Numbers ==
  ASSUME NEW t, Typed(t)
  PROVE  /\ t.snd_una \in Nat /\ t.snd_nxt \in Nat /\ t.snd_wnd \in Nat /\ t.snd_wnd <= RcvBufSize
         /\ t.rcv_nxt \in Nat /\ t.rcv_wnd \in Nat /\ t.rcv_wnd <= RcvBufSize
         /\ t.rlen \in Nat /\ t.rlen <= RcvBufSize /\ RcvBufSize \in Nat /\ SndBufSize \in Nat
         /\ Len(t.sbuf) \in Nat /\ Total(t) \in Nat /\ Stream(t) \in Nat /\ Edge(t) \in Nat
         /\ t.mss \in Nat \ {0} /\ t.cwnd \in Nat \ {0} /\ t.ssthresh \in Nat \ {0}
         /\ t.dup_acks \in Nat /\ t.recover \in Nat /\ t.doublings \in Nat
         /\ Len(t.out) \in Nat /\ Len(t.slist) \in Nat
         /\ Total(t) = t.snd_una + Len(t.sbuf) /\ Edge(t) = t.rcv_nxt + t.rcv_wnd
<1>1. RcvBufSize \in Nat \ {0} /\ SndBufSize \in Nat \ {0} /\ Patience \in Nat \ {0}
      /\ CwndBound = RcvBufSize + SndBufSize /\ DupsBound \in Nat \ {0} /\ Len(Mss) \in Nat \ {0}
  BY Sizes
<1>2. t.sbuf \in Seq(Nat) /\ t.slist \in Seq(Segment) /\ t.out \in Seq(Packet) BY DEF Typed
<1>3. Len(t.sbuf) \in Nat /\ Len(t.slist) \in Nat /\ Len(t.out) \in Nat BY <1>2
<1>4. t.snd_una \in Nat /\ t.snd_nxt \in Nat /\ t.rcv_nxt \in Nat /\ t.recover \in Nat
      /\ t.mss \in Nat \ {0} /\ t.ssthresh \in Nat \ {0}
  BY DEF Typed
<1>5. t.snd_wnd \in Nat /\ t.snd_wnd <= RcvBufSize /\ t.rcv_wnd \in Nat /\ t.rcv_wnd <= RcvBufSize
      /\ t.rlen \in Nat /\ t.rlen <= RcvBufSize /\ t.cwnd \in Nat \ {0}
      /\ t.dup_acks \in Nat /\ t.doublings \in Nat
  <2>1. t.snd_wnd \in 0 .. RcvBufSize /\ t.rcv_wnd \in 0 .. RcvBufSize /\ t.rlen \in 0 .. RcvBufSize
    BY DEF Typed
  <2>2. t.cwnd \in 1 .. CwndBound /\ t.dup_acks \in 0 .. DupsBound /\ t.doublings \in 0 .. Patience
    BY DEF Typed
  <2> QED BY <2>1, <2>2, <1>1
<1>6. Total(t) \in Nat /\ Stream(t) \in Nat /\ Edge(t) \in Nat
  <2>1. Total(t) \in Nat BY <1>3, <1>4 DEF Total
  <2>2. Stream(t) \in Nat BY <2>1 DEF Stream
  <2>3. Edge(t) \in Nat BY <1>4, <1>5 DEF Edge
  <2> QED BY <2>1, <2>2, <2>3
<1> QED BY <1>1, <1>3, <1>4, <1>5, <1>6 DEF Total, Edge

\* The sending half stays good when its fields are the same,
LEMMA LineSame ==
  ASSUME NEW t, NEW u, NEW o, SameLine(t, u), Line(t, o)
  PROVE  Line(u, o)
<1>1. u.state = t.state /\ u.slist = t.slist /\ u.snd_una = t.snd_una /\ u.snd_nxt = t.snd_nxt
      /\ u.snd_wnd = t.snd_wnd
  BY DEF SameLine
<1>2. Flow(t) => Flow(u) BY DEF SameLine, Flow, Total
<1> QED BY <1>1, <1>2 DEF Line

\* ... and the receiving half, too.
LEMMA EarSame ==
  ASSUME NEW t, NEW u, NEW o, NEW k, SameEar(t, u), Ear(t, o, k)
  PROVE  Ear(u, o, k)
<1>1. \A s : Saved(t, o, k, s) => Saved(u, o, k, s) BY DEF SameEar, Saved
<1> QED BY <1>1 DEF SameEar, Ear

\* An operation that leaves the receiving half alone and lets go of nothing
\* that the other end may name moves on.
LEMMA MovesSame ==
  ASSUME NEW t, NEW u, Typed(t), Typed(u), SameLine(t, u), SameEar(t, u), t.state # "CLOSED" => Flow(t)
  PROVE  Moves(t, u)
<1>1. u.state = t.state /\ u.snd_nxt = t.snd_nxt /\ Stream(u) = Stream(t) BY DEF SameLine, Stream, Total
<1>2. \A n \in Nat : AtPoint(t, n) => AtPoint(u, n) BY DEF SameLine, AtPoint
<1>3. u.rcv_nxt = t.rcv_nxt /\ u.rcv_wnd = t.rcv_wnd /\ u.shutdown = t.shutdown BY DEF SameEar
<1>4. Edge(u) = Edge(t) BY <1>3 DEF Edge
<1>5. t.state # "CLOSED" => t.snd_nxt <= Stream(t)
  <2>1. SUFFICES ASSUME t.state # "CLOSED" PROVE t.snd_nxt <= Stream(t) OBVIOUS
  <2>2. t.snd_nxt <= Total(t) /\ (t.state = "LISTEN" => Total(t) = 0) BY <2>1 DEF Flow
  <2>3. t.snd_nxt \in Nat /\ Total(t) \in Nat BY Numbers
  <2> QED BY <2>2, <2>3 DEF Stream
<1>6. t.rcv_nxt \in Nat /\ Edge(t) \in Nat BY Numbers
<1> QED BY <1>1, <1>2, <1>3, <1>4, <1>5, <1>6 DEF Moves, Onward

\* Such operations add up.
LEMMA MovesTrans ==
  ASSUME NEW t, NEW u, NEW v, Typed(t), Typed(u), Typed(v), Moves(t, u), Moves(u, v)
  PROVE  Moves(t, v)
<1>1. t.rcv_nxt <= v.rcv_nxt /\ Edge(t) <= Edge(v)
  <2>1. t.rcv_nxt <= u.rcv_nxt /\ Edge(t) <= Edge(u) /\ u.rcv_nxt <= v.rcv_nxt /\ Edge(u) <= Edge(v)
    BY DEF Moves, Onward
  <2>2. t.rcv_nxt \in Nat /\ u.rcv_nxt \in Nat /\ v.rcv_nxt \in Nat /\ Edge(t) \in Nat
        /\ Edge(u) \in Nat /\ Edge(v) \in Nat
    BY Numbers
  <2> QED BY <2>1, <2>2
<1>2. \A n \in Nat : AtPoint(t, n) => AtPoint(v, n) BY DEF Moves, Onward
<1>3. v.shutdown = t.shutdown /\ (v.state # "CLOSED" => t.state # "CLOSED" /\ Stream(v) = Stream(t))
  BY DEF Moves, Onward
<1>4. t.state # "CLOSED" => v.snd_nxt <= Stream(t)
  <2>1. CASE u.state # "CLOSED" BY <2>1 DEF Moves, Onward
  <2>2. CASE u.state = "CLOSED" BY <2>2 DEF Moves, Onward
  <2> QED BY <2>1, <2>2
<1>5. t.state = "CLOSED" => v.snd_nxt = t.snd_nxt BY DEF Moves, Onward
<1> QED BY <1>1, <1>2, <1>3, <1>4, <1>5 DEF Moves, Onward

\* A packet stays good whatever the sender does after it,
LEMMA BetweenSender ==
  ASSUME NEW p, NEW t, NEW u, NEW o, NEW g \in Packet, Typed(t), Typed(u), Onward(t, u), Between(p, t, o, g)
  PROVE  Between(p, u, o, g)
<1>1. g.seq \in Int /\ g.ack \in Nat /\ g.wnd \in Nat /\ g.data \in Seq(Nat) BY DEF Packet
<1>2. Len(g.data) \in Nat BY <1>1
<1>3. g.data # <<>> => AtPoint(u, g.seq + Len(g.data))
  <2>1. SUFFICES ASSUME g.data # <<>> PROVE AtPoint(u, g.seq + Len(g.data)) OBVIOUS
  <2>2. g.seq + Len(g.data) \in Nat BY <2>1, <1>1, <1>2 DEF Between
  <2> QED BY <2>1, <2>2 DEF Between, Moves, Onward
<1>4. g.ack <= u.rcv_nxt /\ g.ack + g.wnd <= Edge(u)
  <2>1. g.ack <= t.rcv_nxt /\ g.ack + g.wnd <= Edge(t) BY DEF Between
  <2>2. t.rcv_nxt <= u.rcv_nxt /\ Edge(t) <= Edge(u) BY DEF Moves, Onward
  <2>3. t.rcv_nxt \in Nat /\ u.rcv_nxt \in Nat /\ Edge(t) \in Nat /\ Edge(u) \in Nat BY Numbers
  <2> QED BY <1>1, <2>1, <2>2, <2>3
<1> QED BY <1>3, <1>4 DEF Between

\* ... and whatever the end it is sent to does before it arrives.
LEMMA BetweenReceiver ==
  ASSUME NEW p, NEW t, NEW o, NEW v, NEW g \in Packet, Onward(o, v), Between(p, t, o, g)
  PROVE  Between(p, t, v, g)
<1>1. g.ack \in Nat BY DEF Packet
<1>2. AtPoint(v, g.ack) BY <1>1 DEF Between, Moves, Onward
<1> QED BY <1>2 DEF Between

\* What one end does leaves the other one sound.
LEMMA SoundOther ==
  ASSUME NEW p, NEW t, NEW o, NEW v, NEW k, Typed(o), Typed(v), Onward(o, v), Sound(p, t, o, k)
  PROVE  Sound(p, t, v, k)
<1>1. Typed(t) BY DEF Sound
<1>2. Line(t, v)
  <2>1. Line(t, o) BY DEF Sound
  <2>2. o.rcv_nxt <= v.rcv_nxt /\ Edge(o) <= Edge(v) BY DEF Moves, Onward
  <2>3. o.rcv_nxt \in Nat /\ v.rcv_nxt \in Nat /\ Edge(o) \in Nat /\ Edge(v) \in Nat
        /\ t.snd_una \in Nat /\ t.snd_nxt \in Nat /\ t.snd_wnd \in Nat
    BY <1>1, Numbers
  <2>4. t.snd_una <= v.rcv_nxt /\ t.snd_una + t.snd_wnd <= Edge(v) /\ t.snd_nxt <= Edge(v)
    BY <2>1, <2>2, <2>3 DEF Line
  <2> QED BY <2>1, <2>4 DEF Line
<1>3. Ear(t, v, k)
  <2>1. Ear(t, o, k) BY DEF Sound
  <2>2. AtPoint(v, t.rcv_nxt)
    <3>1. t.rcv_nxt \in Nat BY <1>1, Numbers
    <3> QED BY <2>1, <3>1 DEF Ear, Moves, Onward
  <2>3. ASSUME NEW s \in t.rlist, Saved(t, o, k, s) PROVE Saved(t, v, k, s)
    <3>1. s \in [seq : Nat, len : Nat] BY <1>1 DEF Typed
    <3>2. Stop(s) \in Nat BY <3>1 DEF Stop
    <3>3. AtPoint(v, Stop(s)) BY <3>2, <2>3 DEF Saved, Moves, Onward
    <3> QED BY <3>3, <2>3 DEF Saved
  <2> QED BY <2>1, <2>2, <2>3 DEF Ear
<1>4. Says(p, t, v)
  <2>1. ASSUME NEW i \in 1 .. Len(t.out) PROVE Between(p, t, v, t.out[i])
    <3>1. t.out[i] \in Packet BY <1>1 DEF Typed
    <3>2. Between(p, t, o, t.out[i]) BY DEF Sound, Says
    <3> QED BY <3>1, <3>2, BetweenReceiver
  <2> QED BY <2>1 DEF Says
<1> QED BY <1>1, <1>2, <1>3, <1>4 DEF Sound

\* What is sound stays so when each half is, and when what it says is good.
LEMMA SoundAfter ==
  ASSUME NEW p, NEW t, NEW u, NEW o, NEW k, NEW m, Sound(p, t, o, k),
         Typed(u), Line(u, o), Pace(u), Ear(u, o, m), Onward(t, u),
         u.out = t.out \/ \E g \in Packet : u.out = Append(t.out, g) /\ Between(p, u, o, g)
  PROVE  Sound(p, u, o, m)
<1>1. Typed(t) /\ Says(p, t, o) /\ t.out \in Seq(Packet) BY DEF Sound, Typed
<1>2. ASSUME NEW i \in 1 .. Len(t.out) PROVE Between(p, u, o, t.out[i])
  <2>1. t.out[i] \in Packet /\ Between(p, t, o, t.out[i]) BY <1>1 DEF Says
  <2> QED BY <2>1, <1>1, BetweenSender
<1>3. Says(p, u, o)
  <2>1. CASE u.out = t.out BY <2>1, <1>2 DEF Says
  <2>2. CASE \E g \in Packet : u.out = Append(t.out, g) /\ Between(p, u, o, g)
    <3>1. PICK g \in Packet : u.out = Append(t.out, g) /\ Between(p, u, o, g) BY <2>2
    <3>2. ASSUME NEW i \in 1 .. Len(u.out) PROVE Between(p, u, o, u.out[i])
      <4>1. Len(u.out) = Len(t.out) + 1 /\ u.out[Len(t.out) + 1] = g
            /\ \A j \in 1 .. Len(t.out) : u.out[j] = t.out[j]
        BY <3>1, <1>1
      <4>2. CASE i \in 1 .. Len(t.out) BY <4>1, <4>2, <1>2
      <4>3. CASE i = Len(t.out) + 1 BY <4>1, <4>3, <3>1
      <4> QED BY <4>1, <4>2, <4>3, <1>1
    <3> QED BY <3>2 DEF Says
  <2> QED BY <2>1, <2>2
<1> QED BY <1>3 DEF Sound

\* A change of pace alone.
LEMMA PaceOnly ==
  ASSUME NEW p, NEW t, NEW u, NEW o, NEW k, Sound(p, t, o, k),
         Typed(u), SameLine(t, u), SameEar(t, u), Pace(u), u.out = t.out
  PROVE  Sound(p, u, o, k) /\ Moves(t, u)
<1>1. Typed(t) /\ Line(t, o) /\ Ear(t, o, k) BY DEF Sound
<1>2. Moves(t, u) BY <1>1, MovesSame DEF Line
<1>3. Line(u, o) /\ Ear(u, o, k) BY <1>1, LineSame, EarSame
<1> QED BY <1>2, <1>3, SoundAfter DEF Moves

-----------------------------------------------------------------------------
(* Sending.                                                                *)

\* A packet without data: an acknowledgement, or a probe.
LEMMA BarePacket ==
  ASSUME NEW p, NEW t, NEW o, NEW k, Sound(p, t, o, k), NEW seq \in Int
  PROVE  LET u == packet(t, seq, FALSE, <<>>)
         IN /\ Sound(p, u, o, k) /\ Moves(t, u) /\ Kept(t, u) /\ SameLine(t, u)
            /\ u.mss = t.mss /\ u.cwnd = t.cwnd
<1> DEFINE u == packet(t, seq, FALSE, <<>>)
           g == [seq |-> seq, ctl |-> FALSE, ack |-> t.rcv_nxt, wnd |-> t.rcv_wnd, data |-> <<>>]
<1>1. Typed(t) /\ Line(t, o) /\ Ear(t, o, k) /\ Pace(t) BY DEF Sound
<1>2. t.rcv_nxt \in Nat /\ t.rcv_wnd \in Nat /\ t.rcv_wnd <= RcvBufSize /\ <<>> \in Seq(Nat)
  BY <1>1, Numbers
<1>3. g \in Packet BY <1>2 DEF Packet
<1>4. Typed(u) BY SMTT(30), <1>1, <1>3 DEF Typed, Fields, packet
<1>5. SameLine(t, u) /\ SameEar(t, u) /\ Kept(t, u) /\ u.mss = t.mss /\ u.cwnd = t.cwnd
      /\ u.msslevel = t.msslevel /\ u.recover = t.recover /\ u.out = Append(t.out, g)
  BY <1>1 DEF Typed, Fields, packet, SameLine, SameEar, Kept
<1> HIDE DEF u
<1>6. Line(u, o) /\ Ear(u, o, k) BY <1>1, <1>5, LineSame, EarSame
<1>7. Pace(u) BY <1>1, <1>5 DEF Pace, SameLine
<1>8. Moves(t, u) BY <1>1, <1>4, <1>5, MovesSame DEF Line
<1>9. Between(p, u, o, g)
  <2>1. AtPoint(o, t.rcv_nxt) BY <1>1 DEF Ear
  <2>2. u.rcv_nxt = t.rcv_nxt /\ u.rcv_wnd = t.rcv_wnd BY <1>5 DEF SameEar
  <2>3. g.ack + g.wnd <= Edge(u) BY <2>2, <1>2 DEF Edge
  <2> QED BY <2>1, <2>2, <2>3, <1>2 DEF Between
<1> HIDE DEF g
<1>10. Sound(p, u, o, k) BY <1>3, <1>4, <1>5, <1>6, <1>7, <1>8, <1>9, SoundAfter DEF Moves
<1> QED BY <1>5, <1>8, <1>10 DEF u

\* A smaller segment size is found whenever the path does not take n bytes.
LEMMA FitFacts ==
  ASSUME NEW t, Typed(t), Pace(t), NEW n \in Nat, n <= t.mss, t.state = "ESTABLISHED" \/ n <= 1,
         NEW w \in Range(Mss)
  PROVE  LET f == Fit(t, n, w)
         IN /\ Typed(f) /\ Pace(f) /\ Kept(t, f) /\ SameLine(t, f) /\ f.out = t.out
<1>1. CASE n <= w
  <2>1. Fit(t, n, w) = t BY <1>1 DEF Fit
  <2> QED BY <2>1 DEF Kept, SameLine, SameEar
<1>2. CASE ~ (n <= w)
  <2> DEFINE K == {k \in t.msslevel + 1 .. Len(Mss) : Mss[k] <= w}
             l == Min(K)
             f == Fit(t, n, w)
  <2>1. w \in Nat \ {0} BY Sizes
  <2>2. PICK j \in 1 .. Len(Mss) : w = Mss[j] BY Sizes
  <2>3. t.state = "ESTABLISHED" BY <2>1, <1>2
  <2>4. t.mss = Mss[t.msslevel] /\ t.msslevel \in 1 .. Len(Mss) /\ t.mss \in Nat /\ Len(Mss) \in Nat
    BY <2>3, Sizes DEF Pace, Typed
  <2>5. t.msslevel < j
    <3>1. SUFFICES ASSUME ~ (t.msslevel < j) PROVE FALSE OBVIOUS
    <3>2. Mss[j] < Mss[t.msslevel] BY <1>2, <2>1, <2>2, <2>4
    <3>3. CASE j = t.msslevel BY <3>3, <3>2, <2>2, <2>1
    <3>4. CASE j < t.msslevel
      <4>1. Mss[t.msslevel] < Mss[j] BY <3>4, <2>2, <2>4, Sizes
      <4> QED BY <4>1, <3>2, <2>1, <2>2, <2>4
    <3> QED BY <3>1, <3>3, <3>4, <2>2, <2>4
  <2>6. j \in K /\ K \subseteq Nat BY <2>1, <2>2, <2>4, <2>5
  <2>7. l \in K
    <3> HIDE DEF K
    <3> QED BY <2>6, MinFacts
  <2>8. l \in 1 .. Len(Mss) BY <2>7, <2>4
  <2>9. f = [t EXCEPT !.msslevel = l, !.mss = Mss[l], !.cwnd = 2 * Mss[l]] BY <1>2 DEF Fit
  <2> HIDE DEF l
  <2>10. Mss[l] \in Nat \ {0} /\ Mss[l] \in Range(Mss) /\ 2 * Mss[l] <= CwndBound /\ CwndBound \in Nat
    BY <2>8, Sizes
  <2>11. 2 * Mss[l] \in 1 .. CwndBound BY <2>10
  <2> HIDE DEF f
  <2>12. Typed(f) BY <2>8, <2>9, <2>10, <2>11 DEF Typed, Fields
  <2>13. Kept(t, f) /\ SameLine(t, f) /\ f.out = t.out /\ f.msslevel = l /\ f.mss = Mss[l]
    BY <2>9 DEF Typed, Fields, Kept, SameLine, SameEar
  <2>14. Pace(f) BY <2>10, <2>13 DEF Pace, Kept, SameLine
  <2> QED BY <2>12, <2>13, <2>14 DEF f
<1> QED BY <1>1, <1>2

\* Splitting changes the list of segments alone.
LEMMA SplitFacts ==
  ASSUME NEW t, Typed(t), NEW i \in 1 .. Len(t.slist), NEW n \in Nat \ {0},
         Chain(t.slist, t.snd_una, t.snd_nxt)
  PROVE  LET u == Split(t, i, n)
         IN /\ Typed(u) /\ u.slist = Cut(t.slist, i, n) /\ Kept(t, u)
            /\ u.snd_nxt = t.snd_nxt /\ u.rto = t.rto /\ u.out = t.out
            /\ u.mss = t.mss /\ u.msslevel = t.msslevel /\ u.cwnd = t.cwnd
<1>1. t.slist \in Seq(Segment) /\ t.snd_una \in Nat /\ t.snd_nxt \in Nat BY DEF Typed
<1>2. CASE ~ (n < t.slist[i].len)
  <2>1. Split(t, i, n) = t /\ Cut(t.slist, i, n) = t.slist BY <1>2 DEF Split, Cut
  <2> QED BY <2>1 DEF Kept, SameEar
<1>3. CASE n < t.slist[i].len
  <2> DEFINE c == Cut(t.slist, i, n)
             u == Split(t, i, n)
  <2>1. u = [t EXCEPT !.slist = c] BY <1>3 DEF Split, Cut
  <2>2. c \in Seq(Segment) BY <1>1, ChainCut
  <2> HIDE DEF c, u
  <2>3. Typed(u) BY <2>1, <2>2 DEF Typed, Fields
  <2>4. Kept(t, u) BY <2>1 DEF Typed, Fields, Kept, SameEar
  <2>5. /\ u.slist = c /\ u.snd_nxt = t.snd_nxt /\ u.rto = t.rto /\ u.out = t.out
        /\ u.mss = t.mss /\ u.msslevel = t.msslevel /\ u.cwnd = t.cwnd
    BY <2>1 DEF Typed, Fields
  <2> QED BY <2>3, <2>4, <2>5 DEF c, u
<1> QED BY <1>2, <1>3

\* What each of two operations leaves alone, both do.
LEMMA KeptTrans ==
  ASSUME NEW t, NEW u, NEW v, Kept(t, u), Kept(u, v)
  PROVE  Kept(t, v)
BY DEF Kept, SameEar

\* The segment that is transmitted may go: it was sent before, or it is the
\* first one that was not, and the window is open for all of it.
Ready(t, i) ==
  /\ i \in 1 .. Len(t.slist)
  /\ \/ t.slist[i].xmit > 0
     \/ /\ t.slist[i].xmit = 0 /\ \A j \in 1 .. i - 1 : t.slist[j].xmit > 0
        /\ t.snd_nxt + t.slist[i].len <= t.snd_una + t.snd_wnd

\* What transmit does to the fields.
LEMMA TransmitFields ==
  ASSUME NEW t, NEW o, Typed(t), Pace(t), Line(t, o), t.state # "CLOSED", NEW i, Ready(t, i),
         NEW w \in Range(Mss)
  PROVE  LET u == transmit(t, i, w)
             s == t.slist[i]
         IN \E n \in Nat \ {0} :
              /\ n <= s.len /\ (s.ctl => n = 1)
              /\ Typed(u) /\ Kept(t, u) /\ u.slist = Mark(Cut(t.slist, i, n), i)
              /\ u.snd_nxt = (IF s.xmit = 0 THEN t.snd_nxt + n ELSE t.snd_nxt) /\ u.rto = TRUE
              /\ u.out = Append(t.out, [seq |-> s.seq, ctl |-> s.ctl, ack |-> t.rcv_nxt, wnd |-> t.rcv_wnd,
                            data |-> SubSeq(t.sbuf, s.seq - t.snd_una + 1, s.seq - t.snd_una + n)])
              /\ u.out \in Seq(Packet)
              /\ (t.state = "ESTABLISHED" => u.mss = Mss[u.msslevel])
              /\ u.mss \in {FirstMss} \union Range(Mss)
<1> DEFINE s == t.slist[i]
           m == Smaller(s.len, t.mss)
           f == Fit(t, m, w)
           n == Smaller(s.len, f.mss)
           data == SubSeq(t.sbuf, s.seq - t.snd_una + 1, s.seq - t.snd_una + n)
           g == [seq |-> s.seq, ctl |-> s.ctl, ack |-> t.rcv_nxt, wnd |-> t.rcv_wnd, data |-> data]
           pk == packet(f, s.seq, s.ctl, data)
           v == Split(pk, i, n)
           u == transmit(t, i, w)
<1>1. /\ i \in 1 .. Len(t.slist) /\ t.slist \in Seq(Segment) /\ t.sbuf \in Seq(Nat)
      /\ t.snd_una \in Nat /\ t.snd_nxt \in Nat /\ t.rcv_nxt \in Nat /\ t.rcv_wnd \in Nat
      /\ t.mss \in Nat \ {0}
  BY Numbers DEF Ready, Typed
<1>2. Chain(t.slist, t.snd_una, t.snd_nxt) /\ Flow(t) BY DEF Line
<1>3. s.seq \in Nat /\ s.len \in Nat /\ s.ctl \in BOOLEAN /\ s.xmit \in Nat /\ Stop(s) = s.seq + s.len
  BY <1>1, SegmentFields
<1>4. s.len > 0 /\ t.snd_una <= s.seq /\ Stop(s) <= Total(t) /\ (s.ctl => s.len = 1)
  <2>1. Span(t.slist, t.snd_una) = Total(t) BY <1>2 DEF Flow
  <2> QED BY <1>1, <1>2, <2>1, ChainSpan DEF Chain
<1>5. m \in Nat /\ m <= t.mss /\ m <= s.len
  <2>1. s.len \in Int /\ t.mss \in Int BY <1>1, <1>3
  <2>2. m \in {s.len, t.mss} /\ m <= t.mss /\ m <= s.len BY <2>1, SmallerLarger
  <2> QED BY <2>2, <1>1, <1>3
<1>6. t.state = "ESTABLISHED" \/ m <= 1
  <2>1. SUFFICES ASSUME t.state # "ESTABLISHED" PROVE m <= 1 OBVIOUS
  <2>2. Total(t) <= 1 BY <2>1, <1>2 DEF Flow
  <2>3. Total(t) \in Nat BY Numbers
  <2> QED BY <2>2, <2>3, <1>3, <1>4, <1>5
<1> HIDE DEF m
<1>7. Typed(f) /\ Pace(f) /\ Kept(t, f) /\ SameLine(t, f) /\ f.out = t.out BY <1>5, <1>6, FitFacts
<1> HIDE DEF f
<1>8. f.mss \in Nat \ {0} BY <1>7 DEF Typed
<1>9. n \in Nat \ {0} /\ n <= s.len /\ (s.ctl => n = 1)
  <2>1. n \in {s.len, f.mss} /\ n <= s.len BY <1>3, <1>8, SmallerLarger
  <2>2. n \in Nat \ {0} BY <2>1, <1>3, <1>4, <1>8
  <2> QED BY <2>1, <2>2, <1>3, <1>4
<1> HIDE DEF n
<1>10. data \in Seq(Nat)
  <2>1. s.seq - t.snd_una + 1 \in Nat /\ s.seq - t.snd_una + 1 >= 1 /\ s.seq - t.snd_una + n \in Nat
    BY SMTT(30), <1>1, <1>3, <1>4, <1>9
  <2>2. s.seq - t.snd_una + n <= Len(t.sbuf) /\ Len(t.sbuf) \in Nat
    <3>1. Total(t) = t.snd_una + Len(t.sbuf) /\ Len(t.sbuf) \in Nat BY Numbers
    <3>2. s.seq + s.len <= t.snd_una + Len(t.sbuf) BY <3>1, <1>3, <1>4
    <3>3. \A a, b, c, d, e \in Int : a + b <= c + d /\ e <= b => a - c + e <= d OBVIOUS
    <3>4. s.seq \in Int /\ s.len \in Int /\ t.snd_una \in Int /\ Len(t.sbuf) \in Int /\ n \in Int
      BY <3>1, <1>1, <1>3, <1>9
    <3>5. s.seq - t.snd_una + n <= Len(t.sbuf) BY <3>2, <3>3, <3>4, <1>9
    <3> QED BY <3>1, <3>5
  <2>3. s.seq - t.snd_una + n \in 0 .. Len(t.sbuf) BY <2>1, <2>2
  <2>4. \A a \in Nat, b \in 0 .. Len(t.sbuf) : a >= 1 => SubSeq(t.sbuf, a, b) \in Seq(Nat)
    BY <1>1
  <2> QED BY <2>1, <2>3, <2>4
<1> HIDE DEF data
<1>11. g \in Packet BY <1>1, <1>3, <1>10 DEF Packet
<1>12. f.rcv_nxt = t.rcv_nxt /\ f.rcv_wnd = t.rcv_wnd /\ f.slist = t.slist /\ f.snd_nxt = t.snd_nxt
       /\ f.snd_una = t.snd_una
  BY <1>7 DEF SameLine, Kept, SameEar
<1>13. pk = [f EXCEPT !.out = Append(@, g), !.t_ack = FALSE] BY <1>12 DEF packet
<1> HIDE DEF g, pk
<1>14. Typed(pk)
  <2>1. Append(f.out, g) \in Seq(Packet) BY <1>7, <1>11 DEF Typed
  <2> QED BY <1>7, <1>13, <2>1 DEF Typed, Fields
<1>15. Kept(f, pk) BY <1>7, <1>13 DEF Typed, Fields, Kept, SameEar
<1>16. /\ pk.slist = f.slist /\ pk.snd_nxt = f.snd_nxt /\ pk.out = Append(f.out, g)
       /\ pk.mss = f.mss /\ pk.msslevel = f.msslevel /\ pk.snd_una = f.snd_una
  BY <1>7, <1>13 DEF Typed, Fields
<1>17. /\ Typed(v) /\ v.slist = Cut(t.slist, i, n) /\ Kept(pk, v)
       /\ v.snd_nxt = pk.snd_nxt /\ v.out = pk.out /\ v.mss = pk.mss /\ v.msslevel = pk.msslevel
  BY SMTT(30), <1>14, <1>16, <1>12, <1>1, <1>2, <1>9, SplitFacts
<1> HIDE DEF v
<1>18. u = [v EXCEPT !.slist = Mark(@, i),
                     !.snd_nxt = IF s.xmit = 0 THEN @ + n ELSE @,
                     !.rto = TRUE]
  BY DEF transmit, Mark, v, pk, data, n, f, m
<1>19. Mark(v.slist, i) \in Seq(Segment)
  <2>1. v.slist \in Seq(Segment) /\ i \in 1 .. Len(v.slist) BY <1>17, <1>1, <1>2, <1>9, ChainCut
  <2> QED BY <2>1, MarkFacts
<1>20. (IF s.xmit = 0 THEN v.snd_nxt + n ELSE v.snd_nxt) \in Nat BY <1>1, <1>9, <1>12, <1>16, <1>17
<1> HIDE DEF u, s
<1>21. Typed(u) BY <1>17, <1>18, <1>19, <1>20 DEF Typed, Fields
<1>22. Kept(v, u) BY <1>17, <1>18 DEF Typed, Fields, Kept, SameEar
<1>23. /\ u.slist = Mark(v.slist, i) /\ u.snd_nxt = (IF s.xmit = 0 THEN v.snd_nxt + n ELSE v.snd_nxt)
       /\ u.rto = TRUE /\ u.out = v.out /\ u.mss = v.mss /\ u.msslevel = v.msslevel
  BY <1>17, <1>18 DEF Typed, Fields
<1>24. Kept(t, u) BY <1>7, <1>15, <1>17, <1>22, KeptTrans
<1>25. u.out = Append(t.out, g) /\ u.out \in Seq(Packet)
  BY <1>7, <1>16, <1>17, <1>21, <1>23 DEF Typed
<1>26. (t.state = "ESTABLISHED" => u.mss = Mss[u.msslevel]) /\ u.mss \in {FirstMss} \union Range(Mss)
  BY <1>7, <1>16, <1>17, <1>23 DEF Pace, SameLine
<1>27. u.slist = Mark(Cut(t.slist, i, n), i)
       /\ u.snd_nxt = (IF s.xmit = 0 THEN t.snd_nxt + n ELSE t.snd_nxt)
  BY <1>12, <1>16, <1>17, <1>23
<1> QED BY <1>9, <1>21, <1>23, <1>24, <1>25, <1>26, <1>27 DEF g, u, data, s

\* Transmitting a segment that is ready keeps an end sound.
LEMMA TransmitSound ==
  ASSUME NEW p, NEW t, NEW o, NEW k, Typed(o), Sound(p, t, o, k), Heard(p, t), t.state # "CLOSED",
         NEW i, Ready(t, i), NEW w \in Range(Mss)
  PROVE  LET u == transmit(t, i, w)
         IN /\ Sound(p, u, o, k) /\ Moves(t, u) /\ Kept(t, u)
            /\ t.slist[i].xmit > 0 => u.snd_nxt = t.snd_nxt
<1> DEFINE s == t.slist[i]
           u == transmit(t, i, w)
<1>1. Typed(t) /\ Line(t, o) /\ Ear(t, o, k) /\ Pace(t) BY DEF Sound
<1>2. /\ i \in 1 .. Len(t.slist) /\ t.slist \in Seq(Segment) /\ t.sbuf \in Seq(Nat)
      /\ t.snd_una \in Nat /\ t.snd_nxt \in Nat /\ t.rcv_nxt \in Nat /\ t.rcv_wnd \in Nat
      /\ t.rcv_wnd <= RcvBufSize /\ t.snd_wnd \in Nat /\ t.snd_wnd <= RcvBufSize
      /\ Len(t.sbuf) \in Nat /\ Total(t) = t.snd_una + Len(t.sbuf) /\ Edge(t) = t.rcv_nxt + t.rcv_wnd
  BY <1>1, Numbers DEF Ready, Typed
<1>3. Chain(t.slist, t.snd_una, t.snd_nxt) /\ Flow(t) BY <1>1 DEF Line
<1>4. s.seq \in Nat /\ s.len \in Nat /\ s.ctl \in BOOLEAN /\ s.xmit \in Nat /\ Stop(s) = s.seq + s.len
  BY <1>2, SegmentFields
<1>5. s.len > 0 /\ t.snd_una <= s.seq /\ Stop(s) <= Total(t) /\ (s.ctl <=> s.seq = 0)
  <2>1. Span(t.slist, t.snd_una) = Total(t) BY <1>3 DEF Flow
  <2> QED BY <1>2, <1>3, <2>1, ChainSpan DEF Chain
<1>6. PICK n \in Nat \ {0} :
        /\ n <= s.len /\ (s.ctl => n = 1)
        /\ Typed(u) /\ Kept(t, u) /\ u.slist = Mark(Cut(t.slist, i, n), i)
        /\ u.snd_nxt = (IF s.xmit = 0 THEN t.snd_nxt + n ELSE t.snd_nxt) /\ u.rto = TRUE
        /\ u.out = Append(t.out, [seq |-> s.seq, ctl |-> s.ctl, ack |-> t.rcv_nxt, wnd |-> t.rcv_wnd,
                      data |-> SubSeq(t.sbuf, s.seq - t.snd_una + 1, s.seq - t.snd_una + n)])
        /\ u.out \in Seq(Packet)
        /\ (t.state = "ESTABLISHED" => u.mss = Mss[u.msslevel])
        /\ u.mss \in {FirstMss} \union Range(Mss)
  BY <1>1, TransmitFields
<1> DEFINE data == SubSeq(t.sbuf, s.seq - t.snd_una + 1, s.seq - t.snd_una + n)
           g == [seq |-> s.seq, ctl |-> s.ctl, ack |-> t.rcv_nxt, wnd |-> t.rcv_wnd, data |-> data]
           q == Cut(t.slist, i, n)
<1> HIDE DEF u
<1>a. n \in Nat /\ n > 0 /\ n <= s.len BY <1>6
<1>c. (s.xmit = 0 => u.snd_nxt = t.snd_nxt + n) /\ (s.xmit # 0 => u.snd_nxt = t.snd_nxt) BY <1>6
<1>d. s.seq \in Nat /\ s.len \in Nat /\ t.snd_una \in Nat /\ t.snd_nxt \in Nat /\ Len(t.sbuf) \in Nat
      /\ t.snd_wnd \in Nat
  BY <1>2, <1>4
<1>b. Edge(o) \in Nat /\ RcvBufSize \in Nat BY Numbers
<1>7. /\ q \in Seq(Segment) /\ i \in 1 .. Len(q) /\ Chain(q, t.snd_una, t.snd_nxt)
      /\ Span(q, t.snd_una) = Span(t.slist, t.snd_una)
      /\ \A a \in Nat : Ends(t.slist, a) => Ends(q, a)
      /\ q[i].seq = s.seq /\ q[i].xmit = s.xmit /\ q[i].len = Smaller(s.len, n)
      /\ \A j \in 1 .. i - 1 : q[j] = t.slist[j]
  <2>1. n \in Nat \ {0} BY <1>a
  <2>2. t.slist \in Seq(Segment) /\ i \in 1 .. Len(t.slist) /\ t.snd_una \in Nat /\ t.snd_nxt \in Nat
    BY <1>2
  <2> QED BY <2>1, <2>2, <1>3, ChainCut
<1>8. q[i].len = n /\ Stop(q[i]) = s.seq + n
  <2>1. Smaller(s.len, n) = n BY <1>4, <1>a DEF Smaller
  <2> QED BY <1>7, <2>1 DEF Stop
<1> HIDE DEF q
<1>9. /\ u.snd_nxt \in Nat
      /\ \/ q[i].xmit > 0 /\ u.snd_nxt = t.snd_nxt
         \/ q[i].xmit = 0 /\ (\A j \in 1 .. i - 1 : q[j].xmit > 0) /\ u.snd_nxt = t.snd_nxt + q[i].len
  <2>1. CASE s.xmit > 0
    <3>1. u.snd_nxt = t.snd_nxt BY <2>1, <1>4, <1>c
    <3> QED BY <3>1, <2>1, <1>2, <1>7
  <2>2. CASE ~ (s.xmit > 0)
    <3>1. s.xmit = 0 /\ \A j \in 1 .. i - 1 : t.slist[j].xmit > 0 BY <2>2 DEF Ready
    <3>2. u.snd_nxt = t.snd_nxt + n BY <3>1, <1>c
    <3>3. \A j \in 1 .. i - 1 : q[j].xmit > 0 BY <3>1, <1>7
    <3>4. q[i].xmit = 0 /\ q[i].len = n /\ t.snd_nxt + n \in Nat BY <3>1, <1>7, <1>8, <1>a, <1>d
    <3> QED BY <3>2, <3>3, <3>4
  <2> QED BY <2>1, <2>2
<1>10. /\ u.slist \in Seq(Segment) /\ Chain(u.slist, t.snd_una, u.snd_nxt)
       /\ Span(u.slist, t.snd_una) = Span(q, t.snd_una)
       /\ \A a \in Nat : Ends(q, a) => Ends(u.slist, a)
       /\ Ends(u.slist, Stop(q[i]))
  <2>1. u.slist = Mark(q, i) BY <1>6 DEF q
  <2>2. t.snd_una \in Nat /\ t.snd_nxt \in Nat BY <1>2
  <2> QED BY <2>1, <2>2, <1>7, <1>9, ChainMark
<1>11. /\ u.state = t.state /\ u.sbuf = t.sbuf /\ u.snd_una = t.snd_una /\ u.snd_wnd = t.snd_wnd
       /\ u.recover = t.recover /\ u.rcv_nxt = t.rcv_nxt /\ u.rcv_wnd = t.rcv_wnd
       /\ u.shutdown = t.shutdown /\ SameEar(t, u)
  BY <1>6 DEF Kept, SameEar
<1>12. /\ t.snd_nxt <= u.snd_nxt /\ u.snd_nxt <= Total(t) /\ t.snd_una < u.snd_nxt
       /\ u.snd_nxt = t.snd_nxt \/ u.snd_nxt <= t.snd_una + t.snd_wnd
  <2>1. t.snd_nxt <= Total(t) /\ t.snd_una <= t.snd_nxt BY <1>3 DEF Flow, Chain
  <2>2. CASE s.xmit > 0
    <3>1. s.seq < t.snd_nxt BY <2>2, <1>2, <1>3 DEF Chain
    <3>2. u.snd_nxt = t.snd_nxt BY <2>2, <1>4, <1>c
    <3>3. t.snd_una < t.snd_nxt BY <3>1, <1>2, <1>4, <1>5
    <3> QED BY <2>1, <3>2, <3>3, <1>2
  <2>3. CASE ~ (s.xmit > 0)
    <3>1. s.xmit = 0 /\ (\A j \in 1 .. i - 1 : t.slist[j].xmit > 0)
          /\ t.snd_nxt + s.len <= t.snd_una + t.snd_wnd
      BY <2>3 DEF Ready
    <3>2. s.seq = t.snd_nxt BY <3>1, <1>2, <1>3, ChainFirst
    <3>3. u.snd_nxt = t.snd_nxt + n BY <3>1, <1>c
    <3>4. t.snd_nxt + n <= t.snd_una + t.snd_wnd BY <3>1, <1>a, <1>d
    <3>5. t.snd_nxt + n <= Total(t) BY SMTT(30), <3>2, <1>a, <1>2, <1>4, <1>5
    <3> QED BY <2>1, <3>3, <3>4, <3>5, <1>2, <1>a
  <2> QED BY <2>2, <2>3
<1>13. Flow(u)
  <2>1. Total(u) = Total(t) BY <1>11 DEF Total
  <2>2. Total(u) = Span(u.slist, u.snd_una) BY <2>1, <1>3, <1>7, <1>10, <1>11 DEF Flow
  <2>3. u.rto <=> u.snd_una < u.snd_nxt BY <1>6, <1>11, <1>12
  <2>4. u.snd_nxt <= Total(u) BY <2>1, <1>12
  <2>5. /\ \A j \in 1 .. Len(u.sbuf) : u.sbuf[j] = u.snd_una + j - 1
        /\ Len(u.sbuf) <= SndBufSize
        /\ u.snd_una >= 1 \/ Len(u.sbuf) <= 1
        /\ u.state # "ESTABLISHED" => Total(u) <= 1
        /\ u.state = "LISTEN" => Total(u) = 0
    BY <1>3, <1>11, <2>1 DEF Flow
  <2> QED BY <2>2, <2>3, <2>4, <2>5 DEF Flow
<1>14. Line(u, o)
  <2>1. u.snd_una >= 1 \/ u.snd_nxt <= 1
    <3>1. t.snd_una >= 1 \/ Len(t.sbuf) <= 1 BY <1>3 DEF Flow
    <3> QED BY <3>1, <1>2, <1>9, <1>11, <1>12
  <2>2. u.snd_nxt <= u.snd_una + RcvBufSize /\ u.snd_nxt <= Edge(o)
    <3>1. t.snd_nxt <= t.snd_una + RcvBufSize /\ t.snd_nxt <= Edge(o)
          /\ t.snd_una + t.snd_wnd <= Edge(o)
      BY <1>1 DEF Line
    <3>2. CASE u.snd_nxt = t.snd_nxt BY <3>1, <3>2, <1>11
    <3>3. CASE u.snd_nxt <= t.snd_una + t.snd_wnd
      <4>1. u.snd_nxt \in Nat /\ t.snd_una + t.snd_wnd \in Nat BY <1>2, <1>9
      <4>2. u.snd_nxt <= Edge(o) BY <4>1, <3>1, <3>3, <1>b
      <4>3. u.snd_nxt <= t.snd_una + RcvBufSize BY <4>1, <3>3, <1>2, <1>b
      <4> QED BY <4>2, <4>3, <1>11
    <3> QED BY <3>2, <3>3, <1>12
  <2>3. u.snd_una <= o.rcv_nxt /\ u.snd_una + u.snd_wnd <= Edge(o) BY <1>1, <1>11 DEF Line
  <2> QED BY <1>10, <1>11, <1>13, <2>1, <2>2, <2>3 DEF Line
<1>15. Pace(u)
  <2>1. t.recover <= t.snd_nxt /\ t.recover \in Nat BY <1>1, Numbers DEF Pace
  <2>2. u.recover <= u.snd_nxt BY <2>1, <1>2, <1>9, <1>11, <1>12
  <2> QED BY <2>2, <1>6, <1>11 DEF Pace
<1>16. \A a \in Nat : AtPoint(t, a) => AtPoint(u, a) BY <1>7, <1>10, <1>11 DEF AtPoint
<1>17. Moves(t, u)
  <2>1. Edge(u) = Edge(t) /\ Stream(u) = Stream(t) BY <1>11 DEF Edge, Stream, Total
  <2>2. t.state # "LISTEN"
    <3>1. SUFFICES ASSUME t.state = "LISTEN" PROVE FALSE OBVIOUS
    <3>2. Total(t) = 0 BY <3>1, <1>3 DEF Flow
    <3> QED BY <3>2, <1>2, <1>9, <1>12
  <2>3. u.snd_nxt <= Stream(t) BY <2>2, <1>12 DEF Stream
  <2> QED BY <2>1, <2>3, <1>2, <1>11, <1>16 DEF Moves, Onward
<1>18. g \in Packet /\ u.out = Append(t.out, g)
  <2>1. u.out = Append(t.out, g) /\ u.out \in Seq(Packet) /\ t.out \in Seq(Packet) BY <1>1, <1>6 DEF Typed
  <2> HIDE DEF g
  <2>2. Len(u.out) = Len(t.out) + 1 /\ u.out[Len(t.out) + 1] = g BY <2>1
  <2>3. Len(t.out) + 1 \in 1 .. Len(u.out) BY <2>1, <2>2
  <2> QED BY <2>1, <2>2, <2>3
<1>19. Len(data) = n /\ \A j \in 1 .. n : data[j] = s.seq + j - 1
  <2>1. PICK a \in Nat : a = s.seq - t.snd_una BY <1>2, <1>4, <1>5
  <2>2. a + n <= Len(t.sbuf)
    <3> HIDE DEF s
    <3>1. s.seq + s.len <= t.snd_una + Len(t.sbuf) BY <1>2, <1>4, <1>5
    <3> QED BY <3>1, <2>1, <1>a, <1>d
  <2>3. data = SubSeq(t.sbuf, a + 1, a + n) BY <2>1
  <2> HIDE DEF data
  <2>4. Len(data) = n /\ \A j \in 1 .. n : data[j] = t.sbuf[a + j]
    <3>1. a + 1 \in 1 .. Len(t.sbuf) + 1 /\ a + n \in a .. Len(t.sbuf) BY <2>1, <2>2, <1>d, <1>a
    <3>2. PICK b \in 1 .. Len(t.sbuf) + 1, c \in 0 .. Len(t.sbuf) : b = a + 1 /\ c = a + n
      BY <3>1, <2>1, <1>2, <1>a
    <3>3. b \in 1 .. Len(t.sbuf) + 1 /\ c \in b - 1 .. Len(t.sbuf) BY <3>2, <3>1, <2>1
    <3>4. Len(SubSeq(t.sbuf, b, c)) = (IF b <= c THEN c - b + 1 ELSE 0)
          /\ \A j \in 1 .. c - b + 1 : SubSeq(t.sbuf, b, c)[j] = t.sbuf[b + j - 1]
      BY <1>2, <3>3, SubSeqProperties
    <3>5. b <= c /\ c - b + 1 = n BY <3>2, <2>1, <1>a
    <3>6. \A j \in 1 .. n : b + j - 1 = a + j BY <3>2, <2>1, <1>a
    <3> QED BY <3>2, <3>4, <3>5, <3>6, <2>3
  <2>5. ASSUME NEW j \in 1 .. n PROVE t.sbuf[a + j] = s.seq + j - 1
    <3>1. a + j \in 1 .. Len(t.sbuf) BY <2>1, <2>2, <1>d, <1>a
    <3>2. t.sbuf[a + j] = t.snd_una + (a + j) - 1 BY <3>1, <1>3 DEF Flow
    <3>3. t.snd_una + (a + j) - 1 = s.seq + j - 1 BY SMTT(30), <2>1, <1>a, <1>d
    <3> QED BY <3>2, <3>3
  <2> QED BY <2>4, <2>5
<1>20. Between(p, u, o, g)
  <2>1. AtPoint(u, s.seq + n) BY <1>8, <1>10 DEF AtPoint
  <2>2. AtPoint(o, t.rcv_nxt) BY <1>1 DEF Ear
  <2>3. t.rcv_nxt + t.rcv_wnd <= Edge(u) BY <1>2, <1>11 DEF Edge
  <2>4. s.ctl /\ p # Initiator => t.rcv_nxt >= 1
    <3>1. t.state # "LISTEN"
      <4>1. SUFFICES ASSUME t.state = "LISTEN" PROVE FALSE OBVIOUS
      <4>2. Total(t) = 0 BY <4>1, <1>3 DEF Flow
      <4> QED BY <4>2, <1>2, <1>9, <1>12
    <3> QED BY <3>1, <1>1 DEF Heard, Role, Typed
  <2>5. g.data = data /\ g.seq = s.seq /\ g.ctl = s.ctl /\ g.ack = t.rcv_nxt /\ g.wnd = t.rcv_wnd
    OBVIOUS
  <2> HIDE DEF g, data
  <2>6. t.rcv_nxt <= u.rcv_nxt BY <1>2, <1>11
  <2>7. g.ctl => Len(g.data) = 1 BY <2>5, <1>6, <1>19
  <2>8. \A j \in 1 .. Len(g.data) : g.data[j] = g.seq + j - 1 BY <2>5, <1>19
  <2> QED BY <2>1, <2>2, <2>3, <2>4, <2>5, <2>6, <2>7, <2>8, <1>2, <1>4, <1>5, <1>19 DEF Between
<1> HIDE DEF g
<1>21. Ear(u, o, k) BY <1>1, <1>11, EarSame
<1>22. Sound(p, u, o, k)
  BY <1>6, <1>14, <1>15, <1>17, <1>18, <1>20, <1>21, SoundAfter DEF Moves
<1>23. s.xmit > 0 => u.snd_nxt = t.snd_nxt BY <1>4, <1>6
<1> QED BY <1>6, <1>17, <1>22, <1>23 DEF u, s

\* What is available is there, fits into a segment, and into the window.
LEMMA AvailableFacts ==
  ASSUME NEW t, Typed(t), t.snd_una <= t.snd_nxt, t.snd_nxt <= Total(t)
  PROVE  /\ Available(t) \in Nat /\ t.snd_nxt + Available(t) <= Total(t) /\ Available(t) <= t.mss
         /\ Available(t) > 0 => t.snd_nxt + Available(t) <= t.snd_una + t.snd_wnd
<1> DEFINE limited == IF t.dup_acks \in {1, 2} THEN t.dup_acks * t.mss ELSE 0
           window  == Smaller(t.snd_wnd, t.cwnd + limited)
           useable == Larger(window - InFlight(t), 0)
           wanted  == Smaller(Len(t.sbuf) - InFlight(t), t.mss)
<1>1. /\ t.snd_una \in Nat /\ t.snd_nxt \in Nat /\ t.snd_wnd \in Nat /\ t.cwnd \in Nat
      /\ t.mss \in Nat /\ Len(t.sbuf) \in Nat /\ Total(t) = t.snd_una + Len(t.sbuf)
  BY Numbers
<1>2. limited \in Nat
  <2>1. CASE t.dup_acks \in {1, 2}
    <3>1. limited = 1 * t.mss \/ limited = 2 * t.mss BY <2>1
    <3> QED BY <3>1, <1>1
  <2>2. CASE t.dup_acks \notin {1, 2} BY <2>2
  <2> QED BY <2>1, <2>2
<1> HIDE DEF limited
<1>3. InFlight(t) = t.snd_nxt - t.snd_una /\ InFlight(t) \in Nat BY <1>1 DEF InFlight
<1>4. window \in Nat /\ window <= t.snd_wnd
  <2>0. t.snd_wnd \in Int /\ t.cwnd + limited \in Int BY <1>1, <1>2
  <2>1. window \in {t.snd_wnd, t.cwnd + limited} /\ window <= t.snd_wnd BY <2>0, SmallerLarger
  <2> QED BY <2>1, <1>1, <1>2
<1> HIDE DEF window
<1>5. useable \in Nat /\ (useable > 0 => useable = window - InFlight(t))
  <2>0. window - InFlight(t) \in Int /\ 0 \in Int BY <1>3, <1>4
  <2>1. useable \in {window - InFlight(t), 0} /\ 0 <= useable BY <2>0, SmallerLarger
  <2> QED BY <2>1, <1>3, <1>4
<1>6. wanted \in Nat /\ wanted <= Len(t.sbuf) - InFlight(t) /\ wanted <= t.mss
  <2>1. Len(t.sbuf) - InFlight(t) \in Nat BY <1>1, <1>3
  <2>2. wanted \in {Len(t.sbuf) - InFlight(t), t.mss} /\ wanted <= Len(t.sbuf) - InFlight(t)
        /\ wanted <= t.mss
    <3>1. Len(t.sbuf) - InFlight(t) \in Int /\ t.mss \in Int BY <2>1, <1>1
    <3> QED BY <3>1, SmallerLarger
  <2> QED BY <2>1, <2>2, <1>1
<1>7. Available(t) = IF wanted <= useable THEN wanted
                     ELSE IF useable * 4 < window THEN 0 ELSE useable
  BY DEF Available, limited, window, useable, wanted
<1> HIDE DEF useable, wanted
<1>8. Available(t) \in Nat /\ Available(t) <= wanted /\ Available(t) <= useable
  BY <1>5, <1>6, <1>7
<1>9. Available(t) > 0 => t.snd_nxt + Available(t) <= t.snd_una + t.snd_wnd
  BY SMTT(30), <1>1, <1>3, <1>4, <1>5, <1>8
<1>10. t.snd_nxt + Available(t) <= Total(t) /\ Available(t) <= t.mss
  <2>1. Available(t) <= t.mss BY <1>1, <1>6, <1>8
  <2>2. Available(t) <= Len(t.sbuf) - (t.snd_nxt - t.snd_una) BY <1>1, <1>3, <1>6, <1>8
  <2> QED BY <2>1, <2>2, <1>1, <1>8
<1> QED BY <1>8, <1>9, <1>10

\* Splitting a segment keeps an end sound.
LEMMA SplitSound ==
  ASSUME NEW p, NEW t, NEW o, NEW k, Sound(p, t, o, k), NEW i \in 1 .. Len(t.slist), NEW n \in Nat \ {0}
  PROVE  LET u == Split(t, i, n)
         IN /\ Sound(p, u, o, k) /\ Moves(t, u) /\ Kept(t, u) /\ u.snd_nxt = t.snd_nxt
            /\ u.slist = Cut(t.slist, i, n)
<1> DEFINE u == Split(t, i, n)
<1>1. Typed(t) /\ Line(t, o) /\ Ear(t, o, k) /\ Pace(t) BY DEF Sound
<1>2. t.slist \in Seq(Segment) /\ t.snd_una \in Nat /\ t.snd_nxt \in Nat /\ Stream(t) \in Nat
      /\ Total(t) \in Nat /\ t.rcv_nxt \in Nat /\ Edge(t) \in Nat
  BY <1>1, Numbers DEF Typed
<1>3. Chain(t.slist, t.snd_una, t.snd_nxt) BY <1>1 DEF Line
<1>4. /\ Typed(u) /\ u.slist = Cut(t.slist, i, n) /\ Kept(t, u)
      /\ u.snd_nxt = t.snd_nxt /\ u.rto = t.rto /\ u.out = t.out
      /\ u.mss = t.mss /\ u.msslevel = t.msslevel /\ u.cwnd = t.cwnd
  BY <1>1, <1>3, SplitFacts
<1> HIDE DEF u
<1>5. /\ Chain(u.slist, t.snd_una, t.snd_nxt) /\ Span(u.slist, t.snd_una) = Span(t.slist, t.snd_una)
      /\ \A m \in Nat : Ends(t.slist, m) => Ends(u.slist, m)
  BY SMTT(30), <1>2, <1>3, <1>4, ChainCut
<1>6. /\ u.state = t.state /\ u.sbuf = t.sbuf /\ u.snd_una = t.snd_una /\ u.snd_wnd = t.snd_wnd
      /\ u.recover = t.recover /\ u.rcv_nxt = t.rcv_nxt /\ u.rcv_wnd = t.rcv_wnd
      /\ u.shutdown = t.shutdown /\ SameEar(t, u)
  BY <1>4 DEF Kept, SameEar
<1>7. Flow(t) => Flow(u) BY <1>4, <1>5, <1>6 DEF Flow, Total
<1>8. Line(u, o) BY <1>1, <1>4, <1>5, <1>6, <1>7 DEF Line
<1>9. Pace(u) BY <1>1, <1>4, <1>6 DEF Pace
<1>10. Ear(u, o, k) BY <1>1, <1>6, EarSame
<1>11. Moves(t, u)
  <2>1. \A m \in Nat : AtPoint(t, m) => AtPoint(u, m) BY <1>5, <1>6 DEF AtPoint
  <2>2. Edge(u) = Edge(t) /\ Stream(u) = Stream(t) BY <1>6 DEF Edge, Stream, Total
  <2>3. t.state # "CLOSED" => t.snd_nxt <= Stream(t)
    <3>1. SUFFICES ASSUME t.state # "CLOSED" PROVE t.snd_nxt <= Stream(t) OBVIOUS
    <3>2. t.snd_nxt <= Total(t) /\ (t.state = "LISTEN" => Total(t) = 0) BY <3>1, <1>1 DEF Line, Flow
    <3> QED BY <3>2, <1>2 DEF Stream
  <2> QED BY <2>1, <2>2, <2>3, <1>2, <1>4, <1>6 DEF Moves, Onward
<1>12. Sound(p, u, o, k) BY <1>1, <1>4, <1>8, <1>9, <1>10, <1>11, SoundAfter DEF Moves
<1> QED BY <1>4, <1>11, <1>12 DEF u

\* A round of attemptSend keeps an end sound.
LEMMA SendNextSound ==
  ASSUME NEW p, NEW t, NEW o, NEW k, Typed(o), Sound(p, t, o, k), Heard(p, t), t.state # "CLOSED",
         NEW w \in Range(Mss), ~ Waits(t)
  PROVE  LET u == SendNext(t, w)
         IN Sound(p, u, o, k) /\ Moves(t, u) /\ Kept(t, u) /\ Heard(p, u)
<1> DEFINE i == SelectInSeq(t.slist, LAMBDA s : s.xmit = 0)
           n == Available(t)
           v == Split(t, i, n)
           u == transmit(v, i, w)
<1>1. Typed(t) /\ Line(t, o) BY DEF Sound
<1>2. Chain(t.slist, t.snd_una, t.snd_nxt) /\ Flow(t) BY <1>1 DEF Line
<1>3. /\ t.slist \in Seq(Segment) /\ t.snd_una \in Nat /\ t.snd_nxt \in Nat /\ Total(t) \in Nat
      /\ t.snd_wnd \in Nat
  BY <1>1, Numbers DEF Typed
<1>4. t.snd_una <= t.snd_nxt /\ t.snd_nxt <= Total(t) BY <1>2 DEF Chain, Flow
<1>5. n \in Nat /\ t.snd_nxt + n <= Total(t) /\ (n > 0 => t.snd_nxt + n <= t.snd_una + t.snd_wnd)
  BY <1>1, <1>4, AvailableFacts
<1>6. n \in Nat \ {0} /\ n > 0 BY <1>5 DEF Waits
<1> HIDE DEF n
<1>7. \E j \in 1 .. Len(t.slist) : t.slist[j].xmit = 0
  <2>1. SUFFICES ASSUME \A j \in 1 .. Len(t.slist) : t.slist[j].xmit # 0 PROVE FALSE OBVIOUS
  <2>2. Span(t.slist, t.snd_una) = Total(t) BY <1>2 DEF Flow
  <2>3. CASE t.slist = <<>>
    <3>1. Total(t) = t.snd_una BY <2>2, <2>3 DEF Span
    <3> QED BY <3>1, <1>3, <1>4, <1>5, <1>6
  <2>4. CASE t.slist # <<>>
    <3>1. PICK j \in 1 .. Len(t.slist) : j = Len(t.slist) BY <2>4, <1>3
    <3>2. t.slist[j].xmit \in Nat /\ t.slist[j].xmit # 0 BY <3>1, <2>1, <1>3, SegmentFields
    <3>3. Stop(t.slist[j]) <= t.snd_nxt BY <3>1, <3>2, <1>2 DEF Chain
    <3>4. Total(t) = Stop(t.slist[j]) BY <3>1, <2>2, <2>4 DEF Span
    <3> QED BY <3>3, <3>4, <1>3, <1>5, <1>6
  <2> QED BY <2>3, <2>4
<1>8. i \in 1 .. Len(t.slist) /\ t.slist[i].xmit = 0 /\ \A h \in 1 .. i - 1 : t.slist[h].xmit > 0
  BY <1>7, <1>3, FirstUnsent
<1>9. SendNext(t, w) = u BY DEF SendNext, u, v, n, i
<1> HIDE DEF i
<1>10. /\ Sound(p, v, o, k) /\ Moves(t, v) /\ Kept(t, v) /\ v.snd_nxt = t.snd_nxt
       /\ v.slist = Cut(t.slist, i, n)
  BY <1>6, <1>8, SplitSound
<1> HIDE DEF v
<1>11. Ready(v, i)
  <2> DEFINE q == Cut(t.slist, i, n)
  <2>1. /\ i \in 1 .. Len(q) /\ q[i].xmit = t.slist[i].xmit
        /\ q[i].len = Smaller(t.slist[i].len, n)
        /\ \A j \in 1 .. i - 1 : q[j] = t.slist[j]
    BY <1>2, <1>3, <1>6, <1>8, ChainCut
  <2> HIDE DEF q
  <2>2. q[i].len \in Int /\ q[i].len <= n
    <3>1. t.slist[i].len \in Int /\ n \in Int BY <1>3, <1>5, <1>8, SegmentFields
    <3>2. Smaller(t.slist[i].len, n) \in Int /\ Smaller(t.slist[i].len, n) <= n
      BY <3>1, SmallerLarger
    <3> QED BY <3>2, <2>1
  <2>3. v.slist = q BY <1>10 DEF q
  <2>4. v.snd_una = t.snd_una /\ v.snd_wnd = t.snd_wnd /\ v.snd_nxt = t.snd_nxt BY <1>10 DEF Kept
  <2>5. t.snd_nxt + q[i].len <= t.snd_una + t.snd_wnd BY <2>2, <1>3, <1>5, <1>6
  <2>6. \A j \in 1 .. i - 1 : q[j].xmit > 0 BY <2>1, <1>8
  <2>7. q[i].xmit = 0 BY <2>1, <1>8
  <2> QED BY <2>1, <2>3, <2>4, <2>5, <2>6, <2>7 DEF Ready
<1>12. v.state = t.state /\ v.rcv_nxt = t.rcv_nxt BY <1>10 DEF Kept, SameEar
<1>13. Heard(p, v) BY <1>12 DEF Heard, Role
<1>14. Sound(p, u, o, k) /\ Moves(v, u) /\ Kept(v, u)
  BY <1>10, <1>11, <1>12, <1>13, TransmitSound
<1> HIDE DEF u
<1>15. Typed(v) /\ Typed(u) BY <1>10, <1>14 DEF Sound
<1>16. Moves(t, u) /\ Kept(t, u) BY <1>1, <1>10, <1>14, <1>15, MovesTrans, KeptTrans
<1>17. Heard(p, u)
  <2>1. u.state = v.state /\ u.rcv_nxt = v.rcv_nxt BY <1>14 DEF Kept, SameEar
  <2> QED BY <2>1, <1>13 DEF Heard, Role
<1> QED BY <1>9, <1>14, <1>16, <1>17

\* The rounds of attemptSend, one after the other.
LEMMA RoundsFacts ==
  ASSUME NEW t, Typed(t), NEW w
  PROVE  LET r == Rounds(t, w)
         IN /\ r[0] = t
            /\ \A n \in 1 .. Len(t.sbuf) :
                 r[n] = IF Waits(r[n - 1]) THEN r[n - 1] ELSE SendNext(r[n - 1], w)
<1> DEFINE Round(u) == IF Waits(u) THEN u ELSE SendNext(u, w)
           Step(f, m) == f = [n \in 0 .. m |-> IF n = 0 THEN t ELSE Round(f[n - 1])]
           N == Len(t.sbuf)
           Bad == {m \in 0 .. N : ~ \E f : Step(f, m)}
<1>1. N \in Nat BY Numbers
<1> HIDE DEF Round, N
<1>2. Bad = {}
  <2>1. SUFFICES ASSUME Bad # {} PROVE FALSE OBVIOUS
  <2>2. Bad \subseteq Nat BY <1>1
  <2>3. PICK m \in Bad : \A x \in Bad : m <= x
    <3> HIDE DEF Bad
    <3> QED BY <2>1, <2>2, MinFacts
  <2>4. m \in 0 .. N /\ ~ \E f : Step(f, m) BY <2>3
  <2>5. CASE m = 0
    <3> DEFINE f == [n \in 0 .. 0 |-> t]
    <3>1. Step(f, 0) OBVIOUS
    <3> HIDE DEF f
    <3> QED BY <3>1, <2>4, <2>5
  <2>6. CASE m # 0
    <3>1. m \in Nat /\ m - 1 \in 0 .. N /\ m - 1 \notin Bad BY <2>3, <2>4, <2>6, <1>1
    <3>2. PICK f : Step(f, m - 1) BY <3>1
    <3> DEFINE e == [n \in 0 .. m |-> IF n = m THEN Round(f[m - 1]) ELSE f[n]]
    <3>3. ASSUME NEW n \in 0 .. m PROVE e[n] = IF n = 0 THEN t ELSE Round(e[n - 1])
      <4>1. CASE n = 0
        <5>1. n \in 0 .. m - 1 /\ n # m BY <4>1, <3>1, <2>6
        <5>2. e[n] = f[n] /\ f[n] = t BY <5>1, <4>1, <3>2
        <5> QED BY <5>2, <4>1
      <4>2. CASE n # 0 /\ n # m
        <5>1. n \in 0 .. m - 1 /\ n - 1 \in 0 .. m - 1 /\ n - 1 \in 0 .. m /\ n - 1 # m BY <4>2, <3>1
        <5>2. e[n] = f[n] /\ f[n] = Round(f[n - 1]) /\ e[n - 1] = f[n - 1] BY <5>1, <4>2, <3>2
        <5> QED BY <5>2, <4>2
      <4>3. CASE n = m
        <5>1. m - 1 \in 0 .. m /\ m - 1 # m BY <3>1, <2>6
        <5>2. e[n] = Round(f[m - 1]) /\ e[m - 1] = f[m - 1] BY <5>1, <4>3
        <5> QED BY <5>2, <4>3, <2>6
      <4> QED BY <4>1, <4>2, <4>3
    <3>4. e = [n \in 0 .. m |-> e[n]] OBVIOUS
    <3> HIDE DEF e
    <3>5. Step(e, m) BY <3>3, <3>4
    <3> QED BY <3>5, <2>4
  <2> QED BY <2>5, <2>6
<1>3. \E f : Step(f, N)
  <2>1. N \in 0 .. N BY <1>1
  <2> QED BY <2>1, <1>2
<1>4. Rounds(t, w) = CHOOSE f : Step(f, N) BY DEF Rounds, Round, N
<1> DEFINE r == Rounds(t, w)
<1>5. Step(r, N) BY <1>3, <1>4
<1> HIDE DEF r
<1>6. r[0] = t
  <2>1. 0 \in 0 .. N BY <1>1
  <2> QED BY <2>1, <1>5
<1>7. \A n \in 1 .. N : r[n] = Round(r[n - 1])
  <2>1. \A n \in 1 .. N : n \in 0 .. N /\ n # 0 BY <1>1
  <2> QED BY <2>1, <1>5
<1> QED BY <1>6, <1>7 DEF r, Round, N

\* All rounds together keep an end sound.
LEMMA RoundsSound ==
  ASSUME NEW p, NEW t, NEW o, NEW k, Typed(o), Sound(p, t, o, k), Heard(p, t), t.state # "CLOSED",
         NEW w \in Range(Mss)
  PROVE  LET u == Rounds(t, w)[Len(t.sbuf)]
         IN Sound(p, u, o, k) /\ Moves(t, u) /\ Kept(t, u) /\ Heard(p, u)
<1> DEFINE r == Rounds(t, w)
           N == Len(t.sbuf)
           Good(u) == Sound(p, u, o, k) /\ Moves(t, u) /\ Kept(t, u) /\ Heard(p, u)
           Bad == {n \in 0 .. N : ~ Good(r[n])}
<1>1. Typed(t) /\ (t.state # "CLOSED" => Flow(t)) BY DEF Sound, Line
<1>2. N \in Nat BY <1>1, Numbers
<1>3. r[0] = t /\ \A n \in 1 .. N : r[n] = IF Waits(r[n - 1]) THEN r[n - 1] ELSE SendNext(r[n - 1], w)
  BY <1>1, RoundsFacts
<1>4. Good(t)
  <2>1. SameLine(t, t) /\ SameEar(t, t) /\ Kept(t, t) BY DEF SameLine, SameEar, Kept
  <2> QED BY <2>1, <1>1, MovesSame
<1> HIDE DEF r
<1>5. Bad = {}
  <2>1. SUFFICES ASSUME Bad # {} PROVE FALSE OBVIOUS
  <2>2. Bad \subseteq Nat BY <1>2
  <2>3. PICK n \in Bad : \A x \in Bad : n <= x
    <3> HIDE DEF Bad
    <3> QED BY <2>1, <2>2, MinFacts
  <2> HIDE DEF Good
  <2>4. n \in 0 .. N /\ ~ Good(r[n]) BY <2>3
  <2>5. n # 0 BY <2>4, <1>3, <1>4
  <2>6. n \in 1 .. N /\ n - 1 \in 0 .. N /\ n - 1 \notin Bad BY <2>3, <2>4, <2>5, <1>2
  <2> DEFINE v == r[n - 1]
  <2>7. Good(v) BY <2>6
  <2>8. r[n] = IF Waits(v) THEN v ELSE SendNext(v, w) BY <2>6, <1>3
  <2> HIDE DEF v
  <2>9. ~ Waits(v) /\ r[n] = SendNext(v, w) BY <2>4, <2>7, <2>8
  <2> USE DEF Good
  <2>10. v.state # "CLOSED" BY <2>7 DEF Kept
  <2> DEFINE u == SendNext(v, w)
  <2>11. Sound(p, u, o, k) /\ Moves(v, u) /\ Kept(v, u) /\ Heard(p, u)
    BY <2>7, <2>9, <2>10, SendNextSound
  <2> HIDE DEF u
  <2>12. Typed(v) /\ Typed(u) BY <2>7, <2>11 DEF Sound
  <2>13. Moves(t, u) /\ Kept(t, u) BY <2>7, <2>11, <2>12, <1>1, MovesTrans, KeptTrans
  <2>14. Good(u) BY <2>11, <2>13
  <2>15. r[n] = u BY <2>9 DEF u
  <2> QED BY <2>4, <2>14, <2>15
<1>6. N \in 0 .. N /\ N \notin Bad BY <1>2, <1>5
<1> HIDE DEF N
<1>7. Good(r[N]) BY <1>6
<1> QED BY <1>7 DEF r, N

\* attemptSend keeps an end sound.
LEMMA AttemptSendSound ==
  ASSUME NEW p, NEW t, NEW o, NEW k, Typed(o), Sound(p, t, o, k), Heard(p, t), t.state # "CLOSED",
         NEW w \in Range(Mss), NEW flag, NEW idle \in BOOLEAN
  PROVE  LET u == attemptSend(t, flag, idle, w)
         IN Sound(p, u, o, k) /\ Moves(t, u) /\ Kept(t, u)
<1> DEFINE late == idle /\ t.out = <<>>
           s == IF late THEN [t EXCEPT !.cwnd = t.mss] ELSE t
           u == Rounds(s, w)[Len(s.sbuf)]
<1>1. Typed(t) /\ Pace(t) /\ (t.state # "CLOSED" => Flow(t)) BY DEF Sound, Line
<1>2. Sound(p, s, o, k) /\ Moves(t, s) /\ Kept(t, s)
  <2> HIDE DEF late
  <2>1. CASE ~ late
    <3>1. SameLine(t, s) /\ SameEar(t, s) /\ Kept(t, s) BY <2>1 DEF SameLine, SameEar, Kept
    <3> QED BY <3>1, <2>1, <1>1, MovesSame
  <2>2. CASE late
    <3>1. s = [t EXCEPT !.cwnd = t.mss] BY <2>2
    <3>2. t.mss \in 1 .. CwndBound
      <4>1. t.mss \in {FirstMss} \union Range(Mss) BY <1>1 DEF Pace
      <4>2. t.mss \in Nat \ {0} /\ 2 * t.mss <= CwndBound /\ CwndBound \in Nat BY <4>1, Sizes
      <4> QED BY <4>2
    <3> HIDE DEF s
    <3>3. Typed(s) BY <3>1, <3>2, <1>1 DEF Typed, Fields
    <3>4. SameLine(t, s) /\ SameEar(t, s) /\ Kept(t, s) /\ s.out = t.out /\ s.mss = t.mss
          /\ s.msslevel = t.msslevel
      BY <3>1, <1>1 DEF Typed, Fields, SameLine, SameEar, Kept
    <3>5. Pace(s) BY <3>4, <1>1 DEF Pace, Kept, SameLine
    <3> QED BY <3>3, <3>4, <3>5, PaceOnly
  <2> QED BY <2>1, <2>2
<1> HIDE DEF s
<1>3. s.state # "CLOSED" /\ Heard(p, s) BY <1>2 DEF Kept, SameEar, Heard, Role
<1>4. Sound(p, u, o, k) /\ Moves(s, u) /\ Kept(s, u) BY <1>2, <1>3, RoundsSound
<1> HIDE DEF u
<1>5. Typed(s) /\ Typed(u) BY <1>2, <1>4 DEF Sound
<1>6. Moves(t, u) /\ Kept(t, u) BY <1>1, <1>2, <1>4, <1>5, MovesTrans, KeptTrans
<1>7. u.snd_nxt \in Int BY <1>5, Numbers
<1> DEFINE a == packet(u, u.snd_nxt, FALSE, <<>>)
           b == [u EXCEPT !.t_ack = TRUE]
           e == attemptSend(t, flag, idle, w)
<1>8. e = u \/ e = a \/ e = b
  <2>1. e = (CASE flag = "none" \/ u.snd_nxt # t.snd_nxt \/ Available(u) > 0 -> u
               [] OTHER -> IF flag = "immediate" \/ u.t_ack THEN a ELSE b)
    BY DEF attemptSend, s, late, u
  <2> HIDE DEF e, a, b
  <2> QED BY <2>1
<1>9. Sound(p, a, o, k) /\ Moves(t, a) /\ Kept(t, a)
  <2>1. Sound(p, a, o, k) /\ Moves(u, a) /\ Kept(u, a) BY <1>4, <1>7, BarePacket
  <2> HIDE DEF a
  <2>2. Typed(a) BY <2>1 DEF Sound
  <2> QED BY <2>1, <2>2, <1>1, <1>5, <1>6, MovesTrans, KeptTrans
<1>10. Sound(p, b, o, k) /\ Moves(t, b) /\ Kept(t, b)
  <2>1. Typed(b) BY <1>5 DEF Typed, Fields
  <2>2. SameLine(u, b) /\ SameEar(u, b) /\ Kept(u, b) /\ b.out = u.out /\ b.mss = u.mss
        /\ b.msslevel = u.msslevel
    BY <1>5 DEF Typed, Fields, SameLine, SameEar, Kept
  <2> HIDE DEF b
  <2>3. Pace(b) BY <2>2, <1>4 DEF Sound, Pace, Kept, SameLine
  <2>4. Sound(p, b, o, k) /\ Moves(u, b) BY <2>1, <2>2, <2>3, <1>4, PaceOnly
  <2> QED BY <2>1, <2>2, <2>4, <1>1, <1>5, <1>6, MovesTrans, KeptTrans
<1> HIDE DEF a, b, e
<1> QED BY <1>4, <1>6, <1>8, <1>9, <1>10 DEF e

\* Closing down keeps an end sound.
LEMMA ClosedownSound ==
  ASSUME NEW p, NEW t, NEW o, NEW k, Sound(p, t, o, k), t.state # "CLOSED"
  PROVE  LET u == closedown(t)
         IN Sound(p, u, o, k) /\ Moves(t, u) /\ SameEar(t, u) /\ u.state = "CLOSED" /\ u.snd_una = t.snd_una
<1> DEFINE u == closedown(t)
<1>1. Typed(t) /\ Line(t, o) /\ Ear(t, o, k) /\ Pace(t) BY DEF Sound
<1>2. Typed(u)
  <2>1. <<>> \in Seq(Nat) /\ t.told \union {"closed"} \subseteq {"open", "closed", "read", "write"}
    BY <1>1 DEF Typed
  <2>2. Len(<<>>) \in 0 .. SndBufSize BY Sizes
  <2> QED BY <2>1, <2>2, <1>1 DEF Typed, Fields, closedown
<1>3. /\ u.state = "CLOSED" /\ u.slist = t.slist /\ u.snd_una = t.snd_una /\ u.snd_nxt = t.snd_nxt
      /\ u.snd_wnd = t.snd_wnd /\ u.mss = t.mss /\ u.recover = t.recover /\ u.out = t.out
      /\ SameEar(t, u)
  BY <1>1 DEF Typed, Fields, closedown, SameEar
<1> HIDE DEF u
<1>4. Line(u, o) BY <1>1, <1>3 DEF Line
<1>5. Pace(u) BY <1>1, <1>3 DEF Pace
<1>6. Ear(u, o, k) BY <1>1, <1>3, EarSame
<1>7. Moves(t, u)
  <2>1. \A n \in Nat : AtPoint(t, n) => AtPoint(u, n) BY <1>3 DEF AtPoint
  <2>2. u.rcv_nxt = t.rcv_nxt /\ Edge(u) = Edge(t) /\ u.shutdown = t.shutdown BY <1>3 DEF SameEar, Edge
  <2>3. t.snd_nxt <= Stream(t)
    <3>1. t.snd_nxt <= Total(t) /\ (t.state = "LISTEN" => Total(t) = 0) BY <1>1 DEF Line, Flow
    <3>2. t.snd_nxt \in Nat /\ Total(t) \in Nat BY <1>1, Numbers
    <3> QED BY <3>1, <3>2 DEF Stream
  <2>4. t.rcv_nxt \in Nat /\ Edge(t) \in Nat BY <1>1, Numbers
  <2> QED BY <2>1, <2>2, <2>3, <2>4, <1>3 DEF Moves, Onward
<1>8. Sound(p, u, o, k) BY <1>2, <1>3, <1>4, <1>5, <1>6, <1>7, SoundAfter DEF Moves
<1> QED BY <1>3, <1>7, <1>8 DEF u

\* The connection is open: the segment size is the largest one.
LEMMA EstablishedSound ==
  ASSUME NEW p, NEW t, NEW o, NEW k, Sound(p, t, o, k), Heard(p, t),
         t.state \in {"SYN_SENT", "SYN_RECEIVED"}
  PROVE  LET u == Established(t)
         IN Sound(p, u, o, k) /\ Moves(t, u) /\ SameEar(t, u) /\ Heard(p, u)
            /\ u.state = "ESTABLISHED" /\ u.snd_una = t.snd_una /\ u.snd_nxt = t.snd_nxt
            /\ u.slist = t.slist
<1> DEFINE u == Established(t)
           ss == Larger(t.ssthresh, 2 * Mss[1])
           cw == Larger(t.cwnd, Mss[1])
<1>1. Typed(t) /\ Line(t, o) /\ Ear(t, o, k) /\ Pace(t) BY DEF Sound
<1>2. /\ 1 \in 1 .. Len(Mss) /\ Mss[1] \in Nat \ {0} /\ Mss[1] \in Range(Mss) /\ 2 * Mss[1] <= CwndBound
      /\ CwndBound \in Nat
  BY Sizes
<1>3. ss \in Nat \ {0} /\ cw \in 1 .. CwndBound
  <2>1. t.ssthresh \in Nat \ {0} /\ t.cwnd \in 1 .. CwndBound BY <1>1 DEF Typed
  <2>2. ss \in {t.ssthresh, 2 * Mss[1]}
    <3>1. t.ssthresh \in Int /\ 2 * Mss[1] \in Int BY <1>2, <2>1
    <3> QED BY <3>1, SmallerLarger
  <2>3. cw \in {t.cwnd, Mss[1]}
    <3>1. t.cwnd \in Int /\ Mss[1] \in Int BY <1>2, <2>1
    <3> QED BY <3>1, SmallerLarger
  <2>4. 2 * Mss[1] \in Nat \ {0} /\ Mss[1] \in 1 .. CwndBound BY <1>2
  <2> QED BY <2>1, <2>2, <2>3, <2>4
<1>4. u = [t EXCEPT !.state = "ESTABLISHED", !.msslevel = 1, !.mss = Mss[1],
                    !.ssthresh = ss, !.cwnd = cw, !.told = @ \union {"open"}]
  BY DEF Established
<1> HIDE DEF u, ss, cw
<1>5. Typed(u)
  <2>1. t.told \union {"open"} \subseteq {"open", "closed", "read", "write"} BY <1>1 DEF Typed
  <2> QED BY <2>1, <1>1, <1>2, <1>3, <1>4 DEF Typed, Fields
<1>6. /\ u.state = "ESTABLISHED" /\ u.slist = t.slist /\ u.snd_una = t.snd_una /\ u.snd_nxt = t.snd_nxt
      /\ u.snd_wnd = t.snd_wnd /\ u.sbuf = t.sbuf /\ u.rto = t.rto /\ u.mss = Mss[1] /\ u.msslevel = 1
      /\ u.recover = t.recover /\ u.out = t.out /\ SameEar(t, u)
  BY <1>1, <1>4 DEF Typed, Fields, SameEar
<1>7. Flow(u)
  <2>1. Flow(t) BY <1>1 DEF Line
  <2> QED BY <2>1, <1>6 DEF Flow, Total
<1>8. Line(u, o) BY <1>1, <1>6, <1>7 DEF Line
<1>9. Pace(u) BY <1>1, <1>2, <1>6 DEF Pace
<1>10. Ear(u, o, k) BY <1>1, <1>6, EarSame
<1>11. Moves(t, u)
  <2>1. \A n \in Nat : AtPoint(t, n) => AtPoint(u, n) BY <1>6 DEF AtPoint
  <2>2. u.rcv_nxt = t.rcv_nxt /\ Edge(u) = Edge(t) /\ u.shutdown = t.shutdown BY <1>6 DEF SameEar, Edge
  <2>3. Stream(u) = Stream(t) /\ t.snd_nxt <= Stream(t) BY <1>1, <1>6 DEF Stream, Total, Line, Flow
  <2>4. t.rcv_nxt \in Nat /\ Edge(t) \in Nat BY <1>1, Numbers
  <2> QED BY <2>1, <2>2, <2>3, <2>4, <1>6 DEF Moves, Onward
<1>12. Sound(p, u, o, k) BY <1>5, <1>6, <1>8, <1>9, <1>10, <1>11, SoundAfter DEF Moves
<1>13. Heard(p, u) BY <1>6 DEF Heard, Role, SameEar
<1> QED BY <1>6, <1>11, <1>12, <1>13 DEF u

\* Bytes that may be queued: the next ones, and the control byte alone and
\* first.
Follows(t, data, ctl) ==
  /\ Typed(t) /\ Chain(t.slist, t.snd_una, t.snd_nxt) /\ t.snd_nxt <= Total(t)
  /\ Total(t) = Span(t.slist, t.snd_una)
  /\ \A i \in 1 .. Len(t.sbuf) : t.sbuf[i] = t.snd_una + i - 1
  /\ data \in Seq(Nat) /\ data # <<>> /\ Len(t.sbuf) < SndBufSize
  /\ \A i \in 1 .. Len(data) : data[i] = Total(t) + i - 1
  /\ ctl \in BOOLEAN /\ (ctl <=> Total(t) = 0) /\ (ctl => Len(data) = 1)

\* What queue does to the fields: the bytes that there is room for follow the
\* ones before them.
LEMMA QueueFacts ==
  ASSUME NEW t, NEW data, NEW ctl, Follows(t, data, ctl)
  PROVE  LET u == queue(t, data, ctl)
             n == Smaller(Len(data), SndBufSize - Len(t.sbuf))
         IN /\ Typed(u) /\ Chain(u.slist, t.snd_una, t.snd_nxt)
            /\ n \in Nat \ {0} /\ (ctl => n = 1)
            /\ Total(u) = Total(t) + n /\ Total(u) = Span(u.slist, t.snd_una)
            /\ \A i \in 1 .. Len(u.sbuf) : u.sbuf[i] = t.snd_una + i - 1
            /\ Len(u.sbuf) = Len(t.sbuf) + n /\ Len(u.sbuf) <= SndBufSize
            /\ \A m \in Nat : AtPoint(t, m) => AtPoint(u, m)
            /\ SameEar(t, u) /\ u.state = t.state /\ u.snd_una = t.snd_una /\ u.snd_nxt = t.snd_nxt
            /\ u.snd_wnd = t.snd_wnd /\ u.rto = t.rto /\ u.mss = t.mss /\ u.msslevel = t.msslevel
            /\ u.recover = t.recover /\ u.out = t.out
<1> DEFINE n == Smaller(Len(data), SndBufSize - Len(t.sbuf))
           d == SubSeq(data, 1, n)
           N == Len(t.slist)
           open == N > 0 /\ t.slist[N].ctl = ctl /\ t.slist[N].xmit = 0
           e == [seq |-> t.snd_una + Len(t.sbuf), len |-> Len(d), ctl |-> ctl, xmit |-> 0]
           q == IF open THEN [t.slist EXCEPT ![N].len = @ + Len(d)] ELSE Append(t.slist, e)
           u == queue(t, data, ctl)
<1> /\ Typed(t) /\ Chain(t.slist, t.snd_una, t.snd_nxt) /\ t.snd_nxt <= Total(t)
    /\ Total(t) = Span(t.slist, t.snd_una)
    /\ \A i \in 1 .. Len(t.sbuf) : t.sbuf[i] = t.snd_una + i - 1
    /\ data \in Seq(Nat) /\ data # <<>> /\ Len(t.sbuf) < SndBufSize
    /\ \A i \in 1 .. Len(data) : data[i] = Total(t) + i - 1
    /\ ctl \in BOOLEAN /\ (ctl <=> Total(t) = 0) /\ (ctl => Len(data) = 1)
  BY DEF Follows
<1>1. /\ t.slist \in Seq(Segment) /\ t.sbuf \in Seq(Nat) /\ t.snd_una \in Nat /\ t.snd_nxt \in Nat
      /\ Len(t.sbuf) \in Nat /\ Total(t) = t.snd_una + Len(t.sbuf) /\ Len(data) \in Nat /\ Len(data) > 0
      /\ SndBufSize \in Nat /\ N \in Nat
  <2>1. t.slist \in Seq(Segment) /\ t.sbuf \in Seq(Nat) /\ t.snd_una \in Nat /\ t.snd_nxt \in Nat
    BY DEF Typed
  <2>2. Len(data) \in Nat /\ Len(data) > 0 BY EmptySeq, LenProperties
  <2>3. Len(t.sbuf) \in Nat /\ Total(t) = t.snd_una + Len(t.sbuf) /\ SndBufSize \in Nat BY Numbers
  <2> QED BY <2>1, <2>2, <2>3, LenProperties
<1>2. n \in Nat \ {0} /\ n <= Len(data) /\ n <= SndBufSize - Len(t.sbuf)
  <2>1. Len(data) \in Int /\ SndBufSize - Len(t.sbuf) \in Int BY <1>1
  <2>2. n \in {Len(data), SndBufSize - Len(t.sbuf)} /\ n <= Len(data) /\ n <= SndBufSize - Len(t.sbuf)
    BY <2>1, SmallerLarger
  <2> QED BY <2>2, <1>1
<1>3. u = [t EXCEPT !.sbuf = t.sbuf \o d, !.slist = q] BY DEF queue
<1> HIDE DEF n
<1>4. d \in Seq(Nat) /\ Len(d) = n /\ \A i \in 1 .. n : d[i] = data[i]
  <2>1. n \in 0 .. Len(data) BY <1>2
  <2>2. \A i \in 1 .. n : data[i] \in Nat BY <1>2
  <2>3. d \in Seq(Nat) /\ Len(d) = (IF 1 <= n THEN n - 1 + 1 ELSE 0)
        /\ \A i \in 1 .. n - 1 + 1 : d[i] = data[1 + i - 1]
    BY <1>2, <2>2, SubSeqProperties
  <2>4. n - 1 + 1 = n /\ 1 <= n /\ \A i \in 1 .. n : 1 + i - 1 = i BY <1>2
  <2> QED BY <2>3, <2>4
<1> HIDE DEF d
<1>5. t.sbuf \in Seq(Nat) /\ d \in Seq(Nat) /\ Len(d) = n BY <1>1, <1>4
<1>6. t.slist \in Seq(Segment) /\ t.snd_una \in Nat /\ t.snd_nxt \in Nat BY <1>1
<1>7. ctl => n = 1
  <2>1. n \in Nat /\ n > 0 /\ n <= Len(data) /\ Len(data) \in Nat BY <1>1, <1>2
  <2>2. SUFFICES ASSUME ctl PROVE n = 1 OBVIOUS
  <2>3. Len(data) = 1 BY <2>2
  <2> QED BY <2>1, <2>3
<1>8. /\ t.sbuf \o d \in Seq(Nat) /\ Len(t.sbuf \o d) = Len(t.sbuf) + n
      /\ \A i \in 1 .. Len(t.sbuf) + n : (t.sbuf \o d)[i] = t.snd_una + i - 1
  <2> DEFINE c == t.sbuf \o d
  <2>1. c \in Seq(Nat) /\ Len(c) = Len(t.sbuf) + Len(d)
        /\ \A i \in 1 .. Len(t.sbuf) + Len(d) :
             c[i] = IF i <= Len(t.sbuf) THEN t.sbuf[i] ELSE d[i - Len(t.sbuf)]
    BY <1>5, ConcatProperties
  <2> HIDE DEF c
  <2>2. ASSUME NEW i \in 1 .. Len(t.sbuf) + n PROVE c[i] = t.snd_una + i - 1
    <3>1. CASE i <= Len(t.sbuf)
      <4>1. i \in 1 .. Len(t.sbuf) BY <3>1, <1>1, <1>2
      <4>2. c[i] = t.sbuf[i] BY <3>1, <2>1, <1>4
      <4> QED BY <4>1, <4>2
    <3>2. CASE ~ (i <= Len(t.sbuf))
      <4>1. i - Len(t.sbuf) \in 1 .. n /\ i - Len(t.sbuf) \in 1 .. Len(data) BY SMTT(30), <3>2, <1>1, <1>2
      <4>2. c[i] = d[i - Len(t.sbuf)] BY <3>2, <2>1, <1>4
      <4>3. c[i] = Total(t) + (i - Len(t.sbuf)) - 1 BY <4>1, <4>2, <1>4
      <4>4. Total(t) + (i - Len(t.sbuf)) - 1 = t.snd_una + i - 1 BY <1>1, <1>2
      <4> QED BY <4>3, <4>4
    <3> QED BY <3>1, <3>2
  <2>3. c \in Seq(Nat) /\ Len(c) = Len(t.sbuf) + n BY <2>1, <1>5
  <2> QED BY <2>2, <2>3, Zenon DEF c
<1>9. /\ q \in Seq(Segment) /\ Chain(q, t.snd_una, t.snd_nxt)
      /\ Span(q, t.snd_una) = Span(t.slist, t.snd_una) + n
      /\ \A m \in Nat : Ends(t.slist, m) => Ends(q, m)
  <2>1. CASE open
    <3>1. PICK h \in 1 .. Len(t.slist) : h = N BY <2>1, <1>1
    <3>2. ~ ctl
      <4>1. t.snd_una <= t.slist[h].seq /\ t.slist[h].seq < Stop(t.slist[h])
            /\ Stop(t.slist[h]) <= Span(t.slist, t.snd_una)
        BY <3>1, <1>1, ChainSpan
      <4>2. t.slist[h].seq \in Nat /\ Stop(t.slist[h]) \in Nat BY <3>1, <1>1, SegmentFields
      <4>3. Total(t) # 0 BY <4>1, <4>2, <1>1
      <4> QED BY <4>3
    <3>3. t.slist # <<>> /\ t.slist[Len(t.slist)].xmit = 0 /\ ~ t.slist[Len(t.slist)].ctl
      BY <2>1, <3>1, <3>2, <1>1
    <3>4. q = [t.slist EXCEPT ![Len(t.slist)].len = @ + n] BY <2>1, <1>4
    <3>5. n \in Nat BY <1>2
    <3> HIDE DEF q, open, N
    <3> QED BY ZenonT(40), <3>3, <3>4, <3>5, <1>6, ChainExtend
  <2>2. CASE ~ open
    <3>1. e \in Segment BY <1>1, <1>2, <1>4 DEF Segment
    <3>2. q = Append(t.slist, e) BY <2>2
    <3>3. e.seq = Span(t.slist, t.snd_una) /\ e.len = n /\ e.xmit = 0 /\ e.ctl = ctl BY <1>1, <1>4
    <3> HIDE DEF e, q, open, N
    <3>4. e.len > 0 /\ t.snd_nxt <= Span(t.slist, t.snd_una) /\ (e.ctl <=> e.seq = 0)
      BY <3>3, <1>1, <1>2
    <3>5. e.ctl => e.len = 1 BY <3>3, <1>7
    <3> QED BY <3>1, <3>2, <3>3, <3>4, <3>5, <1>6, ChainAppend
  <2> QED BY <2>1, <2>2
<1> HIDE DEF q, u
<1>10. Typed(u)
  <2> DEFINE c == t.sbuf \o d
  <2>1. Len(c) \in 0 .. SndBufSize
    <3>1. SndBufSize \in Nat /\ Len(c) = Len(t.sbuf) + n BY <1>1, <1>8
    <3>2. Len(t.sbuf) + n <= SndBufSize /\ Len(t.sbuf) + n \in Nat BY <1>1, <1>2, <3>1
    <3> HIDE DEF c
    <3> QED BY <3>1, <3>2
  <2>2. c \in Seq(Nat) /\ u = [t EXCEPT !.sbuf = c, !.slist = q] BY <1>3, <1>8
  <2> HIDE DEF c
  <2> QED BY <1>9, <2>1, <2>2 DEF Typed, Fields
<1>11. /\ u.sbuf = t.sbuf \o d /\ u.slist = q
      /\ SameEar(t, u) /\ u.state = t.state /\ u.snd_una = t.snd_una /\ u.snd_nxt = t.snd_nxt
      /\ u.snd_wnd = t.snd_wnd /\ u.rto = t.rto /\ u.mss = t.mss /\ u.msslevel = t.msslevel
      /\ u.recover = t.recover /\ u.out = t.out
  BY <1>3 DEF Typed, Fields, SameEar
<1>12. Len(u.sbuf) = Len(t.sbuf) + n /\ Total(u) = Total(t) + n
  <2>1. Len(u.sbuf) = Len(t.sbuf) + n BY <1>8, <1>11
  <2>2. Total(u) = t.snd_una + Len(u.sbuf) BY <1>11 DEF Total
  <2>3. /\ Len(t.sbuf) \in Nat /\ t.snd_una \in Nat /\ n \in Nat
        /\ Total(t) = t.snd_una + Len(t.sbuf)
    BY <1>1, <1>2
  <2> QED BY <2>1, <2>2, <2>3
<1>13. \A m \in Nat : AtPoint(t, m) => AtPoint(u, m) BY <1>9, <1>11 DEF AtPoint
<1>14. Len(u.sbuf) <= SndBufSize BY <1>1, <1>2, <1>12
<1>15. \A i \in 1 .. Len(u.sbuf) : u.sbuf[i] = t.snd_una + i - 1 BY <1>8, <1>11, <1>12
<1> QED BY <1>2, <1>9, <1>10, <1>11, <1>12, <1>13, <1>14, <1>15, <1>7 DEF u, n


\* The control byte is the first one that either end queues.
LEMMA OpeningSound ==
  ASSUME NEW p, NEW t, NEW o, NEW k, Sound(p, t, o, k), t.state = "LISTEN",
         NEW st \in {"SYN_SENT", "SYN_RECEIVED"}
  PROVE  LET u == queue([t EXCEPT !.state = st], <<CTL_CONNECT>>, TRUE)
         IN Sound(p, u, o, k) /\ Moves(t, u) /\ SameEar(t, u)
            /\ u.state = st /\ u.snd_una = 0 /\ u.snd_nxt = 0
<1> DEFINE s == [t EXCEPT !.state = st]
           data == <<CTL_CONNECT>>
           ctl == TRUE
           u == queue(s, data, ctl)
<1>1. Typed(t) /\ Line(t, o) /\ Ear(t, o, k) /\ Pace(t) BY DEF Sound
<1>2. Flow(t) /\ Total(t) = 0 /\ Chain(t.slist, t.snd_una, t.snd_nxt) BY <1>1 DEF Line, Flow
<1>3. t.snd_una = 0 /\ Len(t.sbuf) = 0 /\ t.snd_nxt = 0
  <2>1. t.snd_una \in Nat /\ Len(t.sbuf) \in Nat /\ Total(t) = t.snd_una + Len(t.sbuf) /\ t.snd_nxt \in Nat
    BY <1>1, Numbers
  <2>2. t.snd_nxt <= Total(t) BY <1>2 DEF Flow
  <2> QED BY <2>1, <2>2, <1>2
<1>4. Typed(s) BY <1>1 DEF Typed, Fields
<1>5. /\ s.state = st /\ s.sbuf = t.sbuf /\ s.slist = t.slist /\ s.snd_una = t.snd_una
      /\ s.snd_nxt = t.snd_nxt /\ s.snd_wnd = t.snd_wnd /\ s.rto = t.rto /\ s.mss = t.mss
      /\ s.recover = t.recover /\ s.out = t.out /\ SameEar(t, s)
  BY <1>1 DEF Typed, Fields, SameEar
<1> HIDE DEF s
<1>6. Total(s) = 0 BY <1>2, <1>5 DEF Total
<1>7. data \in Seq(Nat) /\ data # <<>> /\ Len(data) = 1 /\ data[1] = 0 BY DEF CTL_CONNECT
<1> HIDE DEF data
<1>8. \A i \in 1 .. Len(data) : data[i] = Total(s) + i - 1 BY <1>6, <1>7
<1>9. Chain(s.slist, s.snd_una, s.snd_nxt) /\ s.snd_nxt <= Total(s) /\ Total(s) = Span(s.slist, s.snd_una)
      /\ \A i \in 1 .. Len(s.sbuf) : s.sbuf[i] = s.snd_una + i - 1
  BY <1>2, <1>5, <1>6 DEF Flow
<1>10. Len(s.sbuf) < SndBufSize
  <2>1. SndBufSize \in Nat \ {0} BY Sizes
  <2> QED BY <2>1, <1>3, <1>5
<1>11. ctl /\ ctl \in BOOLEAN /\ (ctl <=> Total(s) = 0) /\ (ctl => Len(data) = 1) BY <1>6, <1>7
<1> HIDE DEF ctl
<1>12. Follows(s, data, ctl) BY <1>4, <1>7, <1>8, <1>9, <1>10, <1>11 DEF Follows
<1> DEFINE n == Smaller(Len(data), SndBufSize - Len(s.sbuf))
<1>13. /\ Typed(u) /\ Chain(u.slist, s.snd_una, s.snd_nxt)
       /\ n \in Nat \ {0} /\ Total(u) = Total(s) + n /\ Total(u) = Span(u.slist, s.snd_una)
       /\ \A i \in 1 .. Len(u.sbuf) : u.sbuf[i] = s.snd_una + i - 1
       /\ Len(u.sbuf) = Len(s.sbuf) + n /\ Len(u.sbuf) <= SndBufSize
       /\ \A m \in Nat : AtPoint(s, m) => AtPoint(u, m)
       /\ SameEar(s, u) /\ u.state = s.state /\ u.snd_una = s.snd_una /\ u.snd_nxt = s.snd_nxt
       /\ u.snd_wnd = s.snd_wnd /\ u.rto = s.rto /\ u.mss = s.mss /\ u.msslevel = s.msslevel
       /\ u.recover = s.recover /\ u.out = s.out
  BY <1>12, QueueFacts
<1>14. n = 1
  <2>1. SndBufSize - Len(s.sbuf) \in Int /\ Len(data) \in Int BY <1>3, <1>5, <1>7, Sizes
  <2>2. n <= Len(data) BY <2>1, SmallerLarger
  <2>3. n \in Nat \ {0} BY <1>13
  <2> QED BY <2>2, <2>3, <1>7
<1> HIDE DEF u, n
<1>15. /\ Total(u) = 1 /\ Len(u.sbuf) = 1 /\ u.snd_una = 0 /\ u.snd_nxt = 0 /\ u.rto = t.rto
       /\ u.snd_wnd = t.snd_wnd /\ u.state = st /\ u.mss = t.mss /\ u.recover = t.recover /\ u.out = t.out
       /\ SameEar(t, u)
  BY <1>3, <1>5, <1>6, <1>13, <1>14 DEF SameEar
<1>16. Flow(u)
  <2>1. t.rto <=> t.snd_una < t.snd_nxt BY <1>2 DEF Flow
  <2>2. \A i \in 1 .. Len(u.sbuf) : u.sbuf[i] = u.snd_una + i - 1 BY <1>13
  <2>3. Total(u) = Span(u.slist, u.snd_una) /\ Len(u.sbuf) <= SndBufSize BY <1>13
  <2> QED BY <2>1, <2>2, <2>3, <1>3, <1>15 DEF Flow
<1>17. Line(u, o)
  <2>1. Chain(u.slist, u.snd_una, u.snd_nxt) BY <1>13
  <2> QED BY <2>1, <1>1, <1>3, <1>15, <1>16 DEF Line
<1>18. Pace(u) BY <1>1, <1>3, <1>15 DEF Pace
<1>19. Ear(u, o, k) BY <1>1, <1>15, EarSame
<1>20. Moves(t, u)
  <2>1. \A m \in Nat : AtPoint(t, m) => AtPoint(u, m)
    <3>1. \A m \in Nat : AtPoint(t, m) => AtPoint(s, m) BY <1>5 DEF AtPoint
    <3> QED BY <3>1, <1>13
  <2>2. u.rcv_nxt = t.rcv_nxt /\ Edge(u) = Edge(t) /\ u.shutdown = t.shutdown BY <1>15 DEF SameEar, Edge
  <2>3. Stream(u) = 1 /\ Stream(t) = 1 BY <1>15 DEF Stream
  <2>4. t.rcv_nxt \in Nat /\ Edge(t) \in Nat BY <1>1, Numbers
  <2> QED BY <2>1, <2>2, <2>3, <2>4, <1>15 DEF Moves, Onward
<1>21. Sound(p, u, o, k) BY <1>1, <1>13, <1>15, <1>17, <1>18, <1>19, <1>20, SoundAfter DEF Moves
<1> QED BY <1>15, <1>20, <1>21 DEF u, s, data, ctl

\* What a user writes is queued behind what it has written.
LEMMA WrittenSound ==
  ASSUME NEW p, NEW t, NEW o, NEW k, Sound(p, t, o, k), t.state = "ESTABLISHED", Begun(t),
         NEW data \in Seq(Nat), data # <<>>, Len(t.sbuf) < SndBufSize,
         \A i \in 1 .. Len(data) : data[i] = Total(t) + i - 1
  PROVE  LET u == queue(t, data, FALSE)
             n == Smaller(Len(data), SndBufSize - Len(t.sbuf))
         IN Sound(p, u, o, k) /\ Onward(t, u) /\ SameEar(t, u) /\ n \in Nat
            /\ u.state = t.state /\ u.snd_una = t.snd_una /\ u.snd_nxt = t.snd_nxt /\ Total(u) = Total(t) + n
<1> DEFINE ctl == FALSE
           u == queue(t, data, ctl)
           n == Smaller(Len(data), SndBufSize - Len(t.sbuf))
<1>1. Typed(t) /\ Line(t, o) /\ Ear(t, o, k) /\ Pace(t) BY DEF Sound
<1>2. Flow(t) /\ Chain(t.slist, t.snd_una, t.snd_nxt) /\ t.snd_una >= 1 BY <1>1 DEF Line, Begun
<1>3. t.snd_una \in Nat /\ t.snd_nxt \in Nat /\ Total(t) \in Nat /\ Len(t.sbuf) \in Nat
      /\ Total(t) = t.snd_una + Len(t.sbuf)
  BY <1>1, Numbers
<1>4. Total(t) # 0 BY <1>2, <1>3
<1>5. t.snd_nxt <= Total(t) /\ Total(t) = Span(t.slist, t.snd_una)
      /\ \A i \in 1 .. Len(t.sbuf) : t.sbuf[i] = t.snd_una + i - 1
  BY <1>2 DEF Flow
<1>6. /\ Typed(u) /\ Chain(u.slist, t.snd_una, t.snd_nxt)
      /\ n \in Nat \ {0} /\ Total(u) = Total(t) + n /\ Total(u) = Span(u.slist, t.snd_una)
      /\ \A i \in 1 .. Len(u.sbuf) : u.sbuf[i] = t.snd_una + i - 1
      /\ Len(u.sbuf) <= SndBufSize
      /\ \A m \in Nat : AtPoint(t, m) => AtPoint(u, m)
      /\ SameEar(t, u) /\ u.state = t.state /\ u.snd_una = t.snd_una /\ u.snd_nxt = t.snd_nxt
      /\ u.snd_wnd = t.snd_wnd /\ u.rto = t.rto /\ u.mss = t.mss /\ u.msslevel = t.msslevel
      /\ u.recover = t.recover /\ u.out = t.out
  <2>1. Follows(t, data, ctl) BY <1>1, <1>2, <1>4, <1>5 DEF Follows
  <2> HIDE DEF ctl
  <2> QED BY <2>1, QueueFacts
<1> HIDE DEF u, n, ctl
<1>7. Flow(u)
  <2>1. t.rto <=> t.snd_una < t.snd_nxt BY <1>2 DEF Flow
  <2>2. u.snd_nxt <= Total(u) BY <1>3, <1>5, <1>6
  <2>3. u.snd_una >= 1 /\ u.state = "ESTABLISHED" BY <1>2, <1>6
  <2> QED BY <2>1, <2>2, <2>3, <1>6 DEF Flow
<1>8. Line(u, o) BY <1>1, <1>6, <1>7 DEF Line
<1>9. Pace(u) BY <1>1, <1>6 DEF Pace
<1>10. Ear(u, o, k) BY <1>1, <1>6, EarSame
<1>11. Onward(t, u)
  <2>1. u.rcv_nxt = t.rcv_nxt /\ Edge(u) = Edge(t) BY <1>6 DEF SameEar, Edge
  <2>2. t.rcv_nxt \in Nat /\ Edge(t) \in Nat BY <1>1, Numbers
  <2> QED BY <2>1, <2>2, <1>6 DEF Onward
<1>12. Sound(p, u, o, k) BY <1>1, <1>6, <1>8, <1>9, <1>10, <1>11, SoundAfter
<1> QED BY <1>6, <1>11, <1>12 DEF u, n, ctl

-----------------------------------------------------------------------------
(* Acknowledgements.                                                       *)

\* An acknowledgement that names more bytes lets go of whole segments, and of
\* their bytes.
LEMMA LetGoSound ==
  ASSUME NEW p, NEW t, NEW o, NEW k, Typed(o), Sound(p, t, o, k), t.state # "CLOSED",
         NEW q, NEW g \in Packet, Between(q, o, t, g), t.snd_una < g.ack
  PROVE  LET u == LetGo(t, g)
         IN /\ Sound(p, u, o, k) /\ Moves(t, u) /\ SameEar(t, u)
            /\ u.state = t.state /\ u.snd_una = g.ack /\ u.snd_nxt = t.snd_nxt
            /\ u.ssthresh = t.ssthresh /\ u.dup_acks = t.dup_acks /\ u.mss = t.mss
            /\ u.snd_una <= u.snd_nxt
<1> DEFINE n == g.ack - t.snd_una
           r == Freed(t.slist, n)
           b == SubSeq(t.sbuf, n + 1, Len(t.sbuf))
           u == LetGo(t, g)
<1>1. Typed(t) /\ Line(t, o) /\ Ear(t, o, k) /\ Pace(t) BY DEF Sound
<1>2. Flow(t) /\ Chain(t.slist, t.snd_una, t.snd_nxt) BY <1>1 DEF Line
<1>3. /\ t.snd_una \in Nat /\ t.snd_nxt \in Nat /\ Len(t.sbuf) \in Nat /\ Total(t) = t.snd_una + Len(t.sbuf)
      /\ RcvBufSize \in Nat /\ SndBufSize \in Nat /\ Edge(o) \in Nat
  BY <1>1, Numbers
<1>4. g.ack \in Nat /\ g.wnd \in Nat BY DEF Packet
<1>5. t.slist \in Seq(Segment) /\ t.sbuf \in Seq(Nat) BY <1>1 DEF Typed
<1>6. Ends(t.slist, g.ack)
  <2>1. AtPoint(t, g.ack) BY DEF Between
  <2>2. ~ (g.ack <= t.snd_una) BY <1>3, <1>4
  <2> QED BY <2>1, <2>2 DEF AtPoint
<1>7. /\ r \in Seq(Segment) /\ Chain(r, g.ack, t.snd_nxt) /\ Span(r, g.ack) = Span(t.slist, t.snd_una)
      /\ g.ack <= t.snd_nxt /\ \A m \in Nat : Ends(t.slist, m) => m <= g.ack \/ Ends(r, m)
  BY <1>2, <1>3, <1>4, <1>5, <1>6, ChainFreed
<1>8. t.snd_nxt <= Total(t) /\ Total(t) = Span(t.slist, t.snd_una) BY <1>2 DEF Flow
<1>9. n \in Nat \ {0} /\ n <= Len(t.sbuf) /\ g.ack = t.snd_una + n BY <1>3, <1>4, <1>7, <1>8
<1>10. u = [t EXCEPT !.snd_wnd = g.wnd, !.snd_una = g.ack, !.doublings = 0,
                     !.rto = (g.ack # t.snd_nxt), !.sbuf = b, !.slist = r]
  BY DEF LetGo
<1> HIDE DEF n, r, u
<1>11. /\ b \in Seq(Nat) /\ Len(b) = Len(t.sbuf) - n
       /\ \A i \in 1 .. Len(t.sbuf) - n : b[i] = t.sbuf[n + i]
  <2>1. n + 1 \in Nat /\ n + 1 >= 1 /\ n + 1 \in 1 .. Len(t.sbuf) + 1 /\ Len(t.sbuf) \in Nat BY <1>3, <1>9
  <2>2. \A i \in n + 1 .. Len(t.sbuf) : t.sbuf[i] \in Nat
    <3>1. ASSUME NEW i \in n + 1 .. Len(t.sbuf) PROVE t.sbuf[i] \in Nat
      <4>1. i \in 1 .. Len(t.sbuf) BY <1>3, <1>9
      <4> QED BY <4>1, <1>5
    <3> QED BY <3>1
  <2>3. /\ b \in Seq(Nat) /\ Len(b) = (IF n + 1 <= Len(t.sbuf) THEN Len(t.sbuf) - (n + 1) + 1 ELSE 0)
        /\ \A i \in 1 .. Len(t.sbuf) - (n + 1) + 1 : b[i] = t.sbuf[(n + 1) + i - 1]
    BY <1>5, <2>1, <2>2, SubSeqProperties
  <2> HIDE DEF b
  <2>4. Len(t.sbuf) - (n + 1) + 1 = Len(t.sbuf) - n BY <1>3, <1>9
  <2>5. Len(b) = Len(t.sbuf) - n BY <2>3, <2>4, <1>3, <1>9
  <2>6. ASSUME NEW i \in 1 .. Len(t.sbuf) - n PROVE b[i] = t.sbuf[n + i]
    <3>1. (n + 1) + i - 1 = n + i BY <1>9
    <3>2. b[i] = t.sbuf[(n + 1) + i - 1] BY <2>3, <2>4
    <3> QED BY <3>1, <3>2
  <2> QED BY <2>3, <2>5, <2>6
<1> HIDE DEF b
<1>12. Typed(u)
  <2>1. (g.ack # t.snd_nxt) \in BOOLEAN /\ 0 \in 0 .. Patience BY Sizes
  <2>2. g.wnd \in 0 .. RcvBufSize BY <1>3, <1>4 DEF Between
  <2>3. Len(b) \in 0 .. SndBufSize
    <3>1. Len(t.sbuf) \in 0 .. SndBufSize /\ SndBufSize \in Nat BY <1>1, Sizes DEF Typed
    <3>2. Len(b) = Len(t.sbuf) - n BY <1>11
    <3> QED BY <1>9, <3>1, <3>2
  <2>4. b \in Seq(Nat) /\ r \in Seq(Segment) BY <1>7, <1>11
  <2> QED BY <2>1, <2>2, <2>3, <2>4, <1>1, <1>4, <1>10 DEF Typed, Fields
<1>13. /\ u.snd_wnd = g.wnd /\ u.snd_una = g.ack /\ u.rto = (g.ack # t.snd_nxt) /\ u.sbuf = b /\ u.slist = r
       /\ u.state = t.state /\ u.snd_nxt = t.snd_nxt /\ SameEar(t, u) /\ u.mss = t.mss
       /\ u.msslevel = t.msslevel /\ u.recover = t.recover /\ u.out = t.out
       /\ u.ssthresh = t.ssthresh /\ u.dup_acks = t.dup_acks
  BY <1>1, <1>10 DEF Typed, Fields, SameEar
<1>14. Total(u) = Total(t) BY <1>3, <1>9, <1>11, <1>13 DEF Total
<1>15. Flow(u)
  <2>1. \A i \in 1 .. Len(u.sbuf) : u.sbuf[i] = u.snd_una + i - 1
    <3>1. ASSUME NEW i \in 1 .. Len(t.sbuf) - n PROVE b[i] = g.ack + i - 1
      <4>1. n + i \in 1 .. Len(t.sbuf) BY <1>3, <1>9
      <4>2. t.sbuf[n + i] = t.snd_una + (n + i) - 1 BY <4>1, <1>2 DEF Flow
      <4>3. t.snd_una + (n + i) - 1 = g.ack + i - 1 BY <1>3, <1>9
      <4> QED BY <4>2, <4>3, <1>11
    <3> QED BY <3>1, <1>11, <1>13
  <2>2. Len(u.sbuf) <= SndBufSize
    <3>1. Len(t.sbuf) <= SndBufSize BY <1>2 DEF Flow
    <3> QED BY <3>1, <1>3, <1>9, <1>11, <1>13
  <2>3. u.rto <=> u.snd_una < u.snd_nxt
    <3>1. g.ack # t.snd_nxt <=> g.ack < t.snd_nxt BY <1>3, <1>4, <1>7
    <3> QED BY <3>1, <1>13
  <2>4. u.snd_una >= 1 BY <1>3, <1>9, <1>13
  <2>5. (u.state # "ESTABLISHED" => Total(u) <= 1) /\ (u.state = "LISTEN" => Total(u) = 0)
    BY <1>2, <1>13, <1>14 DEF Flow
  <2>6. Total(u) = Span(u.slist, u.snd_una) /\ u.snd_nxt <= Total(u) BY <1>7, <1>8, <1>13, <1>14
  <2> QED BY <2>1, <2>2, <2>3, <2>4, <2>5, <2>6 DEF Flow
<1>16. Line(u, o)
  <2>1. u.snd_una >= 1 BY <1>3, <1>9, <1>13
  <2>2. u.snd_nxt <= u.snd_una + RcvBufSize
    <3>1. t.snd_nxt <= t.snd_una + RcvBufSize BY <1>1 DEF Line
    <3> QED BY <3>1, <1>3, <1>9, <1>13
  <2>3. u.snd_una <= o.rcv_nxt /\ u.snd_una + u.snd_wnd <= Edge(o) BY <1>13 DEF Between
  <2>4. u.snd_nxt <= Edge(o) BY <1>1, <1>13 DEF Line
  <2>5. Chain(u.slist, u.snd_una, u.snd_nxt) BY <1>7, <1>13
  <2> QED BY <2>1, <2>2, <2>3, <2>4, <2>5, <1>15 DEF Line
<1>17. Pace(u) BY <1>1, <1>13 DEF Pace
<1>18. Ear(u, o, k) BY <1>1, <1>13, EarSame
<1>19. Moves(t, u)
  <2>1. ASSUME NEW m \in Nat, AtPoint(t, m) PROVE AtPoint(u, m)
    <3>1. m <= t.snd_una \/ Ends(t.slist, m) BY <2>1 DEF AtPoint
    <3>2. m <= g.ack \/ Ends(r, m) BY <3>1, <1>3, <1>4, <1>7
    <3> QED BY <3>2, <1>13 DEF AtPoint
  <2>2. u.rcv_nxt = t.rcv_nxt /\ Edge(u) = Edge(t) /\ u.shutdown = t.shutdown BY <1>13 DEF SameEar, Edge
  <2>3. Stream(u) = Stream(t) BY <1>13, <1>14 DEF Stream
  <2>4. t.snd_nxt <= Stream(t)
    <3>1. t.state = "LISTEN" => Total(t) = 0 BY <1>2 DEF Flow
    <3>2. t.snd_nxt \in Nat /\ Total(t) \in Nat BY <1>1, Numbers
    <3> QED BY <1>8, <3>1, <3>2 DEF Stream
  <2>5. t.rcv_nxt \in Nat /\ Edge(t) \in Nat BY <1>1, Numbers
  <2> QED BY <2>1, <2>2, <2>3, <2>4, <2>5, <1>13 DEF Moves, Onward
<1>20. Sound(p, u, o, k) BY <1>12, <1>13, <1>16, <1>17, <1>18, <1>19, SoundAfter DEF Moves
<1> QED BY <1>7, <1>13, <1>19, <1>20 DEF u

\* What is in flight begins with the first segment.
LEMMA FirstSent ==
  ASSUME NEW t, NEW o, Typed(t), Line(t, o), t.state # "CLOSED", t.snd_una < t.snd_nxt
  PROVE  Ready(t, 1) /\ t.slist[1].xmit > 0 /\ t.slist # <<>>
<1>1. Flow(t) /\ Chain(t.slist, t.snd_una, t.snd_nxt) BY DEF Line
<1>2. t.snd_una \in Nat /\ t.snd_nxt \in Nat /\ t.slist \in Seq(Segment) BY Numbers DEF Typed
<1>3. t.slist # <<>>
  <2>1. SUFFICES ASSUME t.slist = <<>> PROVE FALSE OBVIOUS
  <2>2. Span(t.slist, t.snd_una) = t.snd_una BY <2>1 DEF Span
  <2>3. t.snd_nxt <= Span(t.slist, t.snd_una) BY <1>1 DEF Flow
  <2> QED BY <2>2, <2>3, <1>2
<1>4. 1 \in 1 .. Len(t.slist) BY <1>2, <1>3
<1>5. t.slist[1].seq = t.snd_una BY <1>1, <1>4 DEF Chain
<1>6. t.slist[1].xmit > 0 BY <1>1, <1>4, <1>5 DEF Chain
<1> QED BY <1>3, <1>4, <1>6 DEF Ready

\* The bound on the congestion window.
LEMMA CwndFacts ==
  ASSUME NEW x \in Int, x >= 1
  PROVE  Cwnd(x) \in 1 .. CwndBound
<1>1. CwndBound \in Nat \ {0} BY Sizes
<1>2. Cwnd(x) \in {x, CwndBound} /\ Cwnd(x) <= CwndBound
  <2>1. CwndBound \in Int BY <1>1
  <2> QED BY <2>1, SmallerLarger DEF Cwnd
<1> QED BY <1>1, <1>2

\* A step of end p from t to u that takes nothing from the other end.
Goes(p, t, u, o, k) == Sound(p, u, o, k) /\ Moves(t, u) /\ SameEar(t, u)

\* Such steps add up.
LEMMA GoesTrans ==
  ASSUME NEW p, NEW t, NEW u, NEW v, NEW o, NEW k, Typed(t), Goes(p, t, u, o, k), Goes(p, u, v, o, k)
  PROVE  Goes(p, t, v, o, k)
<1>1. Typed(u) /\ Typed(v) BY DEF Goes, Sound
<1>2. Moves(t, v) BY <1>1, MovesTrans DEF Goes
<1>3. SameEar(t, v) BY DEF Goes, SameEar
<1> QED BY <1>2, <1>3 DEF Goes

\* A larger congestion window or none that is too small: the paces that an
\* acknowledgement sets.
LEMMA Growth ==
  ASSUME NEW t, NEW o, Typed(t), Line(t, o), Pace(t), t.state # "CLOSED"
  PROVE  /\ Smaller(t.ssthresh, InFlight(t) + t.mss) \in 1 .. CwndBound
         /\ Cwnd(t.cwnd + (IF t.cwnd < t.ssthresh THEN t.mss
                           ELSE Larger(1, (t.mss * t.mss) \div t.cwnd))) \in 1 .. CwndBound
         /\ \A n \in Nat : Cwnd(t.cwnd + t.mss - Smaller(n, t.cwnd)) \in 1 .. CwndBound
         /\ Cwnd(t.cwnd + t.mss) \in 1 .. CwndBound
         /\ InFlight(t) \in Nat
<1>1. t.mss \in Nat \ {0} /\ t.cwnd \in Nat \ {0} /\ t.ssthresh \in Nat \ {0}
      /\ t.snd_una \in Nat /\ t.snd_nxt \in Nat
  BY Numbers
<1>2. t.snd_una <= t.snd_nxt /\ t.snd_nxt <= t.snd_una + RcvBufSize BY DEF Line, Chain
<1>3. RcvBufSize \in Nat /\ SndBufSize \in Nat /\ CwndBound = RcvBufSize + SndBufSize /\ t.mss <= SndBufSize
  BY Sizes DEF Pace
<1>4. InFlight(t) \in Nat /\ InFlight(t) <= RcvBufSize BY <1>1, <1>2, <1>3 DEF InFlight
<1>5. Smaller(t.ssthresh, InFlight(t) + t.mss) \in 1 .. CwndBound
  <2> DEFINE x == InFlight(t) + t.mss
  <2>1. x \in 1 .. CwndBound BY <1>1, <1>3, <1>4
  <2> HIDE DEF x
  <2>2. x \in Int /\ t.ssthresh \in Int BY <1>1, <2>1
  <2>3. Smaller(t.ssthresh, x) \in {t.ssthresh, x} /\ Smaller(t.ssthresh, x) <= x BY <2>2, SmallerLarger
  <2>4. CwndBound \in Nat BY <1>3
  <2>5. Smaller(t.ssthresh, x) \in 1 .. CwndBound BY <2>1, <2>3, <2>4, <1>1
  <2> QED BY <2>5 DEF x
<1>6. Cwnd(t.cwnd + (IF t.cwnd < t.ssthresh THEN t.mss
                     ELSE Larger(1, (t.mss * t.mss) \div t.cwnd))) \in 1 .. CwndBound
  <2> DEFINE y == (t.mss * t.mss) \div t.cwnd
             x == IF t.cwnd < t.ssthresh THEN t.mss ELSE Larger(1, y)
  <2>1. y \in Int
    <3>1. t.mss * t.mss \in Int BY <1>1
    <3> HIDE DEF y
    <3> QED BY <3>1, <1>1 DEF y
  <2> HIDE DEF y
  <2>2. Larger(1, y) \in Int /\ 1 <= Larger(1, y) BY <2>1, SmallerLarger
  <2>3. x \in Int /\ x >= 1 BY <1>1, <2>2
  <2> HIDE DEF x
  <2>4. t.cwnd + x \in Int /\ t.cwnd + x >= 1 BY <1>1, <2>3
  <2>5. Cwnd(t.cwnd + x) \in 1 .. CwndBound BY <2>4, CwndFacts
  <2> QED BY <2>5 DEF x, y
<1>7. ASSUME NEW n \in Nat PROVE Cwnd(t.cwnd + t.mss - Smaller(n, t.cwnd)) \in 1 .. CwndBound
  <2> DEFINE m == Smaller(n, t.cwnd)
  <2>1. n \in Int /\ t.cwnd \in Int BY <1>1
  <2>2. m \in Int /\ m <= t.cwnd BY <2>1, SmallerLarger
  <2> HIDE DEF m
  <2>3. t.cwnd + t.mss - m \in Int /\ t.cwnd + t.mss - m >= 1 BY <1>1, <2>2
  <2>4. Cwnd(t.cwnd + t.mss - m) \in 1 .. CwndBound BY <2>3, CwndFacts
  <2> QED BY <2>4 DEF m
<1>8. Cwnd(t.cwnd + t.mss) \in 1 .. CwndBound
  <2>1. t.cwnd + t.mss \in Int /\ t.cwnd + t.mss >= 1 BY <1>1
  <2> QED BY <2>1, CwndFacts
<1> QED BY <1>4, <1>5, <1>6, <1>7, <1>8

\* A retransmission of the first segment.
LEMMA AgainSound ==
  ASSUME NEW p, NEW t, NEW o, NEW k, Typed(o), Sound(p, t, o, k), Heard(p, t), t.state # "CLOSED",
         t.snd_una < t.snd_nxt, NEW w \in Range(Mss)
  PROVE  LET u == transmit(t, 1, w)
         IN Goes(p, t, u, o, k) /\ Heard(p, u) /\ u.state = t.state
            /\ u.snd_una = t.snd_una /\ u.snd_nxt = t.snd_nxt
<1> DEFINE u == transmit(t, 1, w)
<1>1. Typed(t) /\ Line(t, o) BY DEF Sound
<1>2. Ready(t, 1) /\ t.slist[1].xmit > 0 BY <1>1, FirstSent
<1>3. Sound(p, u, o, k) /\ Moves(t, u) /\ Kept(t, u) /\ u.snd_nxt = t.snd_nxt
  BY <1>2, TransmitSound
<1> HIDE DEF u
<1>4. Heard(p, u) BY <1>3 DEF Heard, Role, Kept, SameEar
<1> QED BY <1>3, <1>4 DEF u, Goes, Kept

\* The end t with other bounds on its speed.
Speed(t, c, d, s, r) == [t EXCEPT !.cwnd = c, !.dup_acks = d, !.ssthresh = s, !.recover = r]

\* A change of those keeps an end sound.
LEMMA CwndOnly ==
  ASSUME NEW p, NEW t, NEW o, NEW k, Sound(p, t, o, k), NEW c \in 1 .. CwndBound, NEW d \in 0 .. DupsBound,
         NEW s \in Nat \ {0}, NEW r \in Nat, r <= t.snd_nxt
  PROVE  LET u == Speed(t, c, d, s, r)
         IN Goes(p, t, u, o, k) /\ u.state = t.state /\ u.snd_una = t.snd_una /\ u.snd_nxt = t.snd_nxt
<1> DEFINE u == Speed(t, c, d, s, r)
<1>1. Typed(t) /\ Pace(t) BY DEF Sound
<1>2. Typed(u) BY <1>1 DEF Typed, Fields, Speed
<1>3. SameLine(t, u) /\ SameEar(t, u) /\ u.mss = t.mss /\ u.msslevel = t.msslevel
      /\ u.recover = r /\ u.out = t.out
  BY <1>1 DEF Typed, Fields, Speed, SameLine, SameEar
<1> HIDE DEF u
<1>4. Pace(u) BY <1>1, <1>3 DEF Pace, SameLine
<1>5. Sound(p, u, o, k) /\ Moves(t, u) BY <1>2, <1>3, <1>4, PaceOnly
<1> QED BY <1>3, <1>5 DEF u, Goes, SameLine

\* However fast an end goes on, it stays sound.
LEMMA PacedSound ==
  ASSUME NEW p, NEW t, NEW o, NEW k, Typed(o), Sound(p, t, o, k), Heard(p, t), t.state # "CLOSED",
         NEW n \in Nat, NEW w \in Range(Mss)
  PROVE  LET u == Paced(t, n, w)
         IN Goes(p, t, u, o, k) /\ Heard(p, u) /\ u.snd_una = t.snd_una
            /\ (u.state = "CLOSED" \/ u.state = t.state)
<1> DEFINE u == Paced(t, n, w)
<1>1. Typed(t) /\ Line(t, o) /\ Pace(t) BY DEF Sound
<1>2. /\ t.dup_acks \in 0 .. DupsBound /\ t.dup_acks \in Nat /\ t.ssthresh \in Nat \ {0}
      /\ t.recover \in Nat /\ t.recover <= t.snd_nxt /\ 0 \in 0 .. DupsBound
      /\ t.snd_una \in Nat /\ t.snd_nxt \in Nat
  <2>1. t.dup_acks \in 0 .. DupsBound /\ DupsBound \in Nat BY <1>1, Sizes DEF Typed
  <2>2. t.ssthresh \in Nat \ {0} /\ t.recover \in Nat /\ t.snd_una \in Nat /\ t.snd_nxt \in Nat
    BY <1>1, Numbers
  <2> QED BY <2>1, <2>2, <1>1 DEF Pace
<1>3. CASE t.dup_acks >= 3 /\ t.snd_una >= t.recover
  <2> DEFINE c == Smaller(t.ssthresh, InFlight(t) + t.mss)
             v == Speed(t, c, 0, t.ssthresh, t.recover)
  <2>1. c \in 1 .. CwndBound BY <1>1, Growth
  <2>2. u = [t EXCEPT !.cwnd = c, !.dup_acks = 0] BY <1>2, <1>3 DEF Paced
  <2>3. u = v BY <2>2, <1>1 DEF Typed, Fields, Speed
  <2> HIDE DEF c, u
  <2>4. Goes(p, t, v, o, k) /\ v.state = t.state /\ v.snd_una = t.snd_una /\ v.snd_nxt = t.snd_nxt
    BY <1>2, <2>1, CwndOnly
  <2> HIDE DEF v
  <2>5. Heard(p, u) BY <2>3, <2>4 DEF Heard, Role, Goes, SameEar
  <2> QED BY <2>3, <2>4, <2>5 DEF u
<1>4. CASE t.dup_acks >= 3 /\ t.snd_una < t.recover /\ mayTransmit(t, 1)
  <2> DEFINE r == transmit(t, 1, w)
             c == Cwnd(r.cwnd + r.mss - Smaller(n, r.cwnd))
             v == Speed(r, c, r.dup_acks, r.ssthresh, r.recover)
  <2>1. t.snd_una < t.snd_nxt BY <1>2, <1>4
  <2>2. Goes(p, t, r, o, k) /\ Heard(p, r) /\ r.state = t.state /\ r.snd_una = t.snd_una
    BY <2>1, AgainSound
  <2>3. u = [r EXCEPT !.cwnd = c] BY <1>2, <1>4 DEF Paced
  <2> HIDE DEF r, u
  <2>4. Typed(r) /\ Line(r, o) /\ Pace(r) BY <2>2 DEF Goes, Sound
  <2>5. u = v BY <2>3, <2>4 DEF Typed, Fields, Speed
  <2>6. c \in 1 .. CwndBound BY <2>2, <2>4, Growth
  <2> HIDE DEF c
  <2>7. /\ r.dup_acks \in 0 .. DupsBound /\ r.ssthresh \in Nat \ {0} 
        /\ r.recover \in Nat /\ r.recover <= r.snd_nxt /\ Sound(p, r, o, k)
    BY <2>2, <2>4 DEF Typed, Pace, Goes
  <2>8. Goes(p, r, v, o, k) /\ v.state = r.state /\ v.snd_una = r.snd_una BY <2>6, <2>7, CwndOnly
  <2> HIDE DEF v
  <2>9. Goes(p, t, v, o, k) BY <1>1, <2>2, <2>8, GoesTrans
  <2>10. Heard(p, u) BY <2>2, <2>5, <2>8 DEF Heard, Role, Goes, SameEar
  <2> QED BY <2>2, <2>5, <2>8, <2>9, <2>10 DEF u
<1>5. CASE t.dup_acks >= 3 /\ t.snd_una < t.recover /\ ~ mayTransmit(t, 1)
  <2>1. u = closedown(t) BY <1>2, <1>5 DEF Paced
  <2> DEFINE v == closedown(t)
  <2>2. Sound(p, v, o, k) /\ Moves(t, v) /\ SameEar(t, v) /\ v.state = "CLOSED" /\ v.snd_una = t.snd_una
    BY ClosedownSound
  <2> HIDE DEF u, v
  <2>3. Heard(p, v) BY <2>2 DEF Heard, Role
  <2> QED BY <2>1, <2>2, <2>3 DEF u, v, Goes
<1>6. CASE t.dup_acks < 3
  <2> DEFINE c == Cwnd(t.cwnd + (IF t.cwnd < t.ssthresh THEN t.mss
                                 ELSE Larger(1, (t.mss * t.mss) \div t.cwnd)))
             v == Speed(t, c, 0, t.ssthresh, t.recover)
  <2>1. c \in 1 .. CwndBound BY <1>1, Growth
  <2>2. u = [t EXCEPT !.dup_acks = 0, !.cwnd = c] BY <1>2, <1>6 DEF Paced
  <2> HIDE DEF c, u
  <2>3. u = v BY <2>2, <1>1 DEF Typed, Fields, Speed
  <2>4. Goes(p, t, v, o, k) /\ v.state = t.state /\ v.snd_una = t.snd_una /\ v.snd_nxt = t.snd_nxt
    BY <1>2, <2>1, CwndOnly
  <2> HIDE DEF v
  <2>5. Heard(p, u) BY <2>3, <2>4 DEF Heard, Role, Goes, SameEar
  <2> QED BY <2>3, <2>4, <2>5 DEF u
<1> QED BY <1>2, <1>3, <1>4, <1>5, <1>6

\* A valuable acknowledgement keeps an end sound.
LEMMA AckedSound ==
  ASSUME NEW p, NEW t, NEW o, NEW k, Typed(o), Sound(p, t, o, k), Heard(p, t), t.state # "CLOSED",
         NEW q, NEW g \in Packet, Between(q, o, t, g), t.snd_una < g.ack, NEW w \in Range(Mss)
  PROVE  LET u == Acked(t, g, w)
         IN Goes(p, t, u, o, k) /\ Heard(p, u) /\ Begun(u)
<1> DEFINE n == g.ack - t.snd_una
           a == LetGo(t, g)
           b == Paced(a, n, w)
           c == IF b.state = "SYN_RECEIVED" /\ ~ g.ctl THEN Established(b) ELSE b
           room == c.state # "CLOSED" /\ c.writeEnable /\ Len(c.sbuf) < (SndBufSize + RcvBufSize) \div 2
           u == Acked(t, g, w)
<1>1. Typed(t) BY DEF Sound
<1>2. g.ack \in Nat /\ t.snd_una \in Nat /\ n \in Nat /\ g.ack >= 1 BY <1>1, Numbers DEF Packet
<1>3. u = IF room THEN [c EXCEPT !.writeEnable = FALSE, !.told = @ \union {"write"}] ELSE c
  BY DEF Acked
<1> HIDE DEF u, room, n
<1>4. Goes(p, t, a, o, k) /\ a.state = t.state /\ a.snd_una = g.ack BY LetGoSound DEF Goes
<1> HIDE DEF a
<1>5. Heard(p, a) BY <1>4 DEF Heard, Role, Goes, SameEar
<1>6. Goes(p, a, b, o, k) /\ Heard(p, b) /\ b.snd_una = g.ack
  <2>1. Sound(p, a, o, k) /\ a.state # "CLOSED" BY <1>4 DEF Goes
  <2>2. Goes(p, a, b, o, k) /\ Heard(p, b) /\ b.snd_una = a.snd_una BY <1>2, <1>5, <2>1, PacedSound
  <2> QED BY <2>2, <1>4
<1> HIDE DEF b
<1>7. Goes(p, t, b, o, k) BY <1>1, <1>4, <1>6, GoesTrans
<1>8. Goes(p, t, c, o, k) /\ Heard(p, c) /\ c.snd_una = g.ack
  <2>1. CASE b.state = "SYN_RECEIVED" /\ ~ g.ctl
    <3> DEFINE e == Established(b)
    <3>1. Sound(p, b, o, k) /\ b.state \in {"SYN_SENT", "SYN_RECEIVED"} BY <2>1, <1>6 DEF Goes
    <3>2. Sound(p, e, o, k) /\ Moves(b, e) /\ SameEar(b, e) /\ Heard(p, e) /\ e.snd_una = b.snd_una
      BY <1>6, <3>1, EstablishedSound
    <3>3. c = e BY <2>1
    <3> HIDE DEF c, e
    <3>4. Goes(p, b, e, o, k) BY <3>2 DEF Goes
    <3> QED BY <1>1, <1>6, <1>7, <3>2, <3>3, <3>4, GoesTrans
  <2>2. CASE ~ (b.state = "SYN_RECEIVED" /\ ~ g.ctl) BY <2>2, <1>6, <1>7
  <2> QED BY <2>1, <2>2
<1> HIDE DEF c
<1>9. Goes(p, t, u, o, k) /\ Heard(p, u) /\ u.snd_una = g.ack
  <2>1. CASE room
    <3>1. u = [c EXCEPT !.writeEnable = FALSE, !.told = @ \union {"write"}] BY <2>1, <1>3
    <3>2. Typed(c) /\ Pace(c) /\ Sound(p, c, o, k) BY <1>8 DEF Goes, Sound
    <3>3. Typed(u)
      <4>1. c.told \union {"write"} \subseteq {"open", "closed", "read", "write"} BY <3>2 DEF Typed
      <4> QED BY <3>1, <3>2, <4>1 DEF Typed, Fields
    <3>4. SameLine(c, u) /\ SameEar(c, u) /\ u.mss = c.mss /\ u.msslevel = c.msslevel
          /\ u.recover = c.recover /\ u.out = c.out
      BY <3>1, <3>2 DEF Typed, Fields, SameLine, SameEar
    <3>5. Pace(u) BY <3>2, <3>4 DEF Pace, SameLine
    <3>6. Goes(p, c, u, o, k) BY <3>2, <3>3, <3>4, <3>5, PaceOnly DEF Goes
    <3>7. Goes(p, t, u, o, k) BY <1>1, <1>8, <3>6, GoesTrans
    <3>8. Heard(p, u) /\ u.snd_una = g.ack BY <1>8, <3>4 DEF Heard, Role, SameLine, SameEar
    <3> QED BY <3>7, <3>8
  <2>2. CASE ~ room BY <2>2, <1>3, <1>8
  <2> QED BY <2>1, <2>2
<1>10. Begun(u) BY <1>2, <1>9 DEF Begun
<1> QED BY <1>9, <1>10 DEF u

\* The window that a packet announces is the one to keep within.
LEMMA WindowSound ==
  ASSUME NEW p, NEW t, NEW o, NEW k, Sound(p, t, o, k),
         NEW q, NEW g \in Packet, Between(q, o, t, g), g.ack = t.snd_una
  PROVE  LET u == [t EXCEPT !.snd_wnd = g.wnd]
         IN Goes(p, t, u, o, k) /\ u.state = t.state /\ u.snd_una = t.snd_una /\ u.snd_nxt = t.snd_nxt
            /\ u.dup_acks = t.dup_acks
<1> DEFINE u == [t EXCEPT !.snd_wnd = g.wnd]
<1>1. Typed(t) /\ Line(t, o) /\ Ear(t, o, k) /\ Pace(t) BY DEF Sound
<1>2. g.wnd \in 0 .. RcvBufSize
  <2>1. g.wnd \in Nat /\ RcvBufSize \in Nat BY Sizes DEF Packet
  <2> QED BY <2>1 DEF Between
<1>3. Typed(u) BY <1>1, <1>2 DEF Typed, Fields
<1>4. /\ u.state = t.state /\ u.sbuf = t.sbuf /\ u.slist = t.slist /\ u.snd_una = t.snd_una
      /\ u.snd_nxt = t.snd_nxt /\ u.snd_wnd = g.wnd /\ u.rto = t.rto /\ SameEar(t, u) /\ u.mss = t.mss
      /\ u.msslevel = t.msslevel /\ u.recover = t.recover /\ u.out = t.out /\ u.dup_acks = t.dup_acks
  BY <1>1 DEF Typed, Fields, SameEar
<1> HIDE DEF u
<1>5. Total(u) = Total(t) BY <1>4 DEF Total
<1>6. t.state # "CLOSED" => Flow(u)
  <2>1. SUFFICES ASSUME t.state # "CLOSED" PROVE Flow(u) OBVIOUS
  <2>2. Flow(t) BY <1>1, <2>1 DEF Line
  <2> QED BY <2>2, <1>4, <1>5 DEF Flow
<1>7. Line(u, o)
  <2>1. u.snd_una + u.snd_wnd <= Edge(o) BY <1>4 DEF Between
  <2> QED BY <2>1, <1>1, <1>4, <1>6 DEF Line
<1>8. Pace(u) BY <1>1, <1>4 DEF Pace
<1>9. Ear(u, o, k) BY <1>1, <1>4, EarSame
<1>10. Moves(t, u)
  <2>1. \A n \in Nat : AtPoint(t, n) => AtPoint(u, n) BY <1>4 DEF AtPoint
  <2>2. u.rcv_nxt = t.rcv_nxt /\ Edge(u) = Edge(t) /\ u.shutdown = t.shutdown BY <1>4 DEF SameEar, Edge
  <2>3. Stream(u) = Stream(t) BY <1>4, <1>5 DEF Stream
  <2>4. t.state # "CLOSED" => t.snd_nxt <= Stream(t)
    <3>1. SUFFICES ASSUME t.state # "CLOSED" PROVE t.snd_nxt <= Stream(t) OBVIOUS
    <3>2. t.snd_nxt <= Total(t) /\ (t.state = "LISTEN" => Total(t) = 0) BY <1>1, <3>1 DEF Line, Flow
    <3>3. t.snd_nxt \in Nat /\ Total(t) \in Nat BY <1>1, Numbers
    <3> QED BY <3>2, <3>3 DEF Stream
  <2>5. t.rcv_nxt \in Nat /\ Edge(t) \in Nat BY <1>1, Numbers
  <2> QED BY <2>1, <2>2, <2>3, <2>4, <2>5, <1>4 DEF Moves, Onward
<1>11. Sound(p, u, o, k) BY <1>1, <1>3, <1>4, <1>7, <1>8, <1>9, <1>10, SoundAfter DEF Moves
<1> QED BY <1>4, <1>10, <1>11 DEF u, Goes

\* An acknowledgement that names nothing new keeps an end sound.
LEMMA AckedAgainSound ==
  ASSUME NEW p, NEW t, NEW o, NEW k, Typed(o), Sound(p, t, o, k), Heard(p, t), t.state # "CLOSED",
         NEW q, NEW g \in Packet, Between(q, o, t, g), g.ack = t.snd_una, NEW w \in Range(Mss)
  PROVE  LET u == AckedAgain(t, g, w)
         IN Goes(p, t, u, o, k) /\ Heard(p, u) /\ u.snd_una = t.snd_una
            /\ (u.state = "CLOSED" \/ u.state = t.state)
            /\ (t.snd_una = t.snd_nxt => u.state = t.state /\ u.snd_nxt = t.snd_nxt)
<1> DEFINE a == [t EXCEPT !.snd_wnd = g.wnd]
           m == IF t.dup_acks = DupsBound THEN 0 ELSE t.dup_acks + 1
           d == Speed(a, a.cwnd, m, a.ssthresh, a.recover)
           u == AckedAgain(t, g, w)
<1>1. Goes(p, t, a, o, k) /\ a.state = t.state /\ a.snd_una = t.snd_una /\ a.snd_nxt = t.snd_nxt
      /\ a.dup_acks = t.dup_acks
  BY WindowSound
<1>2. Typed(t) /\ Typed(a) /\ Line(a, o) /\ Pace(a) /\ Sound(p, a, o, k) BY <1>1 DEF Goes, Sound
<1>3. d = [a EXCEPT !.dup_acks = m] BY <1>2 DEF Typed, Fields, Speed
<1> HIDE DEF a
<1>4. /\ a.dup_acks \in 0 .. DupsBound /\ a.ssthresh \in Nat \ {0} /\ a.cwnd \in 1 .. CwndBound
      /\ a.recover \in Nat /\ a.recover <= a.snd_nxt /\ DupsBound \in Nat
      /\ a.dup_acks \in Nat /\ a.snd_una \in Nat /\ a.snd_nxt \in Nat
  <2>1. a.dup_acks \in 0 .. DupsBound /\ a.cwnd \in 1 .. CwndBound /\ DupsBound \in Nat
    BY <1>2, Sizes DEF Typed
  <2>2. a.ssthresh \in Nat \ {0} /\ a.recover \in Nat /\ a.dup_acks \in Nat /\ a.snd_una \in Nat
        /\ a.snd_nxt \in Nat
    BY <1>2, Numbers
  <2> QED BY <2>1, <2>2, <1>2 DEF Pace
<1>5. m \in 0 .. DupsBound /\ 0 \in 0 .. DupsBound
  <2>1. t.dup_acks \in 0 .. DupsBound /\ DupsBound \in Nat BY <1>1, <1>4
  <2> QED BY <2>1
<1> HIDE DEF m
<1>6. Goes(p, a, d, o, k) /\ d.state = a.state /\ d.snd_una = a.snd_una /\ d.snd_nxt = a.snd_nxt
  BY SMTT(30), <1>2, <1>4, <1>5, CwndOnly
<1> HIDE DEF d
<1>7. Goes(p, t, d, o, k) /\ d.state = t.state /\ d.snd_una = t.snd_una /\ d.snd_nxt = t.snd_nxt
  BY <1>1, <1>2, <1>6, GoesTrans
<1>8. Typed(d) /\ Line(d, o) /\ Pace(d) /\ Sound(p, d, o, k) BY <1>7 DEF Goes, Sound
<1>9. Heard(p, a) /\ Heard(p, d) BY <1>1, <1>7 DEF Heard, Role, Goes, SameEar
<1>10. CASE g.data # <<>>
  <2>1. u = a BY <1>10 DEF AckedAgain, a
  <2> QED BY <2>1, <1>1, <1>9
<1>11. CASE g.data = <<>> /\ InFlight(t) = 0
  <2> DEFINE v == Speed(a, a.cwnd, 0, a.ssthresh, a.recover)
  <2>1. u = [a EXCEPT !.dup_acks = 0] BY <1>11 DEF AckedAgain, a
  <2>2. u = v BY <2>1, <1>2 DEF Typed, Fields, Speed
  <2>3. Goes(p, a, v, o, k) /\ v.state = a.state /\ v.snd_una = a.snd_una /\ v.snd_nxt = a.snd_nxt
    BY <1>2, <1>4, <1>5, CwndOnly
  <2> HIDE DEF u, v
  <2>4. Goes(p, t, v, o, k) BY <1>1, <1>2, <2>3, GoesTrans
  <2>5. Heard(p, v) BY <1>9, <2>3 DEF Heard, Role, Goes, SameEar
  <2> QED BY <1>1, <2>2, <2>3, <2>4, <2>5 DEF u
<1>12. CASE g.data = <<>> /\ InFlight(t) > 0
  <2>1. t.snd_una < t.snd_nxt
    <3>1. t.snd_una \in Nat /\ t.snd_nxt \in Nat BY <1>1, <1>4
    <3> QED BY <3>1, <1>12 DEF InFlight
  <2>2. ~ (InFlight(t) = 0)
    <3>1. t.snd_una \in Nat /\ t.snd_nxt \in Nat BY <1>1, <1>4
    <3> QED BY <3>1, <2>1 DEF InFlight
  <2>3. d.snd_una < d.snd_nxt /\ d.state # "CLOSED" BY <1>7, <2>1
  <2>4. t.snd_una # t.snd_nxt
    <3>1. t.snd_una \in Nat /\ t.snd_nxt \in Nat BY <1>1, <1>4
    <3> QED BY <3>1, <2>1
  <2>5. CASE m = 3 /\ mayTransmit(d, 1)
    <3> DEFINE r == transmit(d, 1, w)
               half == Larger(InFlight(r) \div 2, 2 * r.mss)
               c == Cwnd(half + 3 * r.mss)
               v == Speed(r, c, r.dup_acks, half, r.snd_nxt)
    <3>1. u = [r EXCEPT !.recover = r.snd_nxt, !.ssthresh = half, !.cwnd = c]
      BY <1>3, <1>12, <2>2, <2>5 DEF AckedAgain, a, m
    <3>2. Goes(p, d, r, o, k) /\ Heard(p, r) /\ r.state = d.state /\ r.snd_una = d.snd_una
      BY <1>8, <1>9, <2>3, AgainSound
    <3> HIDE DEF r, u
    <3>3. Sound(p, r, o, k) /\ Typed(r) /\ Line(r, o) /\ Pace(r) BY <3>2 DEF Goes, Sound
    <3>4. r.snd_nxt \in Nat /\ r.mss \in Nat \ {0} /\ r.snd_una \in Nat BY <3>3, Numbers
    <3>5. half \in Nat \ {0}
      <4> DEFINE i == InFlight(r) \div 2
      <4>1. i \in Int BY <3>4 DEF InFlight
      <4> HIDE DEF i
      <4>2. 2 * r.mss \in Int /\ 2 * r.mss >= 1 BY <3>4
      <4>3. Larger(i, 2 * r.mss) \in Int /\ 2 * r.mss <= Larger(i, 2 * r.mss) BY <4>1, <4>2, SmallerLarger
      <4>4. Larger(i, 2 * r.mss) \in Nat \ {0} BY <4>2, <4>3
      <4> QED BY <4>4 DEF i
    <3> HIDE DEF half
    <3>6. c \in 1 .. CwndBound
      <4>1. half + 3 * r.mss \in Int /\ half + 3 * r.mss >= 1 BY <3>4, <3>5
      <4> QED BY <4>1, CwndFacts
    <3> HIDE DEF c
    <3>7. u = v BY <3>1, <3>3 DEF Typed, Fields, Speed
    <3>8. r.dup_acks \in 0 .. DupsBound /\ r.snd_nxt <= r.snd_nxt
      <4>1. r.dup_acks \in 0 .. DupsBound BY <3>3 DEF Typed
      <4> QED BY <4>1, <3>4
    <3>9. Goes(p, r, v, o, k) /\ v.state = r.state /\ v.snd_una = r.snd_una
      BY <3>3, <3>4, <3>5, <3>6, <3>8, CwndOnly
    <3> HIDE DEF v
    <3>10. Goes(p, t, r, o, k) BY <1>2, <1>7, <3>2, GoesTrans
    <3>11. Goes(p, t, v, o, k) BY <1>2, <3>9, <3>10, GoesTrans
    <3>12. Heard(p, v) BY <3>2, <3>9 DEF Heard, Role, Goes, SameEar
    <3> QED BY <1>7, <2>4, <3>2, <3>7, <3>9, <3>11, <3>12 DEF u
  <2>6. CASE m = 3 /\ ~ mayTransmit(d, 1)
    <3> DEFINE v == closedown(d)
    <3>1. u = v BY <1>3, <1>12, <2>2, <2>6 DEF AckedAgain, a, m
    <3>2. Sound(p, v, o, k) /\ Moves(d, v) /\ SameEar(d, v) /\ v.state = "CLOSED" /\ v.snd_una = d.snd_una
      BY <1>8, <2>3, ClosedownSound
    <3> HIDE DEF u, v
    <3>3. Goes(p, d, v, o, k) BY <3>2 DEF Goes
    <3>4. Goes(p, t, v, o, k) BY <1>2, <1>7, <3>3, GoesTrans
    <3>5. Heard(p, v) BY <3>2 DEF Heard, Role
    <3> QED BY <1>7, <2>4, <3>1, <3>2, <3>4, <3>5 DEF u
  <2>7. CASE m > 3
    <3> DEFINE c == Cwnd(d.cwnd + d.mss)
               v == Speed(d, c, d.dup_acks, d.ssthresh, d.recover)
    <3>1. c \in 1 .. CwndBound BY <1>8, <2>3, Growth
    <3>2. m # 3 BY <1>5, <2>7
    <3>3. u = [d EXCEPT !.cwnd = c] BY <1>3, <1>12, <2>2, <2>7, <3>2 DEF AckedAgain, a, m
    <3> HIDE DEF c, u
    <3>4. u = v BY <3>3, <1>8 DEF Typed, Fields, Speed
    <3>5. d.dup_acks \in 0 .. DupsBound /\ d.ssthresh \in Nat \ {0}
          /\ d.recover \in Nat /\ d.recover <= d.snd_nxt
      BY <1>8 DEF Typed, Pace
    <3>6. Goes(p, d, v, o, k) /\ v.state = d.state /\ v.snd_una = d.snd_una
      BY <1>8, <3>1, <3>5, CwndOnly
    <3> HIDE DEF v
    <3>7. Goes(p, t, v, o, k) BY <1>2, <1>7, <3>6, GoesTrans
    <3>8. Heard(p, v) BY <1>9, <3>6 DEF Heard, Role, Goes, SameEar
    <3> QED BY <1>7, <2>4, <3>4, <3>6, <3>7, <3>8 DEF u
  <2>8. CASE m # 3 /\ ~ (m > 3)
    <3>1. u = d BY <1>3, <1>12, <2>2, <2>8 DEF AckedAgain, a, m
    <3> QED BY <3>1, <1>7, <1>9
  <2> QED BY <2>5, <2>6, <2>7, <2>8
<1>13. InFlight(t) = 0 \/ InFlight(t) > 0
  <2>1. t.snd_una <= t.snd_nxt
    <3>1. Line(t, o) BY DEF Sound
    <3> QED BY <3>1 DEF Line, Chain
  <2>2. t.snd_una \in Nat /\ t.snd_nxt \in Nat BY <1>1, <1>4
  <2> QED BY <2>1, <2>2 DEF InFlight
<1> QED BY <1>10, <1>11, <1>12, <1>13

-----------------------------------------------------------------------------
(* Data.                                                                   *)

\* How far the buffer is filled: to the end of what came or of something that
\* was saved, and without a gap.
LEMMA ReachFacts ==
  ASSUME NEW rlist \in SUBSET [seq : Nat, len : Nat], NEW n \in Nat,
         \A s \in rlist : Stop(s) <= n + RcvBufSize
  PROVE  LET r == Reach(rlist, n)
         IN /\ r \in Nat /\ n <= r
            /\ \A s \in rlist : s.seq <= r => Stop(s) <= r
            /\ r = n \/ \E s \in rlist : Stop(s) = r
            /\ \A b \in n .. r - 1 : \E s \in rlist : s.seq <= b /\ b < Stop(s)
<1> DEFINE S == {r \in n .. n + RcvBufSize : \A s \in rlist : s.seq <= r => s.seq + s.len <= r}
           r == Reach(rlist, n)
<1>1. RcvBufSize \in Nat BY Sizes
<1>2. \A s \in rlist : s.seq \in Nat /\ s.len \in Nat /\ Stop(s) \in Nat /\ Stop(s) = s.seq + s.len
  BY DEF Stop
<1>3. n + RcvBufSize \in S BY <1>1, <1>2
<1>4. S \subseteq Nat BY <1>1
<1>5. r = Min(S) BY DEF Reach
<1> HIDE DEF r
<1>6. r \in S /\ \A x \in S : r <= x
  <2> HIDE DEF S
  <2> QED BY <1>3, <1>4, <1>5, MinFacts
<1>7. r \in Nat /\ n <= r /\ r <= n + RcvBufSize BY <1>1, <1>6
<1>8. \A s \in rlist : s.seq <= r => Stop(s) <= r BY <1>2, <1>6
<1>9. ASSUME NEW b \in n .. r - 1 PROVE \E s \in rlist : s.seq <= b /\ b < Stop(s)
  <2>1. b \in n .. n + RcvBufSize /\ b \in Nat /\ ~ (r <= b) BY <1>1, <1>7
  <2>2. b \notin S BY <1>6, <2>1
  <2>3. PICK s \in rlist : s.seq <= b /\ ~ (s.seq + s.len <= b) BY <2>1, <2>2
  <2>4. b < Stop(s) BY <2>1, <2>3, <1>2
  <2> QED BY <2>3, <2>4
<1>10. r = n \/ \E s \in rlist : Stop(s) = r
  <2>1. SUFFICES ASSUME r # n PROVE \E s \in rlist : Stop(s) = r OBVIOUS
  <2>2. r - 1 \in n .. r - 1 BY <1>7, <2>1
  <2>3. PICK s \in rlist : s.seq <= r - 1 /\ r - 1 < Stop(s) BY <1>9, <2>2
  <2>4. s.seq \in Nat /\ Stop(s) \in Nat BY <1>2, <2>3
  <2>5. Stop(s) <= r BY <1>7, <1>8, <2>3, <2>4
  <2>6. Stop(s) = r BY <1>7, <2>3, <2>4, <2>5
  <2> QED BY <2>3, <2>6
<1> QED BY <1>7, <1>8, <1>9, <1>10 DEF r

\* No byte that an acknowledgement may name lies beyond what was sent.
LEMMA PointSent ==
  ASSUME NEW t, Typed(t), Chain(t.slist, t.snd_una, t.snd_nxt), NEW n \in Nat, AtPoint(t, n)
  PROVE  n <= t.snd_nxt
<1>1. t.snd_una \in Nat /\ t.snd_nxt \in Nat /\ t.slist \in Seq(Segment) BY Numbers DEF Typed
<1>2. t.snd_una <= t.snd_nxt BY DEF Chain
<1>3. CASE n <= t.snd_una BY <1>1, <1>2, <1>3
<1>4. CASE Ends(t.slist, n) BY <1>4 DEF Ends, Chain
<1> QED BY <1>3, <1>4 DEF AtPoint

\* A change of the receiving half alone.
EarOnly(t, u) ==
  /\ SameLine(t, u) /\ Edge(t) <= Edge(u) /\ t.rcv_nxt <= u.rcv_nxt /\ u.shutdown = t.shutdown
  /\ u.mss = t.mss /\ u.msslevel = t.msslevel /\ u.recover = t.recover /\ u.out = t.out

\* Such a change keeps an end sound when that half is.
LEMMA ReceivedSound ==
  ASSUME NEW p, NEW t, NEW u, NEW o, NEW k, NEW m, Sound(p, t, o, k), Typed(u), Ear(u, o, m),
         EarOnly(t, u)
  PROVE  Sound(p, u, o, m) /\ Moves(t, u) /\ u.state = t.state /\ u.snd_una = t.snd_una
<1> /\ SameLine(t, u) /\ Edge(t) <= Edge(u) /\ t.rcv_nxt <= u.rcv_nxt /\ u.shutdown = t.shutdown
    /\ u.mss = t.mss /\ u.msslevel = t.msslevel /\ u.recover = t.recover /\ u.out = t.out
  BY DEF EarOnly
<1>1. Typed(t) /\ Line(t, o) /\ Pace(t) BY DEF Sound
<1>2. Line(u, o) BY <1>1, LineSame
<1>3. Pace(u) BY <1>1 DEF Pace, SameLine
<1>4. Moves(t, u)
  <2>1. \A n \in Nat : AtPoint(t, n) => AtPoint(u, n) BY DEF AtPoint, SameLine
  <2>2. Stream(u) = Stream(t) BY DEF Stream, Total, SameLine
  <2>3. t.state # "CLOSED" => t.snd_nxt <= Stream(t)
    <3>1. SUFFICES ASSUME t.state # "CLOSED" PROVE t.snd_nxt <= Stream(t) OBVIOUS
    <3>2. t.snd_nxt <= Total(t) /\ (t.state = "LISTEN" => Total(t) = 0) BY <1>1, <3>1 DEF Line, Flow
    <3>3. t.snd_nxt \in Nat /\ Total(t) \in Nat BY <1>1, Numbers
    <3> QED BY <3>2, <3>3 DEF Stream
  <2> QED BY <2>1, <2>2, <2>3 DEF Moves, Onward, SameLine
<1>5. u.out = t.out OBVIOUS
<1>6. Onward(t, u) BY <1>4 DEF Moves
<1>7. Sound(p, u, o, m) BY <1>2, <1>3, <1>5, <1>6, SoundAfter
<1> QED BY <1>4, <1>7 DEF SameLine

\* The data of a packet that is new: nothing of it is cut off, for no end sends
\* beyond the window.
LEMMA FreshFacts ==
  ASSUME NEW t, NEW o, NEW k \in Nat, Typed(t), Typed(o), Line(o, t), Ear(t, o, k),
         NEW q, NEW g \in Packet, Between(q, o, t, g)
  PROVE  LET d == Fresh(t, g)
             s == From(t, g)
         IN /\ d \in Seq(Nat) /\ s \in Nat /\ s \in {g.seq, t.rcv_nxt} /\ s >= t.rcv_nxt
            /\ Len(d) > 0 => /\ g.data # <<>> /\ g.seq \in Nat
                             /\ s + Len(d) = g.seq + Len(g.data)
                             /\ AtPoint(o, s + Len(d)) /\ s + Len(d) <= Edge(t)
                             /\ s + Len(d) <= o.snd_nxt
            /\ \A i \in 1 .. Len(d) : d[i] = s + i - 1
            /\ g.ctl /\ t.rcv_nxt = 0 => Len(d) = 1 /\ s = 0
            /\ g.ctl /\ Len(d) > 0 => t.rcv_nxt = 0
<1> DEFINE s == From(t, g)
           d == Fresh(t, g)
           room == t.rcv_nxt + RcvBufSize - t.rlen - g.seq
           a == s - g.seq + 1
           m == Smaller(Len(g.data), room)
           L == Len(g.data)
<1>1. /\ t.rcv_nxt \in Nat /\ t.rlen \in Nat /\ t.rcv_wnd \in Nat /\ RcvBufSize \in Nat
      /\ Edge(t) \in Nat /\ Edge(t) = t.rcv_nxt + t.rcv_wnd /\ o.snd_nxt \in Nat
  BY Numbers
<1>2. g.seq \in Int /\ g.data \in Seq(Nat) /\ g.ctl \in BOOLEAN /\ L \in Nat BY DEF Packet
<1>3. s \in {g.seq, t.rcv_nxt} /\ g.seq <= s /\ t.rcv_nxt <= s /\ s \in Int
  <2>1. g.seq \in Int /\ t.rcv_nxt \in Int BY <1>1, <1>2
  <2> QED BY <2>1, SmallerLarger DEF From
<1>4. d = SubSeq(g.data, a, m) BY DEF Fresh
<1> HIDE DEF s, d
<1>5. s \in Nat /\ a \in Nat /\ a >= 1 BY <1>1, <1>2, <1>3
<1>6. room \in Int BY <1>1, <1>2
<1>7. m \in Int /\ m \in {L, room} /\ m <= L
  <2> HIDE DEF room
  <2>1. L \in Int BY <1>2
  <2> QED BY <1>6, <2>1, SmallerLarger
<1>8. L > 0 => /\ g.seq \in Nat /\ AtPoint(o, g.seq + L) /\ (g.ctl <=> g.seq = 0)
               /\ g.seq + L <= o.snd_nxt /\ g.seq + L <= Edge(t) /\ m = L
  <2>1. SUFFICES ASSUME L > 0
                 PROVE  /\ g.seq \in Nat /\ AtPoint(o, g.seq + L) /\ (g.ctl <=> g.seq = 0)
                        /\ g.seq + L <= o.snd_nxt /\ g.seq + L <= Edge(t) /\ m = L
    OBVIOUS
  <2>2. g.data # <<>>
    <3>1. g.data = <<>> => L = 0 BY EmptySeq
    <3> QED BY <2>1, <3>1
  <2>3. g.seq >= 0 /\ AtPoint(o, g.seq + L) /\ (g.ctl <=> g.seq = 0) BY <2>2 DEF Between
  <2>4. g.seq \in Nat /\ g.seq + L \in Nat BY <1>2, <2>3
  <2>5. g.seq + L <= o.snd_nxt
    <3>1. Chain(o.slist, o.snd_una, o.snd_nxt) BY DEF Line
    <3> QED BY <2>3, <2>4, <3>1, PointSent
  <2>6. o.snd_nxt <= Edge(t) BY DEF Line
  <2>7. g.seq + L <= Edge(t) BY <1>1, <2>4, <2>5, <2>6
  <2>8. t.rcv_wnd + t.rlen <= RcvBufSize BY DEF Ear
  <2>9. L <= room BY SMTT(30), <1>1, <1>2, <2>4, <2>7, <2>8
  <2>10. m = L
    <3>1. m \in {L, room} /\ m <= L BY <1>7
    <3> HIDE DEF m, L, room
    <3>2. L \in Nat /\ room \in Int BY <1>2, <1>6
    <3> QED BY <2>9, <3>1, <3>2
  <2> QED BY <2>3, <2>4, <2>5, <2>7, <2>10
<1>9. /\ d \in Seq(Nat) /\ Len(d) = (IF a <= m THEN m - a + 1 ELSE 0)
      /\ \A i \in 1 .. m - a + 1 : d[i] = g.data[a + i - 1]
  <2>1. \A i \in a .. m : g.data[i] \in Nat
    <3>1. ASSUME NEW i \in a .. m PROVE g.data[i] \in Nat
      <4>1. i \in 1 .. L BY <1>2, <1>5, <1>7
      <4> QED BY <4>1, <1>2
    <3> QED BY <3>1
  <2>2. a \in Int BY <1>5
  <2> HIDE DEF a, m
  <2> QED BY <2>1, <2>2, <1>4, <1>7, SubSeqProperties
<1>10. Len(d) > 0 => L > 0 /\ a <= m
  <2> HIDE DEF a, m, L
  <2> QED BY <1>2, <1>5, <1>7, <1>9
<1>11. Len(d) > 0 => Len(d) = L - a + 1 /\ s + Len(d) = g.seq + L
  <2>1. SUFFICES ASSUME Len(d) > 0 PROVE Len(d) = L - a + 1 /\ s + Len(d) = g.seq + L OBVIOUS
  <2>2. m = L /\ a <= m BY <1>8, <1>10, <2>1
  <2>3. Len(d) = L - a + 1 BY <1>9, <2>2
  <2>4. s + (L - a + 1) = g.seq + L BY <1>2, <1>5
  <2> QED BY <2>3, <2>4
<1>12. Len(d) > 0 => g.data # <<>>
  <2>1. g.data = <<>> => L = 0 BY EmptySeq
  <2> QED BY <1>10, <2>1
<1>13. ASSUME NEW i \in 1 .. Len(d) PROVE d[i] = s + i - 1
  <2>1. Len(d) \in Nat BY <1>9
  <2>2. Len(d) > 0 BY <2>1
  <2>3. Len(d) = m - a + 1 /\ m = L BY <1>8, <1>9, <1>10, <2>2
  <2>4. d[i] = g.data[a + i - 1] BY <1>9, <2>3
  <2>5. a + i - 1 \in 1 .. L
    <3>1. Len(d) = L - a + 1 BY <1>11, <2>2
    <3>2. L \in Nat /\ a \in Nat /\ a >= 1 /\ i \in Int /\ i >= 1 /\ i <= Len(d) BY <1>2, <1>5, <2>1
    <3> HIDE DEF a, m, L
    <3> QED BY <3>1, <3>2
  <2>6. g.data[a + i - 1] = g.seq + (a + i - 1) - 1 BY <2>5 DEF Between
  <2>7. g.seq + (a + i - 1) - 1 = s + i - 1 BY <1>2, <1>5
  <2> QED BY <2>4, <2>6, <2>7
<1>14. g.ctl => L = 1 BY DEF Between
<1>15. g.ctl /\ t.rcv_nxt = 0 => Len(d) = 1 /\ s = 0
  <2>1. SUFFICES ASSUME g.ctl, t.rcv_nxt = 0 PROVE Len(d) = 1 /\ s = 0 OBVIOUS
  <2>2. L = 1 BY <1>14, <2>1
  <2>3. g.seq = 0 /\ m = L BY <1>8, <2>1, <2>2
  <2>4. s = 0 /\ a = 1 BY <1>3, <2>1, <2>3
  <2> QED BY <1>9, <2>2, <2>3, <2>4
<1>16. g.ctl /\ Len(d) > 0 => t.rcv_nxt = 0
  <2>1. SUFFICES ASSUME g.ctl, Len(d) > 0 PROVE t.rcv_nxt = 0 OBVIOUS
  <2>2. L = 1 BY <1>14, <2>1
  <2>3. g.seq = 0 BY <1>8, <2>1, <2>2
  <2>4. s + Len(d) = 1 BY <1>11, <2>1, <2>2, <2>3
  <2>5. Len(d) \in Nat BY <1>9
  <2> QED BY <1>1, <1>3, <1>5, <2>1, <2>4, <2>5
<1>17. Len(d) > 0 => /\ AtPoint(o, s + Len(d)) /\ s + Len(d) <= Edge(t)
                     /\ s + Len(d) <= o.snd_nxt /\ g.seq \in Nat
  <2>1. SUFFICES ASSUME Len(d) > 0
                 PROVE /\ AtPoint(o, s + Len(d)) /\ s + Len(d) <= Edge(t)
                       /\ s + Len(d) <= o.snd_nxt /\ g.seq \in Nat
    OBVIOUS
  <2>2. s + Len(d) = g.seq + L /\ L > 0 BY <1>10, <1>11, <2>1
  <2> QED BY <1>8, <2>2
<1> QED BY <1>1, <1>3, <1>5, <1>9, <1>11, <1>12, <1>13, <1>15, <1>16, <1>17 DEF s, d

\* Where data is stored: byte b at place b - k.
LEMMA StoredFacts ==
  ASSUME NEW t, Typed(t), NEW k \in Nat, k + t.rlen = t.rcv_nxt - 1, NEW s \in Nat,
         NEW d \in Seq(Nat), \A i \in 1 .. Len(d) : d[i] = s + i - 1
  PROVE  LET r == Stored(t, s, d)
         IN /\ r \in [1 .. RcvBufSize -> Int]
            /\ \A i \in 1 .. RcvBufSize :
                 r[i] = IF k + i \in s .. s + Len(d) - 1 THEN k + i ELSE t.rbuf[i]
<1> DEFINE r == Stored(t, s, d)
           place == t.rlen + s - t.rcv_nxt
<1>1. /\ t.rcv_nxt \in Nat /\ t.rlen \in Nat /\ Len(d) \in Nat /\ RcvBufSize \in Nat
      /\ t.rbuf \in [1 .. RcvBufSize -> Int]
  <2>1. t.rcv_nxt \in Nat /\ t.rlen \in Nat /\ RcvBufSize \in Nat BY Numbers
  <2>2. t.rbuf \in [1 .. RcvBufSize -> Int] BY DEF Typed
  <2> QED BY <2>1, <2>2, LenProperties
<1>2. place \in Int /\ \A i \in Int : i - place = (k + i) - s + 1
  <2>1. t.rcv_nxt \in Nat /\ t.rlen \in Nat BY <1>1
  <2>2. place = s - k - 1
    <3>1. \A x, y \in Int : k + x = y - 1 => x + s - y = s - k - 1 OBVIOUS
    <3>2. t.rlen \in Int /\ t.rcv_nxt \in Int BY <2>1
    <3> QED BY <3>1, <3>2, Zenon
  <2> HIDE DEF place
  <2> QED BY <2>2
<1>3. r = [i \in 1 .. RcvBufSize |-> IF i - place \in 1 .. Len(d) THEN d[i - place] ELSE t.rbuf[i]]
  BY DEF Stored
<1> HIDE DEF r, place
<1>4. ASSUME NEW i \in 1 .. RcvBufSize
      PROVE  /\ r[i] = IF k + i \in s .. s + Len(d) - 1 THEN k + i ELSE t.rbuf[i]
             /\ r[i] \in Int
  <2>1. i \in Int /\ t.rbuf[i] \in Int BY <1>1
  <2>2. i - place = (k + i) - s + 1 BY <1>2, <2>1
  <2>3. r[i] = IF i - place \in 1 .. Len(d) THEN d[i - place] ELSE t.rbuf[i] BY <1>3
  <2>4. i - place \in 1 .. Len(d) <=> k + i \in s .. s + Len(d) - 1 BY SMTT(30), <2>1, <2>2, <1>1
  <2>5. CASE i - place \in 1 .. Len(d)
    <3>1. d[i - place] = s + (i - place) - 1 BY <2>5
    <3>2. s + (i - place) - 1 = k + i BY <2>1, <2>2
    <3>3. r[i] = k + i BY <2>3, <2>5, <3>1, <3>2
    <3> QED BY <2>1, <2>4, <2>5, <3>3
  <2>6. CASE ~ (i - place \in 1 .. Len(d)) BY <2>1, <2>3, <2>4, <2>6
  <2> QED BY <2>5, <2>6
<1>5. r \in [1 .. RcvBufSize -> Int]
  <2>1. \A i \in 1 .. RcvBufSize : r[i] \in Int BY <1>4
  <2>2. DOMAIN r = 1 .. RcvBufSize /\ r = [i \in 1 .. RcvBufSize |-> r[i]] BY <1>3
  <2> QED BY <2>1, <2>2
<1> QED BY <1>4, <1>5 DEF r

\* New bytes d that begin with byte s.
Comes(t, o, s, d) ==
  /\ s \in Nat /\ d \in Seq(Nat) /\ Len(d) > 0 /\ s >= t.rcv_nxt
  /\ \A i \in 1 .. Len(d) : d[i] = s + i - 1
  /\ AtPoint(o, s + Len(d)) /\ s + Len(d) <= Edge(t)

\* The end t when they come early.
Early(t, s, d) ==
  [t EXCEPT !.rbuf = Stored(t, s, d), !.rlist = @ \union {[seq |-> s, len |-> Len(d)]}]

\* They are saved at their place.
LEMMA EarlySound ==
  ASSUME NEW p, NEW t, NEW o, NEW k \in Nat, Typed(o), Sound(p, t, o, k), t.shutdown = "NONE",
         t.rcv_nxt > 0, NEW s, NEW d, Comes(t, o, s, d), s > t.rcv_nxt
  PROVE  LET u == Early(t, s, d)
         IN Sound(p, u, o, k) /\ Moves(t, u) /\ u.state = t.state /\ u.snd_una = t.snd_una
            /\ u.rcv_nxt = t.rcv_nxt
<1> DEFINE e == [seq |-> s, len |-> Len(d)]
           r == Stored(t, s, d)
           u == [t EXCEPT !.rbuf = r, !.rlist = @ \union {e}]
<1> /\ s \in Nat /\ d \in Seq(Nat) /\ Len(d) > 0
    /\ \A i \in 1 .. Len(d) : d[i] = s + i - 1
    /\ AtPoint(o, s + Len(d)) /\ s + Len(d) <= Edge(t)
  BY DEF Comes
<1>1. Typed(t) /\ Ear(t, o, k) BY DEF Sound
<1>2. /\ t.rcv_nxt \in Nat /\ t.rlen \in Nat /\ t.rcv_wnd \in Nat /\ RcvBufSize \in Nat /\ Len(d) \in Nat
      /\ Edge(t) = t.rcv_nxt + t.rcv_wnd
  BY <1>1, Numbers
<1>3. k + t.rlen = t.rcv_nxt - 1 /\ t.rcv_wnd + t.rlen <= RcvBufSize BY <1>1 DEF Ear
<1>4. /\ r \in [1 .. RcvBufSize -> Int]
      /\ \A i \in 1 .. RcvBufSize : r[i] = IF k + i \in s .. s + Len(d) - 1 THEN k + i ELSE t.rbuf[i]
  BY <1>1, <1>3, StoredFacts
<1>5. e \in [seq : Nat, len : Nat] /\ Stop(e) = s + Len(d) /\ e.seq = s /\ e.len = Len(d)
  BY <1>2 DEF Stop
<1> HIDE DEF r, e
<1>6. Typed(u)
  <2>1. t.rlist \union {e} \in SUBSET [seq : Nat, len : Nat] BY <1>1, <1>5 DEF Typed
  <2> QED BY <2>1, <1>1, <1>4 DEF Typed, Fields
<1>7. /\ SameLine(t, u) /\ u.mss = t.mss /\ u.msslevel = t.msslevel /\ u.recover = t.recover /\ u.out = t.out
      /\ u.shutdown = t.shutdown /\ u.rbuf = r /\ u.rlen = t.rlen
      /\ u.rcv_nxt = t.rcv_nxt /\ u.rcv_wnd = t.rcv_wnd /\ u.rlist = t.rlist \union {e}
  BY <1>1 DEF Typed, Fields, SameLine
<1> HIDE DEF u
<1>8. \A i \in 1 .. u.rlen : u.rbuf[i] = k + i
  <2>1. ASSUME NEW i \in 1 .. t.rlen PROVE r[i] = k + i
    <3>1. i \in 1 .. RcvBufSize BY <1>2, <1>3
    <3>2. k + i < s BY <1>2, <1>3
    <3>3. r[i] = t.rbuf[i] BY <1>4, <3>1, <3>2
    <3>4. t.rbuf[i] = k + i BY <1>1 DEF Ear
    <3> QED BY <3>3, <3>4
  <2> QED BY <2>1, <1>7
<1>9. ASSUME NEW f \in u.rlist PROVE Saved(u, o, k, f)
  <2>1. CASE f = e
    <3>1. Stop(e) <= k + 1 + RcvBufSize
      <4>1. t.rcv_nxt + t.rcv_wnd <= k + 1 + RcvBufSize BY <1>2, <1>3
      <4> QED BY <4>1, <1>2, <1>5
    <3>2. ASSUME NEW b \in s .. s + Len(d) - 1 PROVE r[b - k] = b
      <4>1. b - k \in 1 .. RcvBufSize BY <1>2, <1>3, <1>5, <3>1
      <4>2. k + (b - k) = b OBVIOUS
      <4> QED BY <4>1, <4>2, <1>4
    <3> QED BY <2>1, <3>1, <3>2, <1>2, <1>5, <1>7 DEF Saved
  <2>2. CASE f \in t.rlist
    <3>1. Saved(t, o, k, f) BY <1>1, <2>2 DEF Ear
    <3>2. f.seq \in Nat /\ f.len \in Nat /\ Stop(f) \in Nat
      <4>1. f \in [seq : Nat, len : Nat] BY <1>1, <2>2 DEF Typed
      <4> QED BY <4>1 DEF Stop
    <3>3. ASSUME NEW b \in f.seq .. Stop(f) - 1 PROVE r[b - k] = b
      <4>1. f.seq > t.rcv_nxt /\ Stop(f) <= k + 1 + RcvBufSize /\ t.rbuf[b - k] = b BY <3>1 DEF Saved
      <4>2. b - k \in 1 .. RcvBufSize BY SMTT(30), <1>2, <1>3, <3>2, <4>1
      <4>3. k + (b - k) = b BY <3>2
      <4> QED BY <4>1, <4>2, <4>3, <1>4
    <3> QED BY <3>1, <3>3, <1>7 DEF Saved
  <2> QED BY <2>1, <2>2, <1>7
<1>10. Ear(u, o, k) BY <1>1, <1>7, <1>8, <1>9 DEF Ear
<1>11. Edge(t) <= Edge(u) /\ t.rcv_nxt <= u.rcv_nxt BY <1>2, <1>7 DEF Edge
<1>12. Sound(p, u, o, k) /\ Moves(t, u) /\ u.state = t.state /\ u.snd_una = t.snd_una
  <2>1. EarOnly(t, u) BY <1>7, <1>11 DEF EarOnly
  <2> QED BY <1>6, <1>10, <2>1, ReceivedSound
<1> QED BY <1>7, <1>12 DEF u, r, e, Early

\* The end t when the bytes d come in order.
Ordered(t, s, d) ==
  LET more == Reach(t.rlist, s + Len(d)) - s
  IN [t EXCEPT !.rbuf = Stored(t, s, d), !.rlen = @ + more, !.rcv_nxt = @ + more,
               !.rcv_wnd = @ - more, !.rlist = {x \in @ : x.seq > s + more}]

\* They are taken, with what was saved behind them.
LEMMA OrderedSound ==
  ASSUME NEW p, NEW t, NEW o, NEW k \in Nat, Typed(o), Line(o, t), Sound(p, t, o, k), t.shutdown = "NONE",
         t.rcv_nxt > 0, NEW d, Comes(t, o, t.rcv_nxt, d)
  PROVE  LET u == Ordered(t, t.rcv_nxt, d)
         IN Sound(p, u, o, k) /\ Moves(t, u) /\ u.state = t.state /\ u.snd_una = t.snd_una
            /\ u.rcv_nxt >= t.rcv_nxt
<1> DEFINE s == t.rcv_nxt
           n == Len(d)
           R == Reach(t.rlist, s + n)
           more == R - s
           r == Stored(t, s, d)
           list == {x \in t.rlist : x.seq > s + more}
           u == [t EXCEPT !.rbuf = r, !.rlen = @ + more, !.rcv_nxt = @ + more,
                          !.rcv_wnd = @ - more, !.rlist = list]
<1> /\ d \in Seq(Nat) /\ Len(d) > 0
    /\ \A i \in 1 .. Len(d) : d[i] = t.rcv_nxt + i - 1
    /\ AtPoint(o, t.rcv_nxt + Len(d)) /\ t.rcv_nxt + Len(d) <= Edge(t)
  BY DEF Comes
<1>1. Typed(t) /\ Ear(t, o, k) BY DEF Sound
<1>2. /\ s \in Nat /\ t.rlen \in Nat /\ t.rcv_wnd \in Nat /\ RcvBufSize \in Nat /\ n \in Nat
      /\ Edge(t) = s + t.rcv_wnd /\ o.snd_nxt \in Nat
  <2>1. /\ s \in Nat /\ t.rlen \in Nat /\ t.rcv_wnd \in Nat /\ RcvBufSize \in Nat
        /\ Edge(t) = s + t.rcv_wnd
    BY <1>1, Numbers
  <2>2. o.snd_nxt \in Nat BY Numbers
  <2> QED BY <2>1, <2>2, LenProperties
<1>3. k + t.rlen = s - 1 /\ t.rcv_wnd + t.rlen <= RcvBufSize BY <1>1 DEF Ear
<1>4. /\ r \in [1 .. RcvBufSize -> Int]
      /\ \A i \in 1 .. RcvBufSize : r[i] = IF k + i \in s .. s + n - 1 THEN k + i ELSE t.rbuf[i]
  <2>1. Typed(t) /\ s \in Nat /\ k + t.rlen = t.rcv_nxt - 1 BY <1>1, <1>2, <1>3
  <2>2. \A i \in 1 .. Len(d) : d[i] = s + i - 1 OBVIOUS
  <2> HIDE DEF s
  <2> QED BY <2>1, <2>2, StoredFacts
<1>5. t.rlist \in SUBSET [seq : Nat, len : Nat] BY <1>1 DEF Typed
<1>6. ASSUME NEW x \in t.rlist
      PROVE  /\ x.seq \in Nat /\ Stop(x) \in Nat /\ x.seq > s /\ AtPoint(o, Stop(x))
             /\ Stop(x) <= k + 1 + RcvBufSize /\ \A b \in x.seq .. Stop(x) - 1 : t.rbuf[b - k] = b
             /\ Saved(t, o, k, x)
  <2>1. Saved(t, o, k, x) BY <1>1 DEF Ear
  <2>2. x \in [seq : Nat, len : Nat] BY <1>5
  <2>3. x.seq \in Nat /\ Stop(x) \in Nat BY <2>2 DEF Stop
  <2> QED BY <2>1, <2>3 DEF Saved
<1> HIDE DEF r, R
<1>7. /\ R \in Nat /\ s + n <= R /\ (R = s + n \/ \E x \in t.rlist : Stop(x) = R)
      /\ \A b \in s + n .. R - 1 : \E x \in t.rlist : x.seq <= b /\ b < Stop(x)
  <2>1. \A x \in t.rlist : Stop(x) <= (s + n) + RcvBufSize BY <1>2, <1>3, <1>6
  <2>2. s + n \in Nat BY <1>2
  <2> QED BY <1>5, <2>1, <2>2, ReachFacts DEF R
<1>8. R = s + more /\ more \in Nat /\ more >= n /\ more > 0
  <2> QED BY SMTT(30), <1>2, <1>7
<1> HIDE DEF more
<1>9. AtPoint(o, R) /\ more <= t.rcv_wnd
  <2>1. AtPoint(o, R) BY <1>6, <1>7
  <2>2. R <= o.snd_nxt
    <3>1. Chain(o.slist, o.snd_una, o.snd_nxt) BY DEF Line
    <3> QED BY <2>1, <3>1, <1>7, PointSent
  <2>3. o.snd_nxt <= Edge(t) BY DEF Line
  <2> QED BY <2>1, <2>2, <2>3, <1>2, <1>7, <1>8
<1>10. Typed(u)
  <2>1. s + more \in Nat /\ t.rlen + more \in 0 .. RcvBufSize /\ t.rcv_wnd - more \in 0 .. RcvBufSize
    <3>1. t.rcv_wnd <= RcvBufSize BY <1>1, Numbers
    <3>2. s \in Nat /\ more \in Nat /\ t.rlen \in Nat /\ t.rcv_wnd \in Nat /\ RcvBufSize \in Nat
          /\ more <= t.rcv_wnd /\ t.rcv_wnd + t.rlen <= RcvBufSize
      BY <1>2, <1>3, <1>8, <1>9
    <3> HIDE DEF s
    <3>3. s + more \in Nat BY <3>2
    <3>4. t.rlen + more \in 0 .. RcvBufSize BY <3>2
    <3>5. t.rcv_wnd - more \in 0 .. RcvBufSize BY <3>1, <3>2
    <3> QED BY <3>3, <3>4, <3>5
  <2>2. list \in SUBSET [seq : Nat, len : Nat] BY <1>5
  <2> HIDE DEF list
  <2> QED BY <1>1, <1>4, <2>1, <2>2 DEF Typed, Fields
<1>11. /\ SameLine(t, u) /\ u.mss = t.mss /\ u.msslevel = t.msslevel /\ u.recover = t.recover /\ u.out = t.out
       /\ u.shutdown = t.shutdown /\ u.rbuf = r /\ u.rlen = t.rlen + more
       /\ u.rcv_nxt = R /\ u.rcv_wnd = t.rcv_wnd - more /\ u.rlist = list
  <2> HIDE DEF list
  <2>1. u.rcv_nxt = s + more BY <1>1 DEF Typed, Fields
  <2>2. /\ SameLine(t, u) /\ u.mss = t.mss /\ u.msslevel = t.msslevel /\ u.recover = t.recover
        /\ u.out = t.out /\ u.shutdown = t.shutdown /\ u.rbuf = r /\ u.rlen = t.rlen + more
        /\ u.rcv_wnd = t.rcv_wnd - more /\ u.rlist = list
    BY <1>1 DEF Typed, Fields, SameLine
  <2> QED BY <2>1, <2>2, <1>8
<1> HIDE DEF u
<1>12. ASSUME NEW i \in 1 .. t.rlen + more PROVE r[i] = k + i
  <2>1. i \in 1 .. RcvBufSize
    <3>1. /\ more \in Nat /\ t.rlen \in Nat /\ t.rcv_wnd \in Nat /\ RcvBufSize \in Nat
          /\ more <= t.rcv_wnd /\ t.rcv_wnd + t.rlen <= RcvBufSize
      BY <1>2, <1>3, <1>8, <1>9
    <3> HIDE DEF more
    <3> QED BY <3>1
  <2>2. CASE i <= t.rlen
    <3>1. k + i < s BY <1>2, <1>3, <2>1, <2>2
    <3>2. r[i] = t.rbuf[i] BY <1>2, <1>4, <2>1, <3>1
    <3>3. i \in 1 .. t.rlen BY <1>2, <2>1, <2>2
    <3>4. t.rbuf[i] = k + i BY <1>1, <3>3 DEF Ear
    <3> QED BY <3>2, <3>4
  <2>3. CASE t.rlen < i /\ k + i <= s + n - 1
    <3>1. k + i \in s .. s + n - 1 BY <1>2, <1>3, <2>1, <2>3
    <3> QED BY <1>4, <2>1, <3>1
  <2>4. CASE k + i > s + n - 1
    <3>1. k + i \in s + n .. R - 1
      <4>1. k + t.rlen = s - 1 /\ i \in Int /\ i <= t.rlen + more /\ R = s + more /\ more \in Nat
        BY <1>3, <1>8, <2>1
      <4>2. s \in Nat /\ n \in Nat /\ t.rlen \in Nat /\ k + i > s + n - 1 BY <1>2, <2>4
      <4> HIDE DEF s, n
      <4>3. k + i >= s + n BY <4>1, <4>2
      <4>4. k + i <= R - 1 BY <4>1, <4>2
      <4> QED BY <4>1, <4>2, <4>3, <4>4
    <3>2. PICK x \in t.rlist : x.seq <= k + i /\ k + i < Stop(x) BY <1>7, <3>1
    <3>3. x.seq \in Nat /\ Stop(x) \in Nat /\ \A b \in x.seq .. Stop(x) - 1 : t.rbuf[b - k] = b BY <1>6, <3>2
    <3>4. k + i \in x.seq .. Stop(x) - 1 BY <3>2, <3>3, <2>1
    <3>5. t.rbuf[(k + i) - k] = k + i BY <3>3, <3>4
    <3>6. (k + i) - k = i BY <2>1
    <3>7. ~ (k + i \in s .. s + n - 1) BY <2>4
    <3>8. r[i] = t.rbuf[i] BY <1>4, <2>1, <3>7
    <3> QED BY <3>5, <3>6, <3>8
  <2>5. t.rlen < i \/ i <= t.rlen BY <1>2, <2>1
  <2>6. k + i <= s + n - 1 \/ k + i > s + n - 1 BY <1>2, <2>1
  <2> QED BY <2>2, <2>3, <2>4, <2>5, <2>6
<1>13. ASSUME NEW x \in list PROVE Saved(u, o, k, x)
  <2>1. x \in t.rlist /\ x.seq > R BY <1>8
  <2>2. /\ x.seq \in Nat /\ Stop(x) \in Nat /\ AtPoint(o, Stop(x)) /\ x.len > 0
        /\ Stop(x) <= k + 1 + RcvBufSize /\ \A b \in x.seq .. Stop(x) - 1 : t.rbuf[b - k] = b
    BY <1>6, <2>1 DEF Saved
  <2>3. ASSUME NEW b \in x.seq .. Stop(x) - 1 PROVE r[b - k] = b
    <3>1. b \in Nat /\ b > R /\ b < Stop(x) BY <1>7, <2>1, <2>2
    <3>2. b - k \in 1 .. RcvBufSize BY SMTT(30), <1>2, <1>3, <1>7, <2>2, <3>1
    <3>3. k + (b - k) = b /\ ~ (b \in s .. s + n - 1) BY <1>2, <1>7, <3>1
    <3>4. r[b - k] = t.rbuf[b - k] BY <1>4, <3>2, <3>3
    <3> QED BY <2>2, <3>4
  <2> QED BY <2>1, <2>2, <2>3, <1>11 DEF Saved
<1>14. Ear(u, o, k)
  <2>1. u.rcv_nxt > 0 /\ u.rcv_nxt # 0 BY <1>2, <1>7, <1>11
  <2>2. k + u.rlen = u.rcv_nxt - 1
    <3>1. k + (t.rlen + more) = (s + more) - 1
      <4>1. k + t.rlen = s - 1 /\ s \in Nat /\ t.rlen \in Nat BY <1>2, <1>3
      <4>2. more \in Nat BY <1>8
      <4>3. \A a, b, x, y \in Nat : a + b = x - 1 => a + (b + y) = (x + y) - 1 OBVIOUS
      <4> HIDE DEF s, more
      <4> QED BY ZenonT(40), <4>1, <4>2, <4>3
    <3> QED BY <3>1, <1>8, <1>11
  <2>3. u.rcv_wnd + u.rlen <= RcvBufSize
    <3>1. (t.rcv_wnd - more) + (t.rlen + more) <= RcvBufSize BY <1>2, <1>3, <1>8
    <3> QED BY <3>1, <1>11
  <2>4. k + u.rlen <= u.rcv_nxt - 1
    <3>1. u.rcv_nxt \in Nat BY <1>7, <1>11
    <3> QED BY <2>2, <3>1
  <2>5. AtPoint(o, u.rcv_nxt) BY <1>9, <1>11
  <2>6. \A i \in 1 .. u.rlen : u.rbuf[i] = k + i BY <1>11, <1>12
  <2>7. \A x \in u.rlist : Saved(u, o, k, x) BY <1>11, <1>13
  <2> QED BY <2>1, <2>2, <2>3, <2>4, <2>5, <2>6, <2>7 DEF Ear
<1>15. Edge(t) <= Edge(u) /\ t.rcv_nxt <= u.rcv_nxt
  <2>1. Edge(u) = (s + more) + (t.rcv_wnd - more) BY <1>8, <1>11 DEF Edge
  <2>2. s \in Nat /\ t.rcv_wnd \in Nat /\ more \in Nat /\ Edge(t) = s + t.rcv_wnd BY <1>2, <1>8
  <2>3. u.rcv_nxt = s + more /\ t.rcv_nxt = s BY <1>8, <1>11
  <2> HIDE DEF s
  <2>4. Edge(u) = Edge(t) /\ Edge(t) \in Nat BY <2>1, <2>2
  <2>5. s <= s + more BY <2>2
  <2> QED BY <2>3, <2>4, <2>5
<1>16. Sound(p, u, o, k) /\ Moves(t, u) /\ u.state = t.state /\ u.snd_una = t.snd_una
  <2>1. EarOnly(t, u) BY <1>11, <1>15 DEF EarOnly
  <2> QED BY <1>10, <1>14, <2>1, ReceivedSound
<1>17. u.rcv_nxt >= t.rcv_nxt BY <1>2, <1>7, <1>11
<1> QED BY <1>16, <1>17 DEF u, r, more, R, Ordered

\* Bytes that are only counted: the control byte, and those that come when the
\* user has stopped reading.
LEMMA CountedSound ==
  ASSUME NEW p, NEW t, NEW o, NEW k \in Nat, Sound(p, t, o, k), NEW m \in Nat, t.rcv_nxt <= m, AtPoint(o, m),
         t.rcv_nxt = 0 => m <= 1, t.rcv_nxt > 0 /\ m # t.rcv_nxt => t.shutdown # "NONE"
  PROVE  LET u == [t EXCEPT !.rcv_nxt = m]
         IN Sound(p, u, o, k) /\ Moves(t, u) /\ u.state = t.state /\ u.snd_una = t.snd_una
            /\ u.rcv_nxt = m
<1> DEFINE u == [t EXCEPT !.rcv_nxt = m]
<1>1. Typed(t) /\ Ear(t, o, k) BY DEF Sound
<1>2. Typed(u) BY <1>1 DEF Typed, Fields
<1>3. /\ SameLine(t, u) /\ u.mss = t.mss /\ u.msslevel = t.msslevel /\ u.recover = t.recover /\ u.out = t.out
      /\ u.shutdown = t.shutdown /\ u.rbuf = t.rbuf /\ u.rlen = t.rlen /\ u.rcv_nxt = m
      /\ u.rcv_wnd = t.rcv_wnd /\ u.rlist = t.rlist
  BY <1>1 DEF Typed, Fields, SameLine
<1> HIDE DEF u
<1>4. t.rcv_nxt \in Nat /\ t.rlen \in Nat /\ t.rcv_wnd \in Nat BY <1>1, Numbers
<1>5. Ear(u, o, k)
  <2>1. CASE m = t.rcv_nxt
    <3>1. SameEar(t, u) BY <1>3, <2>1 DEF SameEar
    <3> QED BY <1>1, <3>1, EarSame
  <2>2. CASE m # t.rcv_nxt /\ t.rcv_nxt = 0
    <3>1. m = 1 BY <2>2
    <3>2. k = 0 /\ t.rlen = 0 /\ t.rlist = {} BY <1>1, <2>2 DEF Ear
    <3> QED BY <1>1, <1>3, <3>1, <3>2 DEF Ear
  <2>3. CASE m # t.rcv_nxt /\ t.rcv_nxt # 0
    <3>1. t.rcv_nxt > 0 /\ t.shutdown # "NONE" BY <1>4, <2>3
    <3>2. k + t.rlen <= t.rcv_nxt - 1 BY <1>1, <3>1 DEF Ear
    <3>3. m # 0 /\ k + t.rlen <= m - 1 BY <1>4, <3>1, <3>2
    <3> QED BY <1>1, <1>3, <3>1, <3>3 DEF Ear
  <2> QED BY <2>1, <2>2, <2>3
<1>6. EarOnly(t, u)
  <2>1. Edge(t) <= Edge(u) BY <1>3, <1>4 DEF Edge
  <2> QED BY <1>3, <2>1 DEF EarOnly
<1>7. Sound(p, u, o, k) /\ Moves(t, u) /\ u.state = t.state /\ u.snd_una = t.snd_una
  BY <1>2, <1>5, <1>6, ReceivedSound
<1> QED BY <1>3, <1>7 DEF u

\* What Taken changes before it sends: the end v has taken what g brings.
Taking(p, t, v, o, k) ==
  Sound(p, v, o, k) /\ Moves(t, v) /\ v.state = t.state /\ v.snd_una = t.snd_una /\ Heard(p, v)

\* What it sends then keeps that.
LEMMA TakingSends ==
  ASSUME NEW p, NEW t, NEW v, NEW o, NEW k, Typed(t), Typed(o), Taking(p, t, v, o, k), t.state # "CLOSED",
         NEW w \in Range(Mss), NEW flag, NEW idle \in BOOLEAN
  PROVE  Taking(p, t, attemptSend(v, flag, idle, w), o, k)
<1> DEFINE u == attemptSend(v, flag, idle, w)
<1>1. Sound(p, v, o, k) /\ Moves(t, v) /\ Heard(p, v) /\ v.state # "CLOSED" BY DEF Taking
<1>2. Sound(p, u, o, k) /\ Moves(v, u) /\ Kept(v, u) BY <1>1, AttemptSendSound
<1> HIDE DEF u
<1>3. Moves(t, u)
  <2>1. Typed(v) /\ Typed(u) BY <1>1, <1>2 DEF Sound
  <2> QED BY <1>1, <1>2, <2>1, MovesTrans
<1>4. Heard(p, u) BY <1>1, <1>2 DEF Heard, Role, Kept, SameEar
<1>5. u.state = t.state /\ u.snd_una = t.snd_una BY <1>2 DEF Taking, Kept
<1> QED BY <1>2, <1>3, <1>4, <1>5 DEF Taking, u

\* Telling the user that there is something to read changes nothing else.
LEMMA TakingTold ==
  ASSUME NEW p, NEW t, NEW v, NEW o, NEW k, Typed(t), Taking(p, t, v, o, k)
  PROVE  Taking(p, t, [v EXCEPT !.readEnable = FALSE, !.told = @ \union {"read"}], o, k)
<1> DEFINE u == [v EXCEPT !.readEnable = FALSE, !.told = @ \union {"read"}]
<1>1. Sound(p, v, o, k) /\ Typed(v) /\ Pace(v) BY DEF Taking, Sound
<1>2. Typed(u)
  <2>1. v.told \union {"read"} \subseteq {"open", "closed", "read", "write"} BY <1>1 DEF Typed
  <2> QED BY <1>1, <2>1 DEF Typed, Fields
<1>3. SameLine(v, u) /\ SameEar(v, u) /\ u.mss = v.mss /\ u.msslevel = v.msslevel
      /\ u.recover = v.recover /\ u.out = v.out
  BY <1>1 DEF Typed, Fields, SameLine, SameEar
<1> HIDE DEF u
<1>4. Pace(u) BY <1>1, <1>3 DEF Pace, SameLine
<1>5. Sound(p, u, o, k) /\ Moves(v, u) BY <1>1, <1>2, <1>3, <1>4, PaceOnly
<1>6. Moves(t, u) BY <1>1, <1>2, <1>5, MovesTrans DEF Taking
<1>7. Heard(p, u) BY <1>3 DEF Taking, Heard, Role, SameLine, SameEar
<1>8. u.state = t.state /\ u.snd_una = t.snd_una BY <1>3 DEF Taking, SameLine
<1> QED BY <1>5, <1>6, <1>7, <1>8 DEF Taking, u

\* What a packet brings keeps an end sound.  The control byte is what the
\* other end is heard by.
LEMMA PlacedSound ==
  ASSUME NEW p, NEW t, NEW o, NEW k \in Nat, Typed(o), Line(o, t), Sound(p, t, o, k), t.state # "CLOSED",
         NEW q, NEW g \in Packet, Between(q, o, t, g), Heard(p, t) \/ (g.ctl /\ Role(p, t))
  PROVE  Taking(p, t, Placed(t, g), o, k)
<1> DEFINE u == Placed(t, g)
           s == From(t, g)
           d == Fresh(t, g)
           n == Len(d)
           more == Reach(t.rlist, s + n) - s
<1>1. Typed(t) /\ Ear(t, o, k) BY DEF Sound
<1>2. /\ d \in Seq(Nat) /\ s \in Nat /\ s \in {g.seq, t.rcv_nxt} /\ s >= t.rcv_nxt
      /\ Len(d) > 0 => /\ g.data # <<>> /\ g.seq \in Nat
                       /\ s + Len(d) = g.seq + Len(g.data)
                       /\ AtPoint(o, s + Len(d)) /\ s + Len(d) <= Edge(t)
                       /\ s + Len(d) <= o.snd_nxt
      /\ \A i \in 1 .. Len(d) : d[i] = s + i - 1
      /\ g.ctl /\ t.rcv_nxt = 0 => Len(d) = 1 /\ s = 0
      /\ g.ctl /\ Len(d) > 0 => t.rcv_nxt = 0
  BY <1>1, FreshFacts
<1>3. t.rcv_nxt \in Nat /\ n \in Nat /\ o.snd_nxt \in Nat /\ o.snd_una \in Nat /\ g.ctl \in BOOLEAN
  <2>1. t.rcv_nxt \in Nat BY <1>1, Numbers
  <2>2. o.snd_nxt \in Nat /\ o.snd_una \in Nat BY Numbers
  <2>3. n \in Nat BY <1>2, LenProperties
  <2> QED BY <2>1, <2>2, <2>3 DEF Packet
<1> HIDE DEF s, d
<1>4. n > 0 /\ ~ g.ctl => t.rcv_nxt > 0
  <2>1. SUFFICES ASSUME n > 0, ~ g.ctl PROVE t.rcv_nxt > 0 OBVIOUS
  <2>2. g.data # <<>> /\ g.seq \in Nat /\ g.seq + Len(g.data) <= o.snd_nxt BY <1>2, <2>1
  <2>3. g.seq # 0 BY <2>1, <2>2 DEF Between
  <2>4. Len(g.data) \in Nat \ {0}
    <3>1. g.data \in Seq(Nat) BY DEF Packet
    <3> QED BY <2>2, <3>1, EmptySeq
  <2>5. o.snd_nxt > 1 BY <1>3, <2>2, <2>3, <2>4
  <2>6. o.snd_una >= 1 /\ o.snd_una <= t.rcv_nxt BY <1>3, <2>5 DEF Line
  <2> QED BY <1>3, <2>6
<1>5. t.rcv_nxt > 0 => Heard(p, t)
  <2>1. Role(p, t) BY DEF Heard
  <2> QED BY <1>3, <2>1 DEF Heard
<1>6. Moves(t, t)
  <2>1. SameLine(t, t) /\ SameEar(t, t) BY DEF SameLine, SameEar
  <2>2. t.state # "CLOSED" => Flow(t) BY DEF Sound, Line
  <2> QED BY <1>1, <2>1, <2>2, MovesSame
<1>7. CASE n = 0
  <2>1. u = t BY <1>7 DEF Placed, s, d
  <2>2. Heard(p, t)
    <3>1. g.ctl => t.rcv_nxt # 0 BY <1>2, <1>7
    <3> QED BY <1>3, <1>5, <3>1
  <2>3. Taking(p, t, t, o, k) BY <1>6, <2>2 DEF Taking
  <2> QED BY <2>1, <2>3
<1>8. CASE n > 0 /\ (g.ctl \/ t.shutdown # "NONE")
  <2> DEFINE m == IF s = t.rcv_nxt THEN t.rcv_nxt + n ELSE t.rcv_nxt
             v == [t EXCEPT !.rcv_nxt = m]
  <2>1. u = v BY <1>8 DEF Placed, s, d
  <2>2. m \in Nat /\ t.rcv_nxt <= m BY <1>3
  <2>3. AtPoint(o, m)
    <3>1. AtPoint(o, t.rcv_nxt) BY <1>1 DEF Ear
    <3>2. AtPoint(o, s + n) BY <1>2, <1>8
    <3> QED BY <3>1, <3>2
  <2>4. t.rcv_nxt = 0 => g.ctl /\ m = 1
    <3>1. SUFFICES ASSUME t.rcv_nxt = 0 PROVE g.ctl /\ m = 1 OBVIOUS
    <3>2. g.ctl BY <1>4, <1>8, <3>1
    <3>3. n = 1 /\ s = 0 BY <1>2, <3>1, <3>2
    <3> QED BY <3>1, <3>2, <3>3
  <2>5. t.rcv_nxt > 0 /\ m # t.rcv_nxt => t.shutdown # "NONE"
    <3>1. t.rcv_nxt > 0 => ~ g.ctl BY <1>2, <1>8
    <3> QED BY <1>8, <3>1
  <2>6. t.rcv_nxt = 0 => m <= 1
    <3>1. m = 1 => m <= 1 BY <2>2
    <3> HIDE DEF m
    <3> QED BY <2>4, <3>1
  <2> HIDE DEF m
  <2>7. Sound(p, v, o, k) /\ Moves(t, v) /\ v.state = t.state /\ v.snd_una = t.snd_una /\ v.rcv_nxt = m
    BY <2>2, <2>3, <2>5, <2>6, CountedSound
  <2> HIDE DEF v, u
  <2>8. m > 0 BY <1>3, <2>2, <2>4
  <2>9. Heard(p, v)
    <3>1. Role(p, t) BY DEF Heard
    <3> QED BY <2>2, <2>7, <2>8, <3>1 DEF Heard, Role
  <2>10. Taking(p, t, v, o, k) BY <2>7, <2>9 DEF Taking
  <2> QED BY <2>1, <2>10 DEF u
<1>9. CASE n > 0 /\ ~ (g.ctl \/ t.shutdown # "NONE") /\ s = t.rcv_nxt
  <2> DEFINE v == Ordered(t, s, d)
  <2>1. u = v BY <1>9 DEF Placed, Ordered, s, d
  <2>2. t.rcv_nxt > 0 /\ t.shutdown = "NONE" BY <1>4, <1>9
  <2>3. /\ Sound(p, v, o, k) /\ Moves(t, v) /\ v.state = t.state /\ v.snd_una = t.snd_una
        /\ v.rcv_nxt >= t.rcv_nxt
    <3>1. Comes(t, o, t.rcv_nxt, d) BY <1>2, <1>9 DEF Comes
    <3>2. v = Ordered(t, t.rcv_nxt, d) BY <1>9
    <3> HIDE DEF v
    <3> QED BY <2>2, <3>1, <3>2, OrderedSound
  <2> HIDE DEF v, u
  <2>4. Heard(p, v)
    <3>1. Heard(p, t) BY <1>5, <2>2
    <3>2. v.rcv_nxt \in Nat
      <4>1. Typed(v) BY <2>3 DEF Sound
      <4> QED BY <4>1, Numbers
    <3> QED BY <1>3, <2>2, <2>3, <3>1, <3>2 DEF Heard, Role
  <2>5. Taking(p, t, v, o, k) BY <2>3, <2>4 DEF Taking
  <2> QED BY <2>1, <2>5 DEF u
<1>10. CASE n > 0 /\ ~ (g.ctl \/ t.shutdown # "NONE") /\ s # t.rcv_nxt
  <2> DEFINE v == Early(t, s, d)
  <2>1. u = v BY <1>3, <1>10 DEF Placed, Early, s, d
  <2>2. t.rcv_nxt > 0 /\ t.shutdown = "NONE" BY <1>4, <1>10
  <2>3. s > t.rcv_nxt BY <1>2, <1>3, <1>10
  <2>4. /\ Sound(p, v, o, k) /\ Moves(t, v) /\ v.state = t.state /\ v.snd_una = t.snd_una
        /\ v.rcv_nxt = t.rcv_nxt
    <3>1. Comes(t, o, s, d) BY <1>2, <1>10 DEF Comes
    <3> QED BY <2>2, <2>3, <3>1, EarlySound
  <2> HIDE DEF v, u
  <2>5. Heard(p, v)
    <3>1. Heard(p, t) BY <1>5, <2>2
    <3> QED BY <2>4, <3>1 DEF Heard, Role
  <2>6. Taking(p, t, v, o, k) BY <2>4, <2>5 DEF Taking
  <2> QED BY <2>1, <2>6 DEF u
<1> QED BY <1>3, <1>7, <1>8, <1>9, <1>10

\* ... and what is sent then, too.
LEMMA TakenSound ==
  ASSUME NEW p, NEW t, NEW o, NEW k \in Nat, Typed(o), Line(o, t), Sound(p, t, o, k), t.state # "CLOSED",
         NEW q, NEW g \in Packet, Between(q, o, t, g), Heard(p, t) \/ (g.ctl /\ Role(p, t)),
         NEW w \in Range(Mss), NEW idle \in BOOLEAN
  PROVE  Taking(p, t, Taken(t, g, idle, w), o, k)
<1> DEFINE v == Placed(t, g)
           flag == IF v.rlen - t.rlen > Len(Fresh(t, g)) THEN "immediate" ELSE AckFlag(t, g)
           r == attemptSend(v, flag, idle, w)
           u == Taken(t, g, idle, w)
<1>1. Typed(t) BY DEF Sound
<1>2. Taking(p, t, v, o, k) BY PlacedSound
<1>3. u = IF v.rlen > t.rlen /\ t.readEnable
            THEN [r EXCEPT !.readEnable = FALSE, !.told = @ \union {"read"}]
            ELSE r
  BY DEF Taken
<1> HIDE DEF v, flag, u
<1>4. Taking(p, t, r, o, k) BY <1>1, <1>2, TakingSends
<1> HIDE DEF r
<1>5. Taking(p, t, [r EXCEPT !.readEnable = FALSE, !.told = @ \union {"read"}], o, k)
  BY <1>1, <1>4, TakingTold
<1> QED BY <1>3, <1>4, <1>5 DEF u

-----------------------------------------------------------------------------
(* The calls of the owner.                                                 *)

\* What the control byte changes.  An end that it makes answer has sent nothing
\* before, and one that it opens has been acknowledged, or is by this packet.
LEMMA ControlSound ==
  ASSUME NEW p, NEW t, NEW o, NEW k, Typed(o), Sound(p, t, o, k), Heard(p, t), Begun(t),
         t.state # "CLOSED", NEW q, q # p, NEW g \in Packet, Between(q, o, t, g)
  PROVE  LET c == Control(t, g)
         IN /\ Goes(p, t, c, o, k) /\ c.state # "CLOSED" /\ (Begun(c) \/ g.ack > c.snd_una)
            /\ \/ Heard(p, c)
               \/ /\ g.ctl /\ Role(p, c) /\ c.state = "SYN_RECEIVED"
                  /\ c.snd_una = 0 /\ c.snd_nxt = 0
<1> DEFINE c == Control(t, g)
<1>1. Typed(t) /\ Line(t, o) BY DEF Sound
<1>2. t.snd_una \in Nat /\ t.snd_nxt \in Nat /\ g.ack \in Nat /\ g.ctl \in BOOLEAN
  <2>1. t.snd_una \in Nat /\ t.snd_nxt \in Nat BY <1>1, Numbers
  <2> QED BY <2>1 DEF Packet
<1>3. CASE g.ctl /\ t.state = "LISTEN"
  <2>1. c = queue([t EXCEPT !.state = "SYN_RECEIVED"], <<CTL_CONNECT>>, TRUE) BY <1>3 DEF Control
  <2>2. /\ Sound(p, c, o, k) /\ Moves(t, c) /\ SameEar(t, c)
        /\ c.state = "SYN_RECEIVED" /\ c.snd_una = 0 /\ c.snd_nxt = 0
    <3> DEFINE v == queue([t EXCEPT !.state = "SYN_RECEIVED"], <<CTL_CONNECT>>, TRUE)
    <3>1. /\ Sound(p, v, o, k) /\ Moves(t, v) /\ SameEar(t, v)
          /\ v.state = "SYN_RECEIVED" /\ v.snd_una = 0 /\ v.snd_nxt = 0
      <4>1. \A st \in {"SYN_SENT", "SYN_RECEIVED"} :
              LET x == queue([t EXCEPT !.state = st], <<CTL_CONNECT>>, TRUE)
              IN Sound(p, x, o, k) /\ Moves(t, x) /\ SameEar(t, x)
                 /\ x.state = st /\ x.snd_una = 0 /\ x.snd_nxt = 0
        BY <1>3, OpeningSound
      <4> QED BY <4>1
    <3>2. c = v BY <2>1
    <3> HIDE DEF c, v
    <3> QED BY <3>1, <3>2
  <2> HIDE DEF c
  <2>3. p # Initiator
    <3>1. SUFFICES ASSUME p = Initiator PROVE FALSE OBVIOUS
    <3>2. g.ack >= 1 BY <1>3, <3>1 DEF Between
    <3>3. g.ack <= t.snd_nxt
      <4>1. AtPoint(t, g.ack) /\ Chain(t.slist, t.snd_una, t.snd_nxt) BY <1>1 DEF Between, Line
      <4> QED BY <1>1, <1>2, <4>1, PointSent
    <3>4. Flow(t) BY <1>1 DEF Line
    <3>5. t.snd_nxt <= 0 BY <1>3, <3>4 DEF Flow
    <3> QED BY <1>2, <3>2, <3>3, <3>5
  <2>4. Role(p, c) BY <2>2, <2>3 DEF Role
  <2>5. Begun(c) BY <2>2 DEF Begun
  <2> QED BY <1>3, <2>2, <2>4, <2>5 DEF Goes, c
<1>4. CASE g.ctl /\ t.state = "SYN_SENT"
  <2>1. c = Established(t) BY <1>4 DEF Control
  <2>2. /\ Sound(p, c, o, k) /\ Moves(t, c) /\ SameEar(t, c) /\ Heard(p, c)
        /\ c.state = "ESTABLISHED" /\ c.snd_una = t.snd_una
    <3> HIDE DEF c
    <3> QED BY <1>4, <2>1, EstablishedSound
  <2> HIDE DEF c
  <2>3. p = Initiator BY <1>4 DEF Heard, Role
  <2>4. g.ack >= 1 BY <1>4, <2>3 DEF Between
  <2>5. Begun(c) \/ g.ack > c.snd_una
    <3>1. t.snd_una >= 1 \/ g.ack > t.snd_una BY <1>2, <2>4
    <3> QED BY <2>2, <3>1 DEF Begun
  <2> QED BY <2>2, <2>5 DEF Goes, c
<1>5. CASE ~ g.ctl \/ t.state \notin {"LISTEN", "SYN_SENT"}
  <2>1. c = t BY <1>5 DEF Control
  <2>2. Moves(t, t) /\ SameEar(t, t)
    <3>1. SameLine(t, t) /\ SameEar(t, t) BY DEF SameLine, SameEar
    <3>2. t.state # "CLOSED" => Flow(t) BY <1>1 DEF Line
    <3> QED BY <1>1, <3>1, <3>2, MovesSame
  <2>3. Goes(p, t, t, o, k) BY <2>2 DEF Goes
  <2> QED BY <2>1, <2>3
<1> QED BY <1>2, <1>3, <1>4, <1>5

\* What its acknowledgement changes then.
Answered(c, g, w) ==
  CASE g.ack > c.snd_una /\ g.ack <= c.snd_nxt -> Acked(c, g, w)
    [] g.ack = c.snd_una -> AckedAgain(c, g, w)
    [] OTHER -> c

\* The acknowledgement keeps an end sound, and leaves an open one acknowledged.
LEMMA AnsweredSound ==
  ASSUME NEW p, NEW c, NEW o, NEW k, Typed(o), Sound(p, c, o, k), c.state # "CLOSED",
         NEW q, NEW g \in Packet, Between(q, o, c, g), NEW w \in Range(Mss),
         Begun(c) \/ g.ack > c.snd_una,
         \/ Heard(p, c)
         \/ g.ctl /\ Role(p, c) /\ c.state = "SYN_RECEIVED" /\ c.snd_una = 0 /\ c.snd_nxt = 0
  PROVE  LET a == Answered(c, g, w)
         IN Goes(p, c, a, o, k) /\ Begun(a) /\ (Heard(p, a) \/ (g.ctl /\ Role(p, a)))
<1> DEFINE a == Answered(c, g, w)
<1>1. Typed(c) /\ Line(c, o) BY DEF Sound
<1>2. c.snd_una \in Nat /\ c.snd_nxt \in Nat /\ g.ack \in Nat /\ g.ctl \in BOOLEAN
  <2>1. c.snd_una \in Nat /\ c.snd_nxt \in Nat BY <1>1, Numbers
  <2> QED BY <2>1 DEF Packet
<1>3. g.ack <= c.snd_nxt
  <2>1. AtPoint(c, g.ack) /\ Chain(c.slist, c.snd_una, c.snd_nxt) BY <1>1 DEF Between, Line
  <2> QED BY <1>1, <1>2, <2>1, PointSent
<1>4. CASE Heard(p, c) /\ g.ack > c.snd_una
  <2>1. a = Acked(c, g, w)
    <3>1. g.ack > c.snd_una /\ g.ack <= c.snd_nxt /\ g.ack # c.snd_una BY <1>2, <1>3, <1>4
    <3> QED BY <3>1, Zenon DEF Answered
  <2> HIDE DEF a
  <2>2. Goes(p, c, a, o, k) /\ Heard(p, a) /\ Begun(a)
    <3>1. c.snd_una < g.ack BY <1>2, <1>4
    <3> QED BY <1>4, <2>1, <3>1, AckedSound
  <2> QED BY <2>2 DEF a
<1>5. CASE Heard(p, c) /\ g.ack = c.snd_una
  <2>1. a = AckedAgain(c, g, w) BY <1>2, <1>5 DEF Answered
  <2> HIDE DEF a
  <2>2. /\ Goes(p, c, a, o, k) /\ Heard(p, a) /\ a.snd_una = c.snd_una
        /\ a.state = "CLOSED" \/ a.state = c.state
    BY <1>5, <2>1, AckedAgainSound
  <2>3. Begun(c) BY <1>2, <1>5
  <2>4. Begun(a) BY <2>2, <2>3 DEF Begun
  <2> QED BY <2>2, <2>4 DEF a
<1>6. CASE Heard(p, c) /\ g.ack < c.snd_una
  <2>1. a = c BY <1>2, <1>6 DEF Answered
  <2>2. Begun(c) BY <1>2, <1>6
  <2>3. Moves(c, c) /\ SameEar(c, c)
    <3>1. SameLine(c, c) /\ SameEar(c, c) BY DEF SameLine, SameEar
    <3>2. c.state # "CLOSED" => Flow(c) BY <1>1 DEF Line
    <3> QED BY <1>1, <3>1, <3>2, MovesSame
  <2>4. Goes(p, c, c, o, k) BY <2>3 DEF Goes
  <2> QED BY <1>6, <2>1, <2>2, <2>4
<1>7. CASE g.ctl /\ Role(p, c) /\ c.state = "SYN_RECEIVED" /\ c.snd_una = 0 /\ c.snd_nxt = 0
  <2>1. g.ack = c.snd_una BY <1>2, <1>3, <1>7
  <2>2. g.data # <<>>
    <3>1. Len(g.data) = 1 BY <1>7 DEF Between
    <3>2. Len(<<>>) = 0 OBVIOUS
    <3> QED BY <3>1, <3>2
  <2> DEFINE v == [c EXCEPT !.snd_wnd = g.wnd]
  <2>3. a = v
    <3>1. a = AckedAgain(c, g, w) BY <1>2, <2>1 DEF Answered
    <3>2. AckedAgain(c, g, w) = v BY <2>2 DEF AckedAgain
    <3> QED BY <3>1, <3>2
  <2>4. Goes(p, c, v, o, k) /\ v.state = c.state BY <2>1, WindowSound
  <2> HIDE DEF v
  <2>5. Role(p, v) /\ Begun(v) BY <1>7, <2>4 DEF Role, Begun
  <2> QED BY <1>7, <2>3, <2>4, <2>5
<1> QED BY <1>2, <1>4, <1>5, <1>6, <1>7

\* A packet that arrives keeps an end sound.
LEMMA ProcessSound ==
  ASSUME NEW p, NEW t, NEW o, NEW k \in Nat, Typed(o), Line(o, t), Sound(p, t, o, k), Heard(p, t),
         Begun(t), NEW q, q # p, NEW g \in Packet, Between(q, o, t, g), NEW w \in Range(Mss),
         NEW idle \in BOOLEAN
  PROVE  LET u == process(t, g, idle, w)
         IN Sound(p, u, o, k) /\ Moves(t, u) /\ Heard(p, u) /\ Begun(u)
<1> DEFINE u == process(t, g, idle, w)
           c == Control(t, g)
           a == Answered(c, g, w)
<1>1. u = IF t.state = "CLOSED" THEN t ELSE IF a.state = "CLOSED" THEN a ELSE Taken(a, g, idle, w)
  BY DEF process, Answered
<1>2. Typed(t) BY DEF Sound
<1>3. CASE t.state = "CLOSED"
  <2>1. u = t BY <1>1, <1>3
  <2>2. Moves(t, t)
    <3>1. SameLine(t, t) /\ SameEar(t, t) BY DEF SameLine, SameEar
    <3> QED BY <1>2, <1>3, <3>1, MovesSame
  <2> QED BY <2>1, <2>2
<1>4. CASE t.state # "CLOSED"
  <2>1. /\ Goes(p, t, c, o, k) /\ c.state # "CLOSED" /\ (Begun(c) \/ g.ack > c.snd_una)
        /\ \/ Heard(p, c)
           \/ g.ctl /\ Role(p, c) /\ c.state = "SYN_RECEIVED" /\ c.snd_una = 0 /\ c.snd_nxt = 0
    BY <1>4, ControlSound
  <2> HIDE DEF c, u
  <2>2. Sound(p, c, o, k) /\ Between(q, o, c, g)
    <3>1. Sound(p, c, o, k) /\ Onward(t, c) BY <2>1 DEF Goes, Moves
    <3> QED BY <3>1, BetweenReceiver
  <2>3. Goes(p, c, a, o, k) /\ Begun(a) /\ (Heard(p, a) \/ (g.ctl /\ Role(p, a)))
    BY <2>1, <2>2, AnsweredSound
  <2> HIDE DEF a
  <2>4. Goes(p, t, a, o, k) BY <1>2, <2>1, <2>3, GoesTrans
  <2>5. Sound(p, a, o, k) /\ Moves(t, a) /\ Onward(t, a) /\ SameEar(t, a) BY <2>4 DEF Goes, Moves
  <2>6. CASE a.state = "CLOSED"
    <3>1. Heard(p, a) BY <2>3, <2>6 DEF Heard
    <3>2. u = a BY <1>1, <1>4, <2>6
    <3> QED BY <2>3, <2>5, <3>1, <3>2 DEF u
  <2>7. CASE a.state # "CLOSED"
    <3>1. Line(o, a) BY <2>5 DEF SameEar, Line, Edge
    <3>2. Between(q, o, a, g) BY <2>5, BetweenReceiver
    <3> DEFINE v == Taken(a, g, idle, w)
    <3>3. Taking(p, a, v, o, k) BY <2>3, <2>5, <2>7, <3>1, <3>2, TakenSound
    <3>4. u = v BY <1>1, <1>4, <2>7
    <3> HIDE DEF v
    <3>5. Sound(p, v, o, k) /\ Moves(a, v) /\ Heard(p, v) /\ v.state = a.state /\ v.snd_una = a.snd_una
      BY <3>3 DEF Taking
    <3>6. Begun(v) BY <2>3, <3>5 DEF Begun
    <3>7. Moves(t, v)
      <4>1. Typed(a) /\ Typed(v) BY <2>5, <3>5 DEF Sound
      <4> QED BY <1>2, <2>5, <3>5, <4>1, MovesTrans
    <3> QED BY <3>4, <3>5, <3>6, <3>7 DEF u
  <2> QED BY <2>6, <2>7 DEF u
<1> QED BY <1>3, <1>4

\* The call to connect keeps the end that makes it sound.
LEMMA ConnectSound ==
  ASSUME NEW t, NEW o, NEW k, Typed(o), Sound(Initiator, t, o, k), t.state = "LISTEN",
         NEW w \in Range(Mss), NEW idle \in BOOLEAN
  PROVE  LET u == Connect(t, idle, w)
         IN Sound(Initiator, u, o, k) /\ Moves(t, u) /\ Heard(Initiator, u) /\ Begun(u)
<1> DEFINE v == queue([t EXCEPT !.state = "SYN_SENT"], <<CTL_CONNECT>>, TRUE)
           u == attemptSend(v, "none", idle, w)
<1>1. \A st \in {"SYN_SENT", "SYN_RECEIVED"} :
        LET x == queue([t EXCEPT !.state = st], <<CTL_CONNECT>>, TRUE)
        IN Sound(Initiator, x, o, k) /\ Moves(t, x) /\ SameEar(t, x)
           /\ x.state = st /\ x.snd_una = 0 /\ x.snd_nxt = 0
  BY OpeningSound
<1>2. Sound(Initiator, v, o, k) /\ Moves(t, v) /\ v.state = "SYN_SENT" BY <1>1
<1>3. Connect(t, idle, w) = u BY DEF Connect
<1> HIDE DEF v
<1>4. Heard(Initiator, v) BY <1>2 DEF Heard, Role
<1>5. Sound(Initiator, u, o, k) /\ Moves(v, u) /\ Kept(v, u) BY <1>2, <1>4, AttemptSendSound
<1> HIDE DEF u
<1>6. Moves(t, u)
  <2>1. Typed(t) /\ Typed(v) /\ Typed(u) BY <1>2, <1>5 DEF Sound
  <2> QED BY <2>1, <1>2, <1>5, MovesTrans
<1>7. u.state = "SYN_SENT" BY <1>2, <1>5 DEF Kept
<1>8. Heard(Initiator, u) /\ Begun(u) BY <1>7 DEF Heard, Role, Begun
<1> QED BY <1>3, <1>5, <1>6, <1>8

\* A step of end p in which nothing is acknowledged: at most it closes down.
Runs(p, t, u, o, k) ==
  Goes(p, t, u, o, k) /\ u.snd_una = t.snd_una /\ (u.state = "CLOSED" \/ u.state = t.state)

\* Such steps add up,
LEMMA RunsTrans ==
  ASSUME NEW p, NEW t, NEW u, NEW v, NEW o, NEW k, Typed(t), Runs(p, t, u, o, k), Runs(p, u, v, o, k)
  PROVE  Runs(p, t, v, o, k)
<1>1. Goes(p, t, v, o, k) BY GoesTrans DEF Runs
<1> QED BY <1>1 DEF Runs

\* ... and leave the end with what it has heard.
LEMMA RunsHeard ==
  ASSUME NEW p, NEW t, NEW u, NEW o, NEW k, Runs(p, t, u, o, k), Heard(p, t), Begun(t)
  PROVE  Heard(p, u) /\ Begun(u)
BY DEF Runs, Goes, SameEar, Heard, Role, Begun

\* A step that changes nothing is one of them.
LEMMA RunsSelf ==
  ASSUME NEW p, NEW t, NEW o, NEW k, Sound(p, t, o, k)
  PROVE  Runs(p, t, t, o, k)
<1>1. SameLine(t, t) /\ SameEar(t, t) BY DEF SameLine, SameEar
<1>2. Typed(t) /\ (t.state # "CLOSED" => Flow(t)) BY DEF Sound, Line
<1>3. Moves(t, t) BY <1>1, <1>2, MovesSame
<1> QED BY <1>1, <1>3 DEF Runs, Goes

\* A retransmission finds a segment that was sent.
LEMMA RetransmittedSound ==
  ASSUME NEW p, NEW t, NEW o, NEW k, Typed(o), Sound(p, t, o, k), Heard(p, t), t.state # "CLOSED",
         t.rto, NEW w \in Range(Mss)
  PROVE  Runs(p, t, Retransmitted(t, w), o, k)
<1> DEFINE u == Retransmitted(t, w)
<1>1. Typed(t) /\ Line(t, o) BY DEF Sound
<1>2. CASE ~ mayTransmit(t, 1)
  <2> DEFINE v == closedown(t)
  <2>1. u = v BY <1>2 DEF Retransmitted
  <2>2. Sound(p, v, o, k) /\ Moves(t, v) /\ SameEar(t, v) /\ v.state = "CLOSED" /\ v.snd_una = t.snd_una
    BY ClosedownSound
  <2> HIDE DEF u, v
  <2>3. Runs(p, t, v, o, k) BY <2>2 DEF Runs, Goes
  <2> QED BY <2>1, <2>3 DEF u
<1>3. CASE mayTransmit(t, 1)
  <2> DEFINE r == transmit(t, 1, w)
             s == Larger(InFlight(r) \div 2, 2 * r.mss)
             d == Smaller(r.doublings + 1, Patience)
             v == [r EXCEPT !.ssthresh = s, !.cwnd = r.mss, !.doublings = d]
  <2>1. t.snd_una < t.snd_nxt
    <3>1. Flow(t) BY <1>1 DEF Line
    <3> QED BY <3>1 DEF Flow
  <2>2. u = v BY <1>3 DEF Retransmitted
  <2>3. Goes(p, t, r, o, k) /\ r.state = t.state /\ r.snd_una = t.snd_una BY <2>1, AgainSound
  <2> HIDE DEF r, u
  <2>4. Sound(p, r, o, k) /\ Typed(r) /\ Pace(r) /\ Line(r, o) BY <2>3 DEF Goes, Sound
  <2>5. r.mss \in Nat \ {0} /\ r.doublings \in Nat /\ r.mss \in 1 .. CwndBound
    <3>1. r.mss \in Nat \ {0} /\ r.doublings \in Nat BY <2>4, Numbers
    <3>2. 2 * r.mss <= CwndBound BY <2>4, Sizes DEF Pace
    <3>3. CwndBound \in Nat BY Sizes
    <3> QED BY <3>1, <3>2, <3>3
  <2>6. s \in Nat \ {0}
    <3> DEFINE x == InFlight(r) \div 2
               y == 2 * r.mss
    <3>1. x \in Int
      <4>1. InFlight(r) \in Nat
        <5>1. r.state # "CLOSED" BY <2>3
        <5> QED BY <2>4, <5>1, Growth
      <4> QED BY <4>1
    <3>2. y \in Int /\ y >= 1 BY <2>5
    <3> HIDE DEF x, y
    <3>3. Larger(x, y) \in Int /\ y <= Larger(x, y) BY <3>1, <3>2, SmallerLarger
    <3>4. Larger(x, y) \in Nat \ {0} BY <3>2, <3>3
    <3> QED BY <3>4 DEF x, y
  <2>7. d \in 0 .. Patience
    <3> DEFINE x == r.doublings + 1
    <3>1. x \in Nat BY <2>5
    <3>2. Patience \in Nat BY Sizes
    <3> HIDE DEF x
    <3>3. x \in Int /\ Patience \in Int BY <3>1, <3>2
    <3>4. Smaller(x, Patience) \in {x, Patience} /\ Smaller(x, Patience) <= Patience BY <3>3, SmallerLarger
    <3>5. Smaller(x, Patience) \in 0 .. Patience BY <3>1, <3>2, <3>4
    <3> QED BY <3>5 DEF x
  <2> HIDE DEF s, d
  <2>8. Typed(v) BY <2>4, <2>5, <2>6, <2>7 DEF Typed, Fields
  <2>9. SameLine(r, v) /\ SameEar(r, v) /\ v.mss = r.mss /\ v.msslevel = r.msslevel
        /\ v.recover = r.recover /\ v.out = r.out
    BY <2>4 DEF Typed, Fields, SameLine, SameEar
  <2> HIDE DEF v
  <2>10. Pace(v) BY <2>4, <2>9 DEF Pace, SameLine
  <2>11. Sound(p, v, o, k) /\ Moves(r, v) BY <2>4, <2>8, <2>9, <2>10, PaceOnly
  <2>12. Goes(p, t, v, o, k)
    <3>1. Goes(p, r, v, o, k) BY <2>9, <2>11 DEF Goes
    <3> QED BY <1>1, <2>3, <3>1, GoesTrans
  <2>13. Runs(p, t, v, o, k) BY <2>3, <2>9, <2>12 DEF Runs, SameLine
  <2> QED BY <2>2, <2>13 DEF u
<1> QED BY <1>2, <1>3

\* A packet without data is such a step.
LEMMA BareRuns ==
  ASSUME NEW p, NEW t, NEW o, NEW k, Sound(p, t, o, k), NEW seq \in Int
  PROVE  Runs(p, t, packet(t, seq, FALSE, <<>>), o, k)
<1> DEFINE u == packet(t, seq, FALSE, <<>>)
<1>1. Sound(p, u, o, k) /\ Moves(t, u) /\ Kept(t, u) BY BarePacket
<1> HIDE DEF u
<1>2. Runs(p, t, u, o, k) BY <1>1 DEF Runs, Goes, Kept
<1> QED BY <1>2 DEF u

\* A probe of a closed window keeps an end sound, or closes it down.
LEMMA ProbedSound ==
  ASSUME NEW p, NEW t, NEW o, NEW k, Sound(p, t, o, k), t.state # "CLOSED"
  PROVE  Runs(p, t, Probed(t), o, k)
<1> DEFINE u == Probed(t)
<1>1. Typed(t) BY DEF Sound
<1>2. t.doublings \in Nat /\ Patience \in Nat /\ t.snd_nxt \in Nat BY <1>1, Numbers, Sizes
<1>3. CASE t.doublings >= Patience
  <2> DEFINE v == closedown(t)
  <2>1. u = v BY <1>3 DEF Probed
  <2>2. Sound(p, v, o, k) /\ Moves(t, v) /\ SameEar(t, v) /\ v.state = "CLOSED" /\ v.snd_una = t.snd_una
    BY ClosedownSound
  <2> HIDE DEF u, v
  <2>3. Runs(p, t, v, o, k) BY <2>2 DEF Runs, Goes
  <2> QED BY <2>1, <2>3 DEF u
<1>4. CASE ~ (t.doublings >= Patience)
  <2> DEFINE n == t.snd_nxt - 1
             r == packet(t, n, FALSE, <<>>)
             v == [r EXCEPT !.doublings = @ + 1]
  <2>1. u = v BY <1>4 DEF Probed
  <2>2. n \in Int BY <1>2
  <2> HIDE DEF n
  <2>3. Sound(p, r, o, k) /\ Moves(t, r) /\ Kept(t, r) BY <2>2, BarePacket
  <2>4. Runs(p, t, r, o, k) BY <2>2, BareRuns
  <2> HIDE DEF r, u
  <2>5. Typed(r) /\ Pace(r) BY <2>3 DEF Sound
  <2>6. r.doublings + 1 \in 0 .. Patience
    <3>1. r.doublings = t.doublings BY <2>3 DEF Kept
    <3> QED BY <1>2, <1>4, <3>1
  <2>7. Typed(v) BY <2>5, <2>6 DEF Typed, Fields
  <2>8. SameLine(r, v) /\ SameEar(r, v) /\ v.mss = r.mss /\ v.msslevel = r.msslevel
        /\ v.recover = r.recover /\ v.out = r.out
    BY <2>5 DEF Typed, Fields, SameLine, SameEar
  <2> HIDE DEF v
  <2>9. Pace(v) BY <2>5, <2>8 DEF Pace, SameLine
  <2>10. Sound(p, v, o, k) /\ Moves(r, v) BY <2>3, <2>7, <2>8, <2>9, PaceOnly
  <2>11. Runs(p, r, v, o, k) BY <2>8, <2>10 DEF Runs, Goes, SameLine
  <2>12. Runs(p, t, v, o, k) BY <1>1, <2>4, <2>11, RunsTrans
  <2> QED BY <2>1, <2>12 DEF u
<1> QED BY <1>3, <1>4

\* Whichever waits are over, an end stays sound.
LEMMA NotifyClockSound ==
  ASSUME NEW p, NEW t, NEW o, NEW k, Typed(o), Sound(p, t, o, k), Heard(p, t), t.state # "CLOSED",
         NEW due, NEW w \in Range(Mss)
  PROVE  Runs(p, t, NotifyClock(t, due, w), o, k)
<1> DEFINE r == IF "rto" \in due /\ t.rto /\ t.slist # <<>> THEN Retransmitted(t, w) ELSE t
           b == IF r.state # "CLOSED" /\ "probe" \in due /\ r.snd_wnd = 0 THEN Probed(r) ELSE r
           a == IF b.state # "CLOSED" /\ "ack" \in due /\ b.t_ack
                  THEN packet(b, b.snd_nxt, FALSE, <<>>) ELSE b
<1>1. Typed(t) BY DEF Sound
<1>2. Runs(p, t, r, o, k)
  <2>1. t.rto => Runs(p, t, Retransmitted(t, w), o, k) BY RetransmittedSound
  <2>2. Runs(p, t, t, o, k) BY RunsSelf
  <2> QED BY <2>1, <2>2
<1> HIDE DEF r
<1>3. Sound(p, r, o, k) BY <1>2 DEF Runs, Goes
<1>4. Runs(p, r, b, o, k)
  <2>1. r.state # "CLOSED" => Runs(p, r, Probed(r), o, k) BY <1>3, ProbedSound
  <2>2. Runs(p, r, r, o, k) BY <1>3, RunsSelf
  <2> QED BY <2>1, <2>2
<1> HIDE DEF b
<1>5. Runs(p, t, b, o, k) BY <1>1, <1>2, <1>4, RunsTrans
<1>6. Sound(p, b, o, k) BY <1>4 DEF Runs, Goes
<1>7. Runs(p, b, a, o, k)
  <2>1. b.snd_nxt \in Int
    <3>1. Typed(b) BY <1>6 DEF Sound
    <3>2. b.snd_nxt \in Nat BY <3>1, Numbers
    <3> QED BY <3>2
  <2>2. Runs(p, b, packet(b, b.snd_nxt, FALSE, <<>>), o, k) BY <1>6, <2>1, BareRuns
  <2>3. Runs(p, b, b, o, k) BY <1>6, RunsSelf
  <2> QED BY <2>2, <2>3
<1> HIDE DEF a
<1>8. Runs(p, t, a, o, k) BY <1>1, <1>5, <1>7, RunsTrans
<1>9. NotifyClock(t, due, w) = a BY DEF NotifyClock, a, b, r
<1> QED BY <1>8, <1>9

\* The end t when its user has taken c bytes, and announces the window wnd.
Drained(t, c, wnd) ==
  [t EXCEPT !.rlen = @ - c, !.rcv_wnd = wnd,
            !.rbuf = [i \in 1 .. RcvBufSize |-> IF i + c <= RcvBufSize THEN t.rbuf[i + c] ELSE t.rbuf[i]]]

\* What is left, in order or beyond a gap, moves up in the buffer.
LEMMA DrainedSound ==
  ASSUME NEW p, NEW t, NEW o, NEW k \in Nat, Sound(p, t, o, k), t.shutdown = "NONE",
         NEW c \in Nat, 0 < c, c <= t.rlen, NEW wnd \in {t.rcv_wnd, RcvBufSize - (t.rlen - c)}
  PROVE  LET u == Drained(t, c, wnd)
         IN /\ Sound(p, u, o, k + c) /\ Moves(t, u) /\ u.state = t.state /\ u.snd_una = t.snd_una
            /\ u.rcv_nxt = t.rcv_nxt /\ u.rlen = t.rlen - c /\ u.shutdown = t.shutdown
<1> DEFINE u == Drained(t, c, wnd)
           r == [i \in 1 .. RcvBufSize |-> IF i + c <= RcvBufSize THEN t.rbuf[i + c] ELSE t.rbuf[i]]
           m == k + c
<1>1. Typed(t) /\ Ear(t, o, k) BY DEF Sound
<1>2. /\ t.rcv_nxt \in Nat /\ t.rcv_wnd \in Nat /\ t.rlen \in Nat /\ RcvBufSize \in Nat
      /\ t.rlen <= RcvBufSize /\ Edge(t) = t.rcv_nxt + t.rcv_wnd
      /\ t.rbuf \in [1 .. RcvBufSize -> Int] /\ t.rlist \in SUBSET [seq : Nat, len : Nat]
  <2>1. /\ t.rcv_nxt \in Nat /\ t.rcv_wnd \in Nat /\ t.rlen \in Nat /\ RcvBufSize \in Nat
        /\ t.rlen <= RcvBufSize /\ Edge(t) = t.rcv_nxt + t.rcv_wnd
    BY <1>1, Numbers
  <2> QED BY <2>1, <1>1 DEF Typed
<1>3. /\ t.rcv_wnd + t.rlen <= RcvBufSize /\ t.rcv_nxt > 0 /\ k + t.rlen = t.rcv_nxt - 1
      /\ AtPoint(o, t.rcv_nxt)
      /\ \A i \in 1 .. t.rlen : t.rbuf[i] = k + i
      /\ \A s \in t.rlist : Saved(t, o, k, s)
  <2>1. t.rcv_nxt # 0 BY <1>1, <1>2 DEF Ear
  <2>2. t.rcv_nxt > 0 BY <1>2, <2>1
  <2> QED BY <1>1, <2>2 DEF Ear
<1>4. /\ wnd \in Nat /\ wnd <= RcvBufSize /\ wnd + (t.rlen - c) <= RcvBufSize /\ t.rcv_wnd <= wnd
      /\ t.rlen - c \in Nat /\ t.rlen - c <= RcvBufSize /\ m \in Nat
  <2>1. t.rlen - c \in Nat /\ t.rlen - c <= RcvBufSize /\ t.rlen - c <= t.rlen BY <1>2
  <2>2. m \in Nat OBVIOUS
  <2>3. CASE wnd = t.rcv_wnd BY SMTT(30), <1>2, <1>3, <2>1, <2>2, <2>3
  <2>4. CASE wnd = RcvBufSize - (t.rlen - c)
    <3> DEFINE left == t.rlen - c
    <3>1. left \in Nat /\ left <= RcvBufSize /\ left <= t.rlen /\ wnd = RcvBufSize - left BY <2>1, <2>4
    <3> HIDE DEF left, m
    <3>2. wnd \in Nat /\ wnd <= RcvBufSize /\ wnd + left <= RcvBufSize BY <1>2, <3>1
    <3>3. t.rcv_wnd <= wnd BY <1>2, <1>3, <3>1
    <3> QED BY <2>2, <3>1, <3>2, <3>3 DEF left
  <2> QED BY <2>3, <2>4
<1>5. r \in [1 .. RcvBufSize -> Int]
  <2>1. ASSUME NEW i \in 1 .. RcvBufSize
        PROVE  (IF i + c <= RcvBufSize THEN t.rbuf[i + c] ELSE t.rbuf[i]) \in Int
    BY <1>2
  <2> QED BY <2>1
<1>6. \A i \in 1 .. RcvBufSize : i + c <= RcvBufSize => r[i] = t.rbuf[i + c] OBVIOUS
<1> HIDE DEF r
<1>7. Typed(u)
  <2> DEFINE left == t.rlen - c
  <2>1. left \in 0 .. RcvBufSize /\ wnd \in 0 .. RcvBufSize BY <1>2, <1>4
  <2>2. u = [t EXCEPT !.rlen = left, !.rcv_wnd = wnd, !.rbuf = r] BY DEF Drained, r
  <2> HIDE DEF u, left
  <2> QED BY <1>1, <1>5, <2>1, <2>2 DEF Typed, Fields
<1>8. /\ SameLine(t, u) /\ u.rcv_nxt = t.rcv_nxt /\ u.rlen = t.rlen - c /\ u.rcv_wnd = wnd /\ u.rbuf = r
      /\ u.rlist = t.rlist /\ u.shutdown = t.shutdown
      /\ u.mss = t.mss /\ u.msslevel = t.msslevel /\ u.recover = t.recover /\ u.out = t.out
  <2>1. u = [t EXCEPT !.rlen = t.rlen - c, !.rcv_wnd = wnd, !.rbuf = r] BY DEF Drained, r
  <2> QED BY <1>1, <2>1 DEF Typed, Fields, SameLine
<1> HIDE DEF u, m
<1>9. \A i \in 1 .. t.rlen - c : r[i] = m + i
  <2>1. SUFFICES ASSUME NEW i \in 1 .. t.rlen - c PROVE r[i] = m + i OBVIOUS
  <2>2. i \in 1 .. RcvBufSize /\ i + c <= RcvBufSize /\ i + c \in 1 .. t.rlen BY <1>2, <1>4
  <2>3. r[i] = k + (i + c) BY <1>3, <1>6, <2>2
  <2> QED BY <2>3 DEF m
<1>10. ASSUME NEW s \in t.rlist PROVE Saved(u, o, m, s)
  <2>1. /\ s.seq > t.rcv_nxt /\ s.len > 0 /\ AtPoint(o, Stop(s)) /\ Stop(s) <= k + 1 + RcvBufSize
        /\ \A b \in s.seq .. Stop(s) - 1 : t.rbuf[b - k] = b
    BY <1>3 DEF Saved
  <2>2. s.seq \in Nat /\ s.len \in Nat /\ Stop(s) \in Nat BY <1>2 DEF Stop
  <2>3. ASSUME NEW b \in s.seq .. Stop(s) - 1 PROVE r[b - m] = b
    <3>1. b \in Nat /\ b > t.rcv_nxt /\ b <= k + RcvBufSize BY <1>2, <2>1, <2>2
    <3>2. b - m \in 1 .. RcvBufSize /\ (b - m) + c = b - k /\ (b - m) + c <= RcvBufSize
      BY <1>2, <1>3, <3>1 DEF m
    <3>3. r[b - m] = t.rbuf[(b - m) + c] BY <1>6, <3>2
    <3> QED BY <2>1, <3>2, <3>3
  <2>4. Stop(s) <= m + 1 + RcvBufSize BY <1>2, <2>1, <2>2 DEF m
  <2> QED BY <1>8, <2>1, <2>3, <2>4 DEF Saved
<1>11. Ear(u, o, m)
  <2>1. u.rcv_nxt > 0 /\ u.rcv_nxt # 0 BY <1>2, <1>3, <1>8
  <2>2. m + u.rlen = u.rcv_nxt - 1 /\ m + u.rlen <= u.rcv_nxt - 1
    <3>1. m + (t.rlen - c) = k + t.rlen BY <1>2 DEF m
    <3>2. m + u.rlen = u.rcv_nxt - 1 BY <1>3, <1>8, <3>1
    <3>3. u.rcv_nxt \in Nat BY <1>2, <1>8
    <3> QED BY <3>2, <3>3
  <2>3. u.rcv_wnd + u.rlen <= RcvBufSize BY <1>4, <1>8
  <2>4. AtPoint(o, u.rcv_nxt) BY <1>3, <1>8
  <2>5. \A i \in 1 .. u.rlen : u.rbuf[i] = m + i BY <1>8, <1>9
  <2>6. \A s \in u.rlist : Saved(u, o, m, s) BY <1>8, <1>10
  <2> QED BY <2>1, <2>2, <2>3, <2>4, <2>5, <2>6 DEF Ear
<1>12. EarOnly(t, u)
  <2>1. Edge(u) = t.rcv_nxt + wnd BY <1>8 DEF Edge
  <2>2. Edge(t) <= Edge(u) /\ t.rcv_nxt <= t.rcv_nxt BY SMTT(30), <1>2, <1>4, <2>1
  <2> QED BY <1>8, <2>2 DEF EarOnly
<1>13. Sound(p, u, o, m) /\ Moves(t, u) /\ u.state = t.state /\ u.snd_una = t.snd_una
  BY <1>7, <1>11, <1>12, ReceivedSound
<1> QED BY <1>8, <1>13 DEF u, m

\* A user reads the bytes that follow those that it has read.
LEMMA RecvSound ==
  ASSUME NEW p, NEW t, NEW o, NEW k \in Nat, Typed(o), Sound(p, t, o, k), Heard(p, t), Begun(t),
         t.shutdown = "NONE", t.state # "CLOSED", NEW n \in Nat \ {0}, NEW idle \in BOOLEAN,
         NEW w \in Range(Mss)
  PROVE  LET u == Recv(t, n, idle, w)
         IN /\ t.rlen - u.rlen \in 0 .. t.rlen
            /\ Sound(p, u, o, k + (t.rlen - u.rlen)) /\ Moves(t, u) /\ Heard(p, u) /\ Begun(u)
<1> DEFINE u == Recv(t, n, idle, w)
           c == Smaller(n, t.rlen)
           wnd == RcvBufSize - (t.rlen - c)
           r == Drained(t, c, t.rcv_wnd)
           v == Drained(t, c, wnd)
           a == attemptSend(v, "immediate", idle, w)
<1>1. Typed(t) /\ Pace(t) BY DEF Sound
<1>2. t.rlen \in Nat /\ t.rcv_nxt \in Nat BY <1>1, Numbers
<1>3. CASE t.rlen = 0
  <2> DEFINE x == [t EXCEPT !.readEnable = TRUE]
  <2>1. u = x BY <1>3 DEF Recv
  <2>2. Typed(x) BY <1>1 DEF Typed, Fields
  <2>3. SameLine(t, x) /\ SameEar(t, x) /\ x.mss = t.mss /\ x.msslevel = t.msslevel
        /\ x.recover = t.recover /\ x.out = t.out
    BY <1>1 DEF Typed, Fields, SameLine, SameEar
  <2> HIDE DEF x, u
  <2>4. Pace(x) BY <1>1, <2>3 DEF Pace, SameLine
  <2>5. Sound(p, x, o, k) /\ Moves(t, x) BY <2>2, <2>3, <2>4, PaceOnly
  <2>6. Runs(p, t, x, o, k) BY <2>3, <2>5 DEF Runs, Goes, SameLine
  <2>7. Heard(p, x) /\ Begun(x) BY <2>6, RunsHeard
  <2>8. t.rlen - x.rlen = 0 /\ k + (t.rlen - x.rlen) = k BY <1>3, <2>3 DEF SameEar
  <2>9. 0 \in 0 .. t.rlen BY <1>2
  <2> QED BY <2>1, <2>5, <2>7, <2>8, <2>9 DEF u
<1>4. CASE t.rlen > 0
  <2>1. c \in Nat /\ 0 < c /\ c <= t.rlen
    <3>1. n \in Int /\ t.rlen \in Int BY <1>2
    <3>2. c \in {n, t.rlen} /\ c <= t.rlen BY <3>1, SmallerLarger
    <3> QED BY <1>2, <1>4, <3>2
  <2>2. u = r \/ u = a \/ u = v
    <3> DEFINE r1 == [t EXCEPT !.rlen = @ - c,
                               !.rbuf = [i \in 1 .. RcvBufSize |->
                                           IF i + c <= RcvBufSize THEN t.rbuf[i + c] ELSE t.rbuf[i]]]
               v1 == [r1 EXCEPT !.rcv_wnd = RcvBufSize - r1.rlen]
    <3>1. r1 = r BY <1>1 DEF Drained, Typed, Fields
    <3>2. r1.rlen = t.rlen - c BY <1>1 DEF Typed, Fields
    <3>3. v1 = v BY <1>1, <3>2 DEF Drained, Typed, Fields
    <3>4. u = IF v1.rcv_wnd - t.rcv_wnd < Smaller(RcvBufSize \div 2, t.mss) THEN r1
              ELSE IF t.rcv_wnd = 0 THEN attemptSend(v1, "immediate", idle, w) ELSE v1
      BY <1>2, <1>4 DEF Recv
    <3> HIDE DEF u, r1, v1
    <3> QED BY <3>1, <3>3, <3>4
  <2> HIDE DEF u, c
  <2>3. \A d \in {t.rcv_wnd, wnd} :
          LET x == Drained(t, c, d)
          IN /\ Sound(p, x, o, k + c) /\ Moves(t, x) /\ x.state = t.state /\ x.snd_una = t.snd_una
             /\ x.rcv_nxt = t.rcv_nxt /\ x.rlen = t.rlen - c /\ x.shutdown = t.shutdown
    BY <2>1, DrainedSound
  <2>4. /\ Sound(p, r, o, k + c) /\ Moves(t, r) /\ r.state = t.state /\ r.snd_una = t.snd_una
        /\ r.rcv_nxt = t.rcv_nxt /\ r.rlen = t.rlen - c
    BY <2>3
  <2>5. /\ Sound(p, v, o, k + c) /\ Moves(t, v) /\ v.state = t.state /\ v.snd_una = t.snd_una
        /\ v.rcv_nxt = t.rcv_nxt /\ v.rlen = t.rlen - c
    BY <2>3
  <2> HIDE DEF r, v
  <2>6. Heard(p, v) BY <2>5 DEF Heard, Role
  <2>7. Sound(p, a, o, k + c) /\ Moves(v, a) /\ Kept(v, a) BY <2>5, <2>6, AttemptSendSound
  <2> HIDE DEF a
  <2>8. /\ Sound(p, a, o, k + c) /\ Moves(t, a) /\ a.state = t.state /\ a.snd_una = t.snd_una
        /\ a.rcv_nxt = t.rcv_nxt /\ a.rlen = t.rlen - c
    <3>1. Typed(v) /\ Typed(a) BY <2>5, <2>7 DEF Sound
    <3>2. Moves(t, a) BY <1>1, <2>5, <2>7, <3>1, MovesTrans
    <3> QED BY <2>5, <2>7, <3>2 DEF Kept, SameEar
  <2>9. /\ Sound(p, u, o, k + c) /\ Moves(t, u) /\ u.state = t.state /\ u.snd_una = t.snd_una
        /\ u.rcv_nxt = t.rcv_nxt /\ u.rlen = t.rlen - c
    BY <2>2, <2>4, <2>5, <2>8
  <2>10. t.rlen - u.rlen = c BY <1>2, <2>1, <2>9
  <2>11. c \in 0 .. t.rlen BY <1>2, <2>1
  <2>12. Heard(p, u) /\ Begun(u) BY <2>9 DEF Heard, Role, Begun
  <2> QED BY <2>9, <2>10, <2>11, <2>12 DEF u
<1> QED BY <1>2, <1>3, <1>4

\* A user's bytes follow those that it has written.
LEMMA SendSound ==
  ASSUME NEW p, NEW t, NEW o, NEW k, Typed(o), Sound(p, t, o, k), Heard(p, t), Begun(t),
         t.state = "ESTABLISHED", NEW data \in Seq(Nat), data # <<>>,
         \A i \in 1 .. Len(data) : data[i] = Total(t) + i - 1,
         NEW idle \in BOOLEAN, NEW w \in Range(Mss)
  PROVE  LET u == Send(t, data, idle, w)
             n == Smaller(Len(data), SndBufSize - Len(t.sbuf))
         IN /\ Sound(p, u, o, k) /\ Onward(t, u) /\ Heard(p, u) /\ Begun(u)
            /\ u.state = "ESTABLISHED" /\ n \in Nat /\ Total(u) = Total(t) + n
<1> DEFINE u == Send(t, data, idle, w)
           n == Smaller(Len(data), SndBufSize - Len(t.sbuf))
<1>1. Typed(t) /\ Pace(t) /\ Line(t, o) BY DEF Sound
<1>2. Len(t.sbuf) \in Nat /\ SndBufSize \in Nat /\ Len(t.sbuf) <= SndBufSize /\ Total(t) \in Nat
  <2>1. Len(t.sbuf) \in Nat /\ SndBufSize \in Nat /\ Total(t) \in Nat BY <1>1, Numbers
  <2>2. Flow(t) BY <1>1 DEF Line
  <2> QED BY <2>1, <2>2 DEF Flow
<1>3. CASE Len(t.sbuf) = SndBufSize
  <2> DEFINE x == [t EXCEPT !.writeEnable = TRUE]
  <2>1. u = x BY <1>3 DEF Send
  <2>2. n = 0
    <3>1. SndBufSize - Len(t.sbuf) = 0 BY <1>2, <1>3
    <3>2. Len(data) \in Nat BY LenProperties
    <3>3. Smaller(Len(data), 0) = 0 BY <3>2 DEF Smaller
    <3> QED BY <3>1, <3>3
  <2>3. Typed(x) BY <1>1 DEF Typed, Fields
  <2>4. SameLine(t, x) /\ SameEar(t, x) /\ x.mss = t.mss /\ x.msslevel = t.msslevel
        /\ x.recover = t.recover /\ x.out = t.out
    BY <1>1 DEF Typed, Fields, SameLine, SameEar
  <2> HIDE DEF x, u, n
  <2>5. Pace(x) BY <1>1, <2>4 DEF Pace, SameLine
  <2>6. Sound(p, x, o, k) /\ Moves(t, x) BY <2>3, <2>4, <2>5, PaceOnly
  <2>7. Runs(p, t, x, o, k) BY <2>4, <2>6 DEF Runs, Goes, SameLine
  <2>8. Heard(p, x) /\ Begun(x) BY <2>7, RunsHeard
  <2>9. x.state = "ESTABLISHED" /\ Total(x) = Total(t) BY <2>4 DEF SameLine, Total
  <2>10. Total(t) + n = Total(t) /\ n \in Nat BY <1>2, <2>2
  <2> QED BY <2>1, <2>6, <2>8, <2>9, <2>10 DEF Moves, u, n
<1>4. CASE Len(t.sbuf) # SndBufSize
  <2> DEFINE v == queue(t, data, FALSE)
             a == attemptSend(v, "none", idle, w)
  <2>1. u = a BY <1>4 DEF Send
  <2>2. Len(t.sbuf) < SndBufSize BY <1>2, <1>4
  <2>3. /\ Sound(p, v, o, k) /\ Onward(t, v) /\ SameEar(t, v) /\ n \in Nat
        /\ v.state = t.state /\ v.snd_una = t.snd_una /\ Total(v) = Total(t) + n
    BY <2>2, WrittenSound
  <2> HIDE DEF u, v, n
  <2>4. Heard(p, v) /\ v.state # "CLOSED" BY <2>3 DEF Heard, Role, SameEar
  <2>5. Sound(p, a, o, k) /\ Moves(v, a) /\ Kept(v, a) BY <2>3, <2>4, AttemptSendSound
  <2> HIDE DEF a
  <2>6. Onward(t, a)
    <3>1. Onward(t, v) /\ Onward(v, a) BY <2>3, <2>5 DEF Moves
    <3>2. Typed(v) /\ Typed(a) BY <2>3, <2>5 DEF Sound
    <3>3. /\ t.rcv_nxt \in Nat /\ v.rcv_nxt \in Nat /\ a.rcv_nxt \in Nat
          /\ Edge(t) \in Nat /\ Edge(v) \in Nat /\ Edge(a) \in Nat
      BY <1>1, <3>2, Numbers
    <3> QED BY <3>1, <3>3 DEF Onward
  <2>7. Total(a) = Total(t) + n /\ a.state = "ESTABLISHED" /\ a.snd_una = t.snd_una
    BY <2>3, <2>5 DEF Kept, Total
  <2>8. Heard(p, a) /\ Begun(a)
    <3>1. a.rcv_nxt = t.rcv_nxt BY <2>3, <2>5 DEF Kept, SameEar
    <3> QED BY <2>7, <3>1 DEF Heard, Role, Begun
  <2> QED BY <2>1, <2>3, <2>5, <2>6, <2>7, <2>8 DEF u, n
<1> QED BY <1>3, <1>4

\* A user closes the stream: what the buffer holds is of no use any more.
LEMMA ShutSound ==
  ASSUME NEW p, NEW t, NEW o, NEW k, Sound(p, t, o, k), Heard(p, t), Begun(t),
         NEW how \in {"GRACEFUL", "FORCEFUL"}
  PROVE  LET u == [t EXCEPT !.shutdown = how]
         IN /\ Sound(p, u, o, k) /\ Onward(t, u) /\ Heard(p, u) /\ Begun(u)
            /\ u.state = t.state /\ u.snd_nxt = t.snd_nxt /\ Total(u) = Total(t)
            /\ u.out = t.out /\ u.told = t.told
<1> DEFINE u == [t EXCEPT !.shutdown = how]
<1>1. Typed(t) /\ Ear(t, o, k) /\ Line(t, o) /\ Pace(t) BY DEF Sound
<1>2. Typed(u) BY <1>1 DEF Typed, Fields
<1>3. /\ SameLine(t, u) /\ u.shutdown = how /\ u.rbuf = t.rbuf /\ u.rlen = t.rlen
      /\ u.rcv_nxt = t.rcv_nxt /\ u.rcv_wnd = t.rcv_wnd /\ u.rlist = t.rlist
      /\ u.mss = t.mss /\ u.msslevel = t.msslevel /\ u.recover = t.recover /\ u.out = t.out
      /\ u.told = t.told
  BY <1>1 DEF Typed, Fields, SameLine
<1> HIDE DEF u
<1>4. u.shutdown # "NONE" BY <1>3
<1>5. Ear(u, o, k) BY <1>1, <1>3, <1>4 DEF Ear
<1>6. Line(u, o) BY <1>1, <1>3, LineSame
<1>7. Pace(u) BY <1>1, <1>3 DEF Pace, SameLine
<1>8. Onward(t, u)
  <2>1. t.rcv_nxt \in Nat /\ Edge(t) \in Nat BY <1>1, Numbers
  <2>2. u.rcv_nxt = t.rcv_nxt /\ Edge(u) = Edge(t) BY <1>3 DEF Edge
  <2>3. \A n \in Nat : AtPoint(t, n) => AtPoint(u, n) BY <1>3 DEF AtPoint, SameLine
  <2> QED BY <2>1, <2>2, <2>3 DEF Onward
<1>9. Sound(p, u, o, k) BY <1>2, <1>3, <1>5, <1>6, <1>7, <1>8, SoundAfter
<1>10. Heard(p, u) /\ Begun(u) BY <1>3 DEF Heard, Role, Begun, SameLine
<1>11. Total(u) = Total(t) /\ u.state = t.state /\ u.snd_nxt = t.snd_nxt BY <1>3 DEF Total, SameLine
<1> QED BY <1>3, <1>8, <1>9, <1>10, <1>11 DEF u

-----------------------------------------------------------------------------
(* The two ends.                                                           *)

\* Each end has one other.
LEMMA PeerFacts ==
  ASSUME NEW p \in End
  PROVE  /\ Peer(p) \in End /\ Peer(p) # p /\ Peer(Peer(p)) = p
         /\ \A q \in End : q = p \/ q = Peer(p)
<1>1. PICK a \in End, b \in End : a # b /\ End = {a, b} BY TunnelAssumption
<1>2. \A x \in End : \E y \in End : y # x BY <1>1
<1>3. \A x \in End : Peer(x) \in End /\ Peer(x) # x
  <2>1. SUFFICES ASSUME NEW x \in End PROVE Peer(x) \in End /\ Peer(x) # x OBVIOUS
  <2>2. \E y \in End : y # x BY <1>2
  <2>3. (CHOOSE y \in End : y # x) \in End /\ (CHOOSE y \in End : y # x) # x BY <2>2
  <2> QED BY <2>3 DEF Peer
<1>4. Peer(p) \in End /\ Peer(p) # p BY <1>3
<1>5. Peer(Peer(p)) \in End /\ Peer(Peer(p)) # Peer(p) BY <1>3, <1>4
<1>6. \A q \in End : q = p \/ q = Peer(p) BY <1>1, <1>4
<1> QED BY <1>4, <1>5, <1>6

\* The end u when its packets have left and its callbacks were made.
Spoken(u) == [u EXCEPT !.out = <<>>, !.told = {}]

\* That end is as sound.
LEMMA SpokenSound ==
  ASSUME NEW p, NEW u, NEW o, NEW k, Sound(p, u, o, k), Heard(p, u), Begun(u)
  PROVE  LET v == Spoken(u)
         IN /\ Sound(p, v, o, k) /\ Onward(u, v) /\ Heard(p, v) /\ Begun(v)
            /\ v.out = <<>> /\ v.told = {} /\ v.state = u.state /\ Stream(v) = Stream(u)
            /\ v.snd_nxt = u.snd_nxt /\ v.rlen = u.rlen
<1> DEFINE v == Spoken(u)
<1>1. Typed(u) /\ Line(u, o) /\ Pace(u) /\ Ear(u, o, k) BY DEF Sound
<1>2. Typed(v)
  <2>1. <<>> \in Seq(Packet) OBVIOUS
  <2>2. {} \subseteq {"open", "closed", "read", "write"} OBVIOUS
  <2> QED BY <1>1, <2>1, <2>2 DEF Typed, Fields, Spoken
<1>3. /\ SameLine(u, v) /\ SameEar(u, v) /\ v.mss = u.mss /\ v.msslevel = u.msslevel
      /\ v.recover = u.recover /\ v.out = <<>> /\ v.told = {}
  BY <1>1 DEF Typed, Fields, SameLine, SameEar, Spoken
<1> HIDE DEF v
<1>4. Line(v, o) /\ Ear(v, o, k) BY <1>1, <1>3, LineSame, EarSame
<1>5. Pace(v) BY <1>1, <1>3 DEF Pace, SameLine
<1>6. Says(p, v, o)
  <2>1. Len(v.out) = 0 BY <1>3
  <2>2. \A i \in 1 .. Len(v.out) : FALSE BY <2>1
  <2> QED BY <2>2 DEF Says
<1>7. Sound(p, v, o, k) BY <1>2, <1>4, <1>5, <1>6 DEF Sound
<1>8. Moves(u, v)
  <2>1. u.state # "CLOSED" => Flow(u) BY <1>1 DEF Line
  <2> QED BY <1>1, <1>2, <1>3, <2>1, MovesSame
<1>9. Heard(p, v) /\ Begun(v) BY <1>3 DEF Heard, Role, Begun, SameLine, SameEar
<1>10. Stream(v) = Stream(u) /\ v.state = u.state /\ v.snd_nxt = u.snd_nxt /\ v.rlen = u.rlen
  BY <1>3 DEF Stream, Total, SameLine, SameEar
<1> QED BY <1>3, <1>7, <1>8, <1>9, <1>10 DEF v, Moves

\* A step of end p after which its PseudoTcp is u, and the datagrams rest are
\* still to be read.
Step(p, u, rest) ==
  /\ Sound(p, u, tcp[Peer(p)], Len(got'[p])) /\ Onward(tcp[p], u) /\ Heard(p, u) /\ Begun(u)
  /\ u.state # "CLOSED" => Stream(u) = written'[p] + 1
  /\ u.snd_nxt <= written'[p] + 1
  /\ \A i \in 1 .. Len(got'[p]) : got'[p][i] = i
  /\ \A q \in End \ {p} : got'[q] = got[q] /\ written'[q] = written[q]
  /\ rest \in Seq(Packet)
  /\ \A i \in 1 .. Len(rest) : \E j \in 1 .. Len(wire[p]) : rest[i] = wire[p][j]
  /\ gone' \in [End -> BOOLEAN]
  /\ readable' \in [End -> BOOLEAN] /\ writable' \in [End -> BOOLEAN]
  /\ written' \in [End -> Nat] /\ got' \in [End -> Seq(Int)]
  /\ plan' = plan /\ path' = path

\* It keeps both ends, and what is between them, sound.
LEMMA StepInv ==
  ASSUME TunnelInv, NEW p \in End, NEW u, NEW rest, Step(p, u, rest), Becomes(p, u, rest)
  PROVE  TunnelInv'
<1> DEFINE q == Peer(p)
           v == Spoken(u)
<1>1. /\ q \in End /\ q # p /\ Peer(q) = p /\ \A x \in End : x = p \/ x = q BY PeerFacts
<1> HIDE DEF q
<1>2. tcp' = [tcp EXCEPT ![p] = v] BY DEF Becomes, Spoken
<1>3. tcp'[p] = v /\ tcp'[q] = tcp[q] /\ tcp' = [x \in End |-> tcp'[x]]
  <2>1. tcp = [x \in End |-> tcp[x]] BY DEF TunnelInv, VarTypes
  <2> HIDE DEF v
  <2> QED BY <1>1, <1>2, <2>1
<1>4. Sound(p, u, tcp[q], Len(got'[p])) /\ Onward(tcp[p], u) /\ Heard(p, u) /\ Begun(u)
  BY DEF Step, q
<1>5. /\ Sound(p, v, tcp[q], Len(got'[p])) /\ Onward(u, v) /\ Heard(p, v) /\ Begun(v)
      /\ v.out = <<>> /\ v.told = {} /\ v.state = u.state /\ Stream(v) = Stream(u)
      /\ v.snd_nxt = u.snd_nxt
  BY <1>4, SpokenSound
<1> HIDE DEF v
<1>6. /\ Sound(p, tcp[p], tcp[q], Len(got[p])) /\ Sound(q, tcp[q], tcp[p], Len(got[q]))
      /\ Heard(q, tcp[q]) /\ Begun(tcp[q]) /\ tcp[q].out = <<>> /\ tcp[q].told = {}
  BY <1>1 DEF TunnelInv, TcpInv, q
<1>7. Typed(tcp[p]) /\ Typed(tcp[q]) /\ Typed(u) /\ Typed(v) BY <1>4, <1>5, <1>6 DEF Sound
<1>8. Onward(tcp[p], v)
  <2>1. /\ tcp[p].rcv_nxt \in Nat /\ u.rcv_nxt \in Nat /\ v.rcv_nxt \in Nat
        /\ Edge(tcp[p]) \in Nat /\ Edge(u) \in Nat /\ Edge(v) \in Nat
    BY <1>7, Numbers
  <2> QED BY <1>4, <1>5, <2>1 DEF Onward
<1>9. Sound(q, tcp[q], v, Len(got[q])) BY <1>6, <1>7, <1>8, SoundOther
<1>10. got'[q] = got[q] /\ written'[q] = written[q] BY <1>1 DEF Step
<1>11. TcpInv'
  <2>1. ASSUME NEW x \in End
        PROVE  /\ tcp'[x].out = <<>> /\ tcp'[x].told = {}
               /\ Sound(x, tcp'[x], tcp'[Peer(x)], Len(got'[x])) /\ Heard(x, tcp'[x]) /\ Begun(tcp'[x])
    <3>1. CASE x = p BY <1>3, <1>5, <3>1 DEF q
    <3>2. CASE x = q BY <1>1, <1>3, <1>6, <1>9, <1>10, <3>2
    <3> QED BY <1>1, <3>1, <3>2
  <2> QED BY <2>1 DEF TcpInv
<1>12. /\ rest \in Seq(Packet) /\ wire[p] \in Seq(Packet) /\ wire[q] \in Seq(Packet)
       /\ u.out \in Seq(Packet)
  <2>1. rest \in Seq(Packet) BY DEF Step
  <2>2. wire[p] \in Seq(Packet) /\ wire[q] \in Seq(Packet) BY <1>1 DEF TunnelInv, VarTypes
  <2>3. u.out \in Seq(Packet) BY <1>7 DEF Typed
  <2> QED BY <2>1, <2>2, <2>3
<1>13. wire' \in [End -> Seq(Packet)] /\ wire'[p] \in {<<>>, rest} /\ wire'[q] \in {<<>>, wire[q] \o u.out}
  <2> DEFINE a == IF gone[q] THEN <<>> ELSE wire[q] \o u.out
             b == IF gone'[p] THEN <<>> ELSE rest
  <2>1. wire' = [wire EXCEPT ![q] = a, ![p] = b] BY DEF Becomes, q
  <2>2. wire[q] \o u.out \in Seq(Packet) BY <1>12, ConcatProperties
  <2>3. a \in Seq(Packet) /\ a \in {<<>>, wire[q] \o u.out} BY <2>2
  <2>4. b \in Seq(Packet) /\ b \in {<<>>, rest} BY <1>12
  <2>5. wire \in [End -> Seq(Packet)] BY DEF TunnelInv, VarTypes
  <2> HIDE DEF a, b
  <2>6. wire' \in [End -> Seq(Packet)] /\ wire'[p] = b /\ wire'[q] = a BY <1>1, <2>1, <2>3, <2>4, <2>5
  <2> QED BY <2>3, <2>4, <2>6
<1>14. \A i \in 1 .. Len(wire[p]) : wire[p][i] \in Packet /\ Between(q, tcp[q], tcp[p], wire[p][i])
  BY <1>12 DEF TunnelInv, WireInv, q
<1>15. \A i \in 1 .. Len(wire[q]) : wire[q][i] \in Packet /\ Between(p, tcp[p], tcp[q], wire[q][i])
  BY <1>1, <1>12 DEF TunnelInv, WireInv
<1>16. ASSUME NEW i \in 1 .. Len(wire'[p]) PROVE Between(q, tcp[q], v, wire'[p][i])
  <2>1. CASE wire'[p] = <<>>
    <3>1. Len(wire'[p]) = 0 BY <2>1
    <3> QED BY <3>1
  <2>2. CASE wire'[p] = rest
    <3>1. PICK j \in 1 .. Len(wire[p]) : rest[i] = wire[p][j] BY <2>2 DEF Step
    <3>2. wire[p][j] \in Packet /\ Between(q, tcp[q], tcp[p], wire[p][j]) BY <1>14, <3>1
    <3>3. Between(q, tcp[q], v, wire[p][j]) BY <1>8, <3>2, BetweenReceiver
    <3> QED BY <2>2, <3>1, <3>3
  <2> QED BY <1>13, <2>1, <2>2
<1>17. ASSUME NEW i \in 1 .. Len(wire'[q]) PROVE Between(p, v, tcp[q], wire'[q][i])
  <2>1. CASE wire'[q] = <<>>
    <3>1. Len(wire'[q]) = 0 BY <2>1
    <3> QED BY <3>1
  <2>2. CASE wire'[q] = wire[q] \o u.out
    <3>1. /\ Len(wire[q]) \in Nat /\ Len(u.out) \in Nat
          /\ Len(wire[q] \o u.out) = Len(wire[q]) + Len(u.out)
          /\ \A j \in 1 .. Len(wire[q]) + Len(u.out) :
               (wire[q] \o u.out)[j] = IF j <= Len(wire[q]) THEN wire[q][j] ELSE u.out[j - Len(wire[q])]
      BY <1>12, ConcatProperties, LenProperties
    <3>2. i \in 1 .. Len(wire[q]) + Len(u.out) BY <2>2, <3>1
    <3>3. CASE i <= Len(wire[q])
      <4>1. wire'[q][i] = wire[q][i] /\ i \in 1 .. Len(wire[q]) BY <2>2, <3>1, <3>2, <3>3
      <4>2. wire[q][i] \in Packet /\ Between(p, tcp[p], tcp[q], wire[q][i]) BY <1>15, <4>1
      <4>3. Between(p, v, tcp[q], wire[q][i]) BY <1>7, <1>8, <4>2, BetweenSender
      <4> QED BY <4>1, <4>3
    <3>4. CASE ~ (i <= Len(wire[q]))
      <4> DEFINE j == i - Len(wire[q])
      <4>1. j \in 1 .. Len(u.out) /\ wire'[q][i] = u.out[j]
        <5>1. \A a, b \in Nat : \A h \in 1 .. a + b : ~ (h <= a) => h - a \in 1 .. b OBVIOUS
        <5>2. Len(wire[q]) \in Nat /\ Len(u.out) \in Nat BY <3>1
        <5>3. j \in 1 .. Len(u.out) BY <5>1, <5>2, <3>2, <3>4
        <5>4. (wire[q] \o u.out)[i] = u.out[j] BY <3>1, <3>2, <3>4
        <5> QED BY <2>2, <5>3, <5>4
      <4> HIDE DEF j
      <4>2. u.out[j] \in Packet /\ Between(p, u, tcp[q], u.out[j]) BY <1>4, <1>12, <4>1 DEF Sound, Says
      <4>3. Between(p, v, tcp[q], u.out[j]) BY <1>5, <1>7, <4>2, BetweenSender
      <4> QED BY <4>1, <4>3
    <3> QED BY <3>3, <3>4
  <2> QED BY <1>13, <2>1, <2>2
<1>18. WireInv'
  <2>1. ASSUME NEW x \in End, NEW i \in 1 .. Len(wire'[x])
        PROVE  Between(Peer(x), tcp'[Peer(x)], tcp'[x], wire'[x][i])
    <3>1. CASE x = p BY <1>3, <1>16, <3>1 DEF q
    <3>2. CASE x = q BY <1>1, <1>3, <1>17, <3>2
    <3> QED BY <1>1, <3>1, <3>2
  <2> QED BY <2>1 DEF WireInv
<1>19. UserInv'
  <2>1. ASSUME NEW x \in End
        PROVE  /\ \A i \in 1 .. Len(got'[x]) : got'[x][i] = i
               /\ tcp'[x].state # "CLOSED" => Stream(tcp'[x]) = written'[x] + 1
               /\ tcp'[x].snd_nxt <= written'[x] + 1
    <3>1. CASE x = p BY <1>3, <1>5, <3>1 DEF Step
    <3>2. CASE x = q BY <1>1, <1>3, <1>10, <3>2 DEF TunnelInv, UserInv
    <3> QED BY <1>1, <3>1, <3>2
  <2> QED BY <2>1 DEF UserInv
<1>20. VarTypes'
  <2>1. plan \in Plans /\ path \in Range(Mss) BY DEF TunnelInv, VarTypes
  <2>2. plan' \in Plans /\ path' \in Range(Mss) BY <2>1 DEF Step
  <2>3. /\ gone' \in [End -> BOOLEAN] /\ readable' \in [End -> BOOLEAN] /\ writable' \in [End -> BOOLEAN]
        /\ written' \in [End -> Nat] /\ got' \in [End -> Seq(Int)]
    BY DEF Step
  <2> QED BY <1>3, <1>13, <2>2, <2>3 DEF VarTypes
<1> QED BY <1>11, <1>18, <1>19, <1>20 DEF TunnelInv

\* What is still to be read was on its way before.
Remaining(p, rest) ==
  /\ rest \in Seq(Packet)
  /\ \A i \in 1 .. Len(rest) : \E j \in 1 .. Len(wire[p]) : rest[i] = wire[p][j]

\* All of it is, or all but the first datagram.
LEMMA RemainingFacts ==
  ASSUME TunnelInv, NEW p \in End
  PROVE  Remaining(p, wire[p]) /\ (wire[p] # <<>> => Remaining(p, Tail(wire[p])))
<1>1. wire[p] \in Seq(Packet) BY DEF TunnelInv, VarTypes
<1>2. Remaining(p, wire[p]) BY <1>1 DEF Remaining
<1>3. ASSUME wire[p] # <<>> PROVE Remaining(p, Tail(wire[p]))
  <2> DEFINE r == Tail(wire[p])
  <2>1. r \in Seq(Packet) /\ Len(r) = Len(wire[p]) - 1 /\ \A i \in 1 .. Len(r) : r[i] = wire[p][i + 1]
    BY <1>1, <1>3, HeadTailProperties
  <2>2. Len(wire[p]) \in Nat BY <1>1, LenProperties
  <2> HIDE DEF r
  <2>3. \A i \in 1 .. Len(r) : i + 1 \in 1 .. Len(wire[p]) BY <2>1, <2>2
  <2>4. \A i \in 1 .. Len(r) : \E j \in 1 .. Len(wire[p]) : r[i] = wire[p][j] BY <2>1, <2>3
  <2>5. Remaining(p, r) BY <2>1, <2>4 DEF Remaining
  <2> QED BY <2>5 DEF r
<1> QED BY <1>2, <1>3

\* What an operation leaves of the bytes that an end has for the other.
LEMMA MovesStream ==
  ASSUME TunnelInv, NEW p \in End, NEW u, Typed(u), Moves(tcp[p], u)
  PROVE  /\ u.state # "CLOSED" => Stream(u) = written[p] + 1
         /\ u.snd_nxt <= written[p] + 1
<1>1. (tcp[p].state # "CLOSED" => Stream(tcp[p]) = written[p] + 1) /\ tcp[p].snd_nxt <= written[p] + 1
  BY DEF TunnelInv, UserInv
<1>2. CASE tcp[p].state = "CLOSED" BY <1>1, <1>2 DEF Moves
<1>3. CASE tcp[p].state # "CLOSED" BY <1>1, <1>3 DEF Moves
<1> QED BY <1>2, <1>3

\* A step of the worker thread.
LEMMA WorkerStep ==
  ASSUME TunnelInv, NEW p \in End, NEW u, NEW rest, Remaining(p, rest),
         Sound(p, u, tcp[Peer(p)], Len(got[p])), Moves(tcp[p], u), Heard(p, u), Begun(u),
         Hears(p, u), AdjustClock(p, u), plan' = plan, path' = path
  PROVE  Step(p, u, rest)
<1>1. written' = written /\ got' = got BY DEF Hears
<1>2. /\ gone \in [End -> BOOLEAN] /\ readable \in [End -> BOOLEAN] /\ writable \in [End -> BOOLEAN]
      /\ written \in [End -> Nat] /\ got \in [End -> Seq(Int)]
  BY DEF TunnelInv, VarTypes
<1>3. gone' \in [End -> BOOLEAN]
  <2>1. (~ clock_check(u)) \in BOOLEAN OBVIOUS
  <2> QED BY <1>2, <2>1, Zenon DEF AdjustClock
<1>4. readable' \in [End -> BOOLEAN]
  <2> DEFINE b == readable[p] \/ (u.shutdown = "NONE" /\ u.told \cap {"open", "read"} # {})
  <2>1. readable' = [readable EXCEPT ![p] = b] BY DEF Hears
  <2>2. b \in BOOLEAN OBVIOUS
  <2> HIDE DEF b
  <2> QED BY <1>2, <2>1, <2>2
<1>5. writable' \in [End -> BOOLEAN]
  <2> DEFINE b == writable[p] \/ (u.shutdown = "NONE" /\ u.told \cap {"open", "write"} # {})
  <2>1. writable' = [writable EXCEPT ![p] = b] BY DEF Hears
  <2>2. b \in BOOLEAN OBVIOUS
  <2> HIDE DEF b
  <2> QED BY <1>2, <2>1, <2>2
<1>6. (u.state # "CLOSED" => Stream(u) = written[p] + 1) /\ u.snd_nxt <= written[p] + 1
  <2>1. Typed(u) BY DEF Sound
  <2> QED BY <2>1, MovesStream
<1>7. \A i \in 1 .. Len(got[p]) : got[p][i] = i BY DEF TunnelInv, UserInv
<1>8. Onward(tcp[p], u) BY DEF Moves
<1> QED BY <1>1, <1>2, <1>3, <1>4, <1>5, <1>6, <1>7, <1>8 DEF Step, Remaining

\* What is known of an end before a step.
LEMMA EndFacts ==
  ASSUME TunnelInv, NEW p \in End
  PROVE  LET t == tcp[p]
             o == tcp[Peer(p)]
         IN /\ Typed(t) /\ Typed(o) /\ Line(o, t) /\ Sound(p, t, o, Len(got[p])) /\ Heard(p, t) /\ Begun(t)
            /\ Len(got[p]) \in Nat /\ path \in Range(Mss)
<1>1. Peer(p) \in End /\ Peer(Peer(p)) = p BY PeerFacts
<1>2. Sound(p, tcp[p], tcp[Peer(p)], Len(got[p])) /\ Heard(p, tcp[p]) /\ Begun(tcp[p])
  BY DEF TunnelInv, TcpInv
<1>3. Sound(Peer(p), tcp[Peer(p)], tcp[p], Len(got[Peer(p)])) BY <1>1 DEF TunnelInv, TcpInv
<1>4. Len(got[p]) \in Nat
  <2>1. got[p] \in Seq(Int) BY DEF TunnelInv, VarTypes
  <2> QED BY <2>1, LenProperties
<1>5. path \in Range(Mss) BY DEF TunnelInv, VarTypes
<1> QED BY <1>2, <1>3, <1>4, <1>5 DEF Sound

\* Connecting keeps the invariant.
LEMMA ConnectStep ==
  ASSUME TunnelInv, OnChannelWritableState
  PROVE  TunnelInv'
<1> DEFINE p == Initiator
           t == tcp[p]
           o == tcp[Peer(p)]
<1>1. p \in End BY TunnelAssumption
<1>2. PICK idle \in BOOLEAN :
        LET u == Connect(t, idle, path) IN
        /\ t.state = "LISTEN" /\ AdjustClock(p, u) /\ Becomes(p, u, wire[p]) /\ Hears(p, u)
        /\ plan' = plan /\ path' = path
  BY DEF OnChannelWritableState, Handled, budgets
<1> DEFINE u == Connect(t, idle, path)
<1>3. /\ AdjustClock(p, u) /\ Becomes(p, u, wire[p]) /\ Hears(p, u)
      /\ plan' = plan /\ path' = path
  BY <1>2
<1>4. Typed(o) /\ Sound(p, t, o, Len(got[p])) /\ path \in Range(Mss) BY <1>1, EndFacts
<1>5. Sound(p, u, o, Len(got[p])) /\ Moves(t, u) /\ Heard(p, u) /\ Begun(u) BY <1>2, <1>4, ConnectSound
<1>6. Remaining(p, wire[p]) BY <1>1, RemainingFacts
<1> HIDE DEF u, p
<1>7. Step(p, u, wire[p]) BY <1>1, <1>3, <1>5, <1>6, WorkerStep
<1> QED BY <1>1, <1>3, <1>7, StepInv

\* Reading a packet keeps the invariant.
LEMMA ReadStep ==
  ASSUME TunnelInv, NEW p \in End, OnChannelRead(p)
  PROVE  TunnelInv'
<1> DEFINE t == tcp[p]
           o == tcp[Peer(p)]
           g == Head(wire[p])
           rest == Tail(wire[p])
<1>1. PICK idle \in BOOLEAN :
        LET u == process(t, g, idle, path) IN
        /\ wire[p] # <<>> /\ AdjustClock(p, u) /\ Becomes(p, u, rest) /\ Hears(p, u)
        /\ plan' = plan /\ path' = path
  BY DEF OnChannelRead, Handled, budgets
<1> DEFINE u == process(t, g, idle, path)
<1>2. /\ wire[p] # <<>> /\ AdjustClock(p, u) /\ Becomes(p, u, rest) /\ Hears(p, u)
      /\ plan' = plan /\ path' = path
  BY <1>1
<1>3. /\ Typed(t) /\ Typed(o) /\ Line(o, t) /\ Sound(p, t, o, Len(got[p])) /\ Heard(p, t) /\ Begun(t)
      /\ Len(got[p]) \in Nat /\ path \in Range(Mss)
  BY EndFacts
<1>4. g \in Packet /\ Between(Peer(p), o, t, g)
  <2>1. wire[p] \in Seq(Packet) BY DEF TunnelInv, VarTypes
  <2>2. g = wire[p][1] /\ 1 \in 1 .. Len(wire[p]) /\ g \in Packet
    <3>1. Len(wire[p]) \in Nat /\ Len(wire[p]) # 0 BY <1>2, <2>1, EmptySeq
    <3>2. 1 \in 1 .. Len(wire[p]) BY <3>1
    <3>3. g = wire[p][1] BY <1>2, <2>1, HeadTailProperties
    <3> QED BY <2>1, <3>2, <3>3
  <2> QED BY <2>2 DEF TunnelInv, WireInv
<1>5. Peer(p) # p BY PeerFacts
<1> HIDE DEF g
<1>6. Sound(p, u, o, Len(got[p])) /\ Moves(t, u) /\ Heard(p, u) /\ Begun(u)
  BY <1>3, <1>4, <1>5, ProcessSound
<1>7. Remaining(p, rest) BY <1>2, RemainingFacts
<1> HIDE DEF u, rest
<1>8. Step(p, u, rest) BY <1>2, <1>6, <1>7, WorkerStep
<1> QED BY <1>2, <1>8, StepInv

\* The clock keeps the invariant.
LEMMA ClockStep ==
  ASSUME TunnelInv, NEW p \in End, OnClock(p)
  PROVE  TunnelInv'
<1> DEFINE t == tcp[p]
           o == tcp[Peer(p)]
<1>1. PICK due \in SUBSET Armed(t) \ {{}} :
        LET u == NotifyClock(t, due, path)
        IN AdjustClock(p, u) /\ Becomes(p, u, wire[p]) /\ Hears(p, u)
  BY DEF OnClock, Handled
<1> DEFINE u == NotifyClock(t, due, path)
<1>2. /\ t.state # "CLOSED" /\ AdjustClock(p, u) /\ Becomes(p, u, wire[p]) /\ Hears(p, u)
      /\ plan' = plan /\ path' = path
  BY <1>1 DEF OnClock
<1>3. /\ Typed(t) /\ Typed(o) /\ Sound(p, t, o, Len(got[p])) /\ Heard(p, t) /\ Begun(t)
      /\ path \in Range(Mss)
  BY EndFacts
<1>4. Runs(p, t, u, o, Len(got[p])) BY <1>2, <1>3, NotifyClockSound
<1> HIDE DEF u
<1>5. Heard(p, u) /\ Begun(u) BY <1>3, <1>4, RunsHeard
<1>6. Sound(p, u, o, Len(got[p])) /\ Moves(t, u) BY <1>4 DEF Runs, Goes
<1>7. Remaining(p, wire[p]) BY RemainingFacts
<1>8. Step(p, u, wire[p]) BY <1>2, <1>5, <1>6, <1>7, WorkerStep
<1> QED BY <1>2, <1>8, StepInv

\* Closing the stream keeps the invariant.
LEMMA ShutStep ==
  ASSUME TunnelInv, NEW p \in End, NEW how \in {"GRACEFUL", "FORCEFUL"}, Shut(p, how)
  PROVE  TunnelInv'
<1> DEFINE t == tcp[p]
           o == tcp[Peer(p)]
           u == [t EXCEPT !.shutdown = how]
<1>1. /\ AdjustClock(p, u) /\ Becomes(p, u, wire[p])
      /\ readable' = [readable EXCEPT ![p] = FALSE] /\ writable' = [writable EXCEPT ![p] = FALSE]
      /\ written' = written /\ got' = got /\ plan' = plan /\ path' = path
  BY DEF Shut, budgets
<1>2. Sound(p, t, o, Len(got[p])) /\ Heard(p, t) /\ Begun(t) BY EndFacts
<1>3. /\ Sound(p, u, o, Len(got[p])) /\ Onward(t, u) /\ Heard(p, u) /\ Begun(u)
      /\ u.state = t.state /\ u.snd_nxt = t.snd_nxt /\ Total(u) = Total(t)
  <2> HIDE DEF t, o
  <2> QED BY <1>2, ShutSound
<1> HIDE DEF u
<1>4. (u.state # "CLOSED" => Stream(u) = written[p] + 1) /\ u.snd_nxt <= written[p] + 1
  <2>1. Stream(u) = Stream(t) BY <1>3 DEF Stream
  <2> QED BY <1>3, <2>1 DEF TunnelInv, UserInv
<1>5. /\ gone \in [End -> BOOLEAN] /\ readable \in [End -> BOOLEAN] /\ writable \in [End -> BOOLEAN]
      /\ written \in [End -> Nat] /\ got \in [End -> Seq(Int)]
  BY DEF TunnelInv, VarTypes
<1>6. gone' \in [End -> BOOLEAN]
  <2>1. (~ clock_check(u)) \in BOOLEAN OBVIOUS
  <2> QED BY <1>1, <1>5, <2>1, Zenon DEF AdjustClock
<1>7. readable' \in [End -> BOOLEAN] /\ writable' \in [End -> BOOLEAN] BY <1>1, <1>5
<1>8. \A i \in 1 .. Len(got[p]) : got[p][i] = i BY DEF TunnelInv, UserInv
<1>9. Remaining(p, wire[p]) BY RemainingFacts
<1>10. Step(p, u, wire[p]) BY <1>1, <1>3, <1>4, <1>5, <1>6, <1>7, <1>8, <1>9 DEF Step, Remaining
<1> QED BY <1>1, <1>10, StepInv

\* What a user has read of a buffer.
LEMMA GotFacts ==
  ASSUME NEW p, NEW t, NEW o, NEW s \in Seq(Int), Sound(p, t, o, Len(s)), NEW c \in 0 .. t.rlen,
         \A i \in 1 .. Len(s) : s[i] = i
  PROVE  LET r == s \o SubSeq(t.rbuf, 1, c)
         IN r \in Seq(Int) /\ Len(r) = Len(s) + c /\ \A i \in 1 .. Len(r) : r[i] = i
<1> DEFINE b == SubSeq(t.rbuf, 1, c)
           r == s \o b
<1>1. Typed(t) /\ Ear(t, o, Len(s)) BY DEF Sound
<1>2. t.rlen \in Nat /\ t.rlen <= RcvBufSize /\ RcvBufSize \in Nat BY <1>1, Numbers
<1>3. c \in Nat /\ c <= t.rlen /\ Len(s) \in Nat BY <1>2, LenProperties
<1>4. t.rbuf \in Seq(Int) /\ Len(t.rbuf) = RcvBufSize
  <2>1. t.rbuf \in [1 .. RcvBufSize -> Int] BY <1>1 DEF Typed
  <2> QED BY <1>2, <2>1
<1>5. b \in Seq(Int) /\ Len(b) = c /\ \A i \in 1 .. c : b[i] = t.rbuf[i]
  BY <1>2, <1>3, <1>4
<1>6. \A i \in 1 .. c : b[i] = Len(s) + i
  <2>1. \A i \in 1 .. t.rlen : t.rbuf[i] = Len(s) + i BY <1>1 DEF Ear
  <2>2. \A i \in 1 .. c : i \in 1 .. t.rlen BY <1>2, <1>3
  <2> HIDE DEF b
  <2> QED BY <1>5, <2>1, <2>2
<1> HIDE DEF b
<1>7. /\ r \in Seq(Int) /\ Len(r) = Len(s) + Len(b)
      /\ \A i \in 1 .. Len(s) + Len(b) : r[i] = IF i <= Len(s) THEN s[i] ELSE b[i - Len(s)]
  BY <1>5, ConcatProperties
<1> HIDE DEF r
<1>8. ASSUME NEW i \in 1 .. Len(r) PROVE r[i] = i
  <2>1. i \in 1 .. Len(s) + c /\ r[i] = IF i <= Len(s) THEN s[i] ELSE b[i - Len(s)] BY <1>5, <1>7
  <2>2. CASE i <= Len(s) BY <1>3, <2>1, <2>2
  <2>3. CASE ~ (i <= Len(s))
    <3>1. i - Len(s) \in 1 .. c /\ Len(s) + (i - Len(s)) = i BY <1>3, <2>1, <2>3
    <3>2. b[i - Len(s)] = Len(s) + (i - Len(s)) BY <1>6, <3>1
    <3> QED BY <2>1, <2>3, <3>1, <3>2
  <2> QED BY <2>2, <2>3
<1>9. Len(r) = Len(s) + c BY <1>5, <1>7
<1> QED BY <1>7, <1>8, <1>9 DEF r, b

\* A user's read keeps the invariant.
LEMMA UserReadStep ==
  ASSUME TunnelInv, NEW p \in End, Read(p)
  PROVE  TunnelInv'
<1> DEFINE t == tcp[p]
           o == tcp[Peer(p)]
<1>1. PICK n \in Chunks, idle \in Idle(p) : Becomes(p, Recv(t, n, idle, path), wire[p])
  BY DEF Read
<1> DEFINE u == Recv(t, n, idle, path)
           c == t.rlen - u.rlen
<1>2. /\ t.shutdown = "NONE" /\ t.state = "ESTABLISHED" /\ Becomes(p, u, wire[p])
      /\ got' = [got EXCEPT ![p] = @ \o SubSeq(t.rbuf, 1, t.rlen - tcp'[p].rlen)]
      /\ readable' = [readable EXCEPT ![p] = PostsRead(p)] /\ gone' = gone
      /\ writable' = writable /\ written' = written /\ plan' = plan /\ path' = path
  BY <1>1 DEF Read, Opened, budgets
<1>3. n \in Nat \ {0} /\ idle \in BOOLEAN
  <2>1. n \in Nat \ {0} BY TunnelAssumption
  <2>2. Idle(p) \subseteq BOOLEAN BY DEF Idle
  <2> QED BY <2>1, <2>2
<1>4. /\ Typed(t) /\ Typed(o) /\ Sound(p, t, o, Len(got[p])) /\ Heard(p, t) /\ Begun(t)
      /\ Len(got[p]) \in Nat /\ path \in Range(Mss)
  BY EndFacts
<1>5. /\ c \in 0 .. t.rlen /\ Sound(p, u, o, Len(got[p]) + c)
      /\ Moves(t, u) /\ Heard(p, u) /\ Begun(u)
  <2>1. t.state # "CLOSED" BY <1>2
  <2> HIDE DEF t, o
  <2> QED BY <1>2, <1>3, <1>4, <2>1, RecvSound
<1> HIDE DEF u
<1>6. /\ gone \in [End -> BOOLEAN] /\ readable \in [End -> BOOLEAN] /\ writable \in [End -> BOOLEAN]
      /\ written \in [End -> Nat] /\ got \in [End -> Seq(Int)] /\ tcp = [x \in End |-> tcp[x]]
  BY DEF TunnelInv, VarTypes
<1>7. tcp'[p].rlen = u.rlen
  <2>1. tcp'[p] = Spoken(u)
    <3> DEFINE v == Spoken(u)
    <3>1. tcp' = [tcp EXCEPT ![p] = v] BY <1>2 DEF Becomes, Spoken
    <3> HIDE DEF v
    <3>2. tcp'[p] = v BY <1>6, <3>1
    <3> QED BY <3>2 DEF v
  <2> QED BY <1>5, <2>1, SpokenSound
<1> DEFINE r == got[p] \o SubSeq(t.rbuf, 1, c)
<1>8. got' = [got EXCEPT ![p] = r] BY <1>2, <1>7
<1>9. r \in Seq(Int) /\ Len(r) = Len(got[p]) + c /\ \A i \in 1 .. Len(r) : r[i] = i
  <2>1. got[p] \in Seq(Int) BY <1>6
  <2>2. \A i \in 1 .. Len(got[p]) : got[p][i] = i BY DEF TunnelInv, UserInv
  <2> HIDE DEF c, t, o
  <2> QED BY <1>4, <1>5, <2>1, <2>2, GotFacts
<1> HIDE DEF r, c
<1>10. got' \in [End -> Seq(Int)] /\ got'[p] = r /\ \A q \in End \ {p} : got'[q] = got[q]
  BY <1>6, <1>8, <1>9
<1>11. readable' \in [End -> BOOLEAN]
  <2>1. PostsRead(p) \in BOOLEAN BY DEF PostsRead
  <2> QED BY <1>2, <1>6, <2>1
<1>12. (u.state # "CLOSED" => Stream(u) = written[p] + 1) /\ u.snd_nxt <= written[p] + 1
  <2>1. Typed(u) BY <1>5 DEF Sound
  <2> QED BY <1>5, <2>1, MovesStream
<1>13. Remaining(p, wire[p]) BY RemainingFacts
<1>14. Onward(t, u) BY <1>5 DEF Moves
<1>15. Step(p, u, wire[p])
  BY <1>2, <1>5, <1>6, <1>9, <1>10, <1>11, <1>12, <1>13, <1>14 DEF Step, Remaining
<1> QED BY <1>2, <1>15, StepInv

\* A user's write keeps the invariant.
LEMMA UserWriteStep ==
  ASSUME TunnelInv, NEW p \in End, Write(p)
  PROVE  TunnelInv'
<1> DEFINE t == tcp[p]
           o == tcp[Peer(p)]
<1>1. PICK n \in Chunks, idle \in Idle(p) :
        LET data  == SubSeq(ToWrite(p), 1, Smaller(n, Len(ToWrite(p))))
            space == SndBufSize - Len(t.sbuf)
        IN /\ Becomes(p, Send(t, data, idle, path), wire[p])
           /\ written' = [written EXCEPT ![p] = @ + Smaller(Len(data), space)]
           /\ writable' = [writable EXCEPT ![p] = space > 0]
  BY DEF Write
<1> DEFINE len == Smaller(n, Len(ToWrite(p)))
           data == SubSeq(ToWrite(p), 1, len)
           space == SndBufSize - Len(t.sbuf)
           m == Smaller(Len(data), space)
           u == Send(t, data, idle, path)
<1>2. /\ t.shutdown = "NONE" /\ t.state = "ESTABLISHED" /\ Becomes(p, u, wire[p])
      /\ written' = [written EXCEPT ![p] = @ + m] /\ writable' = [writable EXCEPT ![p] = space > 0]
      /\ readable' = readable /\ gone' = gone /\ got' = got /\ plan' = plan /\ path' = path
      /\ ToWrite(p) # <<>>
  BY <1>1 DEF Write, Opened, budgets
<1>3. n \in Nat \ {0} /\ idle \in BOOLEAN
  <2>1. n \in Nat \ {0} BY TunnelAssumption
  <2>2. Idle(p) \subseteq BOOLEAN BY DEF Idle
  <2> QED BY <2>1, <2>2
<1>4. /\ Typed(t) /\ Typed(o) /\ Sound(p, t, o, Len(got[p])) /\ Heard(p, t) /\ Begun(t)
      /\ path \in Range(Mss)
  BY EndFacts
<1>5. /\ gone \in [End -> BOOLEAN] /\ readable \in [End -> BOOLEAN] /\ writable \in [End -> BOOLEAN]
      /\ written \in [End -> Nat] /\ got \in [End -> Seq(Int)] /\ plan \in Plans
  BY DEF TunnelInv, VarTypes
<1>6. written[p] \in Nat /\ plan.write[p] \in Nat
  <2>1. plan \in [write : [End -> Nat], faults : Nat, close : SUBSET End, destroy : SUBSET End]
    BY <1>5, TunnelAssumption
  <2> QED BY <1>5, <2>1
<1> DEFINE todo == plan.write[p] - written[p]
<1>7. todo \in Nat \ {0}
  <2>1. todo \in Int BY <1>6
  <2>2. ToWrite(p) = [i \in 1 .. todo |-> written[p] + i] BY DEF ToWrite
  <2>3. SUFFICES ASSUME todo <= 0 PROVE FALSE BY <2>1
  <2> HIDE DEF todo
  <2>4. 1 .. todo = 1 .. 0 BY <2>1, <2>3
  <2>5. ToWrite(p) = [i \in 1 .. 0 |-> written[p] + i] BY <2>2, <2>4, Zenon
  <2>6. ToWrite(p) \in Seq(Nat) /\ Len(ToWrite(p)) = 0 BY <1>6, <2>5
  <2> QED BY <1>2, <2>6, EmptySeq
<1>8. ToWrite(p) \in Seq(Nat) /\ Len(ToWrite(p)) = todo /\ \A i \in 1 .. todo : ToWrite(p)[i] = written[p] + i
  <2>1. ToWrite(p) = [i \in 1 .. todo |-> written[p] + i] BY DEF ToWrite
  <2> HIDE DEF todo
  <2> QED BY <1>6, <1>7, <2>1
<1> HIDE DEF todo
<1>9. len \in Nat \ {0} /\ len <= todo
  <2>1. n \in Int /\ todo \in Int BY <1>3, <1>7
  <2>2. Smaller(n, todo) \in {n, todo} /\ Smaller(n, todo) <= todo BY <2>1, SmallerLarger
  <2> QED BY <1>3, <1>7, <1>8, <2>2
<1> HIDE DEF len
<1>10. data \in Seq(Nat) /\ Len(data) = len /\ \A i \in 1 .. len : data[i] = written[p] + i
  <2>1. \A i \in 1 .. len : i \in 1 .. todo BY <1>7, <1>9
  <2>2. data \in Seq(Nat) /\ Len(data) = len /\ \A i \in 1 .. len : data[i] = ToWrite(p)[i]
    BY <1>7, <1>8, <1>9
  <2> HIDE DEF data
  <2> QED BY <1>8, <2>1, <2>2
<1> HIDE DEF data
<1>11. data # <<>>
  <2>1. Len(<<>>) = 0 OBVIOUS
  <2> QED BY <1>9, <1>10, <2>1
<1>12. Total(t) = written[p] + 1 /\ Total(t) \in Nat
  <2>1. Stream(t) = written[p] + 1 BY <1>2 DEF TunnelInv, UserInv
  <2>2. Stream(t) = Total(t) BY <1>2 DEF Stream
  <2> QED BY <1>6, <2>1, <2>2
<1>13. \A i \in 1 .. Len(data) : data[i] = Total(t) + i - 1 BY <1>6, <1>10, <1>12
<1>14. /\ Sound(p, u, o, Len(got[p])) /\ Onward(t, u) /\ Heard(p, u) /\ Begun(u)
       /\ u.state = "ESTABLISHED" /\ m \in Nat /\ Total(u) = Total(t) + m
  <2> HIDE DEF t, o
  <2> QED BY ZenonT(40), <1>2, <1>3, <1>4, <1>10, <1>11, <1>13, SendSound
<1> HIDE DEF u, m
<1>15. /\ written' \in [End -> Nat] /\ written'[p] = written[p] + m
       /\ \A q \in End \ {p} : written'[q] = written[q]
  BY <1>2, <1>5, <1>6, <1>14
<1>16. writable' \in [End -> BOOLEAN]
  <2>1. (space > 0) \in BOOLEAN OBVIOUS
  <2> HIDE DEF space
  <2> QED BY <1>2, <1>5, <2>1, Zenon
<1>17. Stream(u) = written'[p] + 1 /\ u.snd_nxt <= written'[p] + 1
  <2>1. Stream(u) = Total(u) BY <1>14 DEF Stream
  <2>2. Total(u) = written'[p] + 1 BY <1>6, <1>12, <1>14, <1>15
  <2>3. Line(u, o) BY <1>14 DEF Sound
  <2>4. u.snd_nxt <= Total(u) BY <1>14, <2>3 DEF Line, Flow
  <2> QED BY <2>1, <2>2, <2>4
<1>18. \A i \in 1 .. Len(got[p]) : got[p][i] = i BY DEF TunnelInv, UserInv
<1>19. Remaining(p, wire[p]) BY RemainingFacts
<1>20. Step(p, u, wire[p])
  BY <1>2, <1>5, <1>14, <1>15, <1>16, <1>17, <1>18, <1>19 DEF Step, Remaining
<1> QED BY <1>2, <1>20, StepInv

\* Whatever the path does to the datagrams keeps the invariant.
LEMMA PathStep ==
  ASSUME TunnelInv, UNCHANGED <<tcp, gone, users, plan>>, path' \in Range(Mss),
         wire' \in [End -> Seq(Packet)],
         \A p \in End : \A i \in 1 .. Len(wire'[p]) : \E j \in 1 .. Len(wire[p]) : wire'[p][i] = wire[p][j]
  PROVE  TunnelInv'
<1>1. /\ tcp' = tcp /\ gone' = gone /\ readable' = readable /\ writable' = writable
      /\ written' = written /\ got' = got /\ plan' = plan
  BY DEF users
<1>2. VarTypes' BY <1>1 DEF TunnelInv, VarTypes
<1>3. TcpInv' BY <1>1 DEF TunnelInv, TcpInv
<1>4. UserInv' BY <1>1 DEF TunnelInv, UserInv
<1>5. WireInv'
  <2>1. ASSUME NEW p \in End, NEW i \in 1 .. Len(wire'[p])
        PROVE  Between(Peer(p), tcp'[Peer(p)], tcp'[p], wire'[p][i])
    <3>1. PICK j \in 1 .. Len(wire[p]) : wire'[p][i] = wire[p][j] OBVIOUS
    <3>2. Between(Peer(p), tcp[Peer(p)], tcp[p], wire[p][j]) BY DEF TunnelInv, WireInv
    <3> QED BY <1>1, <3>1, <3>2
  <2> QED BY <2>1 DEF WireInv
<1> QED BY <1>2, <1>3, <1>4, <1>5 DEF TunnelInv

\* A step of the path at one end, after which the datagrams to it are s.
LEMMA FaultStep ==
  ASSUME TunnelInv, NEW p \in End, NEW s \in Seq(Packet), wire' = [wire EXCEPT ![p] = s], Fault,
         \A i \in 1 .. Len(s) : \E j \in 1 .. Len(wire[p]) : s[i] = wire[p][j]
  PROVE  TunnelInv'
<1>1. UNCHANGED <<tcp, gone, users, plan>> /\ path' = path BY DEF Fault
<1>2. wire \in [End -> Seq(Packet)] /\ path \in Range(Mss) BY DEF TunnelInv, VarTypes
<1>3. wire' \in [End -> Seq(Packet)] /\ wire'[p] = s /\ \A q \in End \ {p} : wire'[q] = wire[q]
  BY <1>2
<1>4. ASSUME NEW q \in End, NEW i \in 1 .. Len(wire'[q])
      PROVE  \E j \in 1 .. Len(wire[q]) : wire'[q][i] = wire[q][j]
  <2>1. CASE q = p BY <1>3, <2>1
  <2>2. CASE q # p BY <1>3, <2>2
  <2> QED BY <2>1, <2>2
<1> QED BY <1>1, <1>2, <1>3, <1>4, PathStep

\* Losing a datagram keeps the invariant,
LEMMA LoseStep ==
  ASSUME TunnelInv, NEW p \in End, Lose(p)
  PROVE  TunnelInv'
<1>1. PICK i \in 1 .. Len(wire[p]) : wire' = [wire EXCEPT ![p] = RemoveAt(@, i)] /\ Fault BY DEF Lose
<1>2. wire[p] \in Seq(Packet) BY DEF TunnelInv, VarTypes
<1> DEFINE s == RemoveAt(wire[p], i)
<1>3. s \in Seq(Packet) /\ \A j \in 1 .. Len(s) : \E h \in 1 .. Len(wire[p]) : s[j] = wire[p][h]
  BY <1>2, RemoveFacts
<1>4. wire' = [wire EXCEPT ![p] = s] /\ Fault BY <1>1
<1> HIDE DEF s
<1> QED BY <1>3, <1>4, FaultStep

\* One more of the datagrams at the end.
LEMMA AppendFacts ==
  ASSUME NEW w \in Seq(Packet), NEW r \in Seq(Packet), NEW h \in 1 .. Len(w),
         \A i \in 1 .. Len(r) : \E j \in 1 .. Len(w) : r[i] = w[j]
  PROVE  LET s == Append(r, w[h])
         IN s \in Seq(Packet) /\ \A i \in 1 .. Len(s) : \E j \in 1 .. Len(w) : s[i] = w[j]
<1> DEFINE s == Append(r, w[h])
<1>1. w[h] \in Packet /\ Len(r) \in Nat BY LenProperties
<1>2. /\ s \in Seq(Packet) /\ Len(s) = Len(r) + 1 /\ s[Len(r) + 1] = w[h]
      /\ \A i \in 1 .. Len(r) : s[i] = r[i]
  BY <1>1, AppendProperties
<1> HIDE DEF s
<1>3. ASSUME NEW i \in 1 .. Len(s) PROVE \E j \in 1 .. Len(w) : s[i] = w[j]
  <2>1. i \in 1 .. Len(r) \/ i = Len(r) + 1 BY <1>1, <1>2
  <2>2. CASE i \in 1 .. Len(r) BY <1>2, <2>2
  <2>3. CASE i = Len(r) + 1 BY <1>2, <2>3
  <2> QED BY <2>1, <2>2, <2>3
<1> QED BY <1>2, <1>3 DEF s

\* ... repeating one,
LEMMA RepeatStep ==
  ASSUME TunnelInv, NEW p \in End, Repeat(p)
  PROVE  TunnelInv'
<1> DEFINE w == wire[p]
           s == Append(w, w[1])
<1>1. w \in Seq(Packet) /\ w # <<>> BY DEF TunnelInv, VarTypes, Repeat
<1>2. 1 \in 1 .. Len(w) /\ Head(w) = w[1]
  <2>1. Len(w) \in Nat /\ Len(w) # 0 BY <1>1, EmptySeq
  <2> QED BY <1>1, <2>1, HeadTailProperties
<1>3. wire' = [wire EXCEPT ![p] = s] /\ Fault BY <1>2 DEF Repeat
<1>4. s \in Seq(Packet) /\ \A i \in 1 .. Len(s) : \E j \in 1 .. Len(w) : s[i] = w[j]
  <2>1. \A i \in 1 .. Len(w) : \E j \in 1 .. Len(w) : w[i] = w[j] OBVIOUS
  <2> HIDE DEF w
  <2> QED BY <1>1, <1>2, <2>1, AppendFacts
<1> HIDE DEF s
<1> QED BY <1>3, <1>4, FaultStep

\* ... and swapping them.
LEMMA DelayStep ==
  ASSUME TunnelInv, NEW p \in End, Delay(p)
  PROVE  TunnelInv'
<1> DEFINE w == wire[p]
<1>1. PICK h \in 1 .. Len(w) - 1 : wire' = [wire EXCEPT ![p] = Append(RemoveAt(@, h), @[h])] /\ Fault
  BY DEF Delay
<1> DEFINE r == RemoveAt(w, h)
           s == Append(r, w[h])
<1>2. w \in Seq(Packet) BY DEF TunnelInv, VarTypes
<1>3. h \in 1 .. Len(w)
  <2>1. Len(w) \in Nat BY <1>2, LenProperties
  <2> HIDE DEF w
  <2> QED BY <2>1
<1>4. wire' = [wire EXCEPT ![p] = s] /\ Fault BY <1>1
<1>5. r \in Seq(Packet) /\ \A i \in 1 .. Len(r) : \E j \in 1 .. Len(w) : r[i] = w[j]
  <2> HIDE DEF w
  <2> QED BY <1>2, <1>3, RemoveFacts
<1> HIDE DEF r
<1>6. s \in Seq(Packet) /\ \A i \in 1 .. Len(s) : \E j \in 1 .. Len(w) : s[i] = w[j]
  <2> HIDE DEF w
  <2> QED BY <1>2, <1>3, <1>5, AppendFacts
<1> HIDE DEF s
<1> QED BY <1>4, <1>6, FaultStep

\* A narrower path has a size that is listed.
LEMMA NarrowStep ==
  ASSUME TunnelInv, Narrow
  PROVE  TunnelInv'
<1>1. PICK i \in 2 .. Len(Mss) : path' = Mss[i] BY DEF Narrow
<1>2. path' \in Range(Mss)
  <2>1. Len(Mss) \in Nat /\ \A j \in 1 .. Len(Mss) : Mss[j] \in Range(Mss) BY Sizes
  <2>2. i \in 1 .. Len(Mss) BY <2>1
  <2> QED BY <1>1, <2>1, <2>2
<1>3. UNCHANGED <<tcp, gone, users, plan>> /\ wire' = wire BY DEF Narrow
<1>4. wire' \in [End -> Seq(Packet)] BY <1>3 DEF TunnelInv, VarTypes
<1> QED BY <1>2, <1>3, <1>4, PathStep

-----------------------------------------------------------------------------
(* The theorems.                                                           *)

\* A new PseudoTcp is sound: nothing was sent, and the buffers are empty.
LEMMA NewSound ==
  ASSUME NEW p
  PROVE  Sound(p, NewTcp, NewTcp, 0) /\ Heard(p, NewTcp) /\ Begun(NewTcp) /\ Typed(NewTcp)
<1> DEFINE t == NewTcp
<1>1. /\ RcvBufSize \in Nat \ {0} /\ SndBufSize \in Nat \ {0} /\ Patience \in Nat \ {0}
      /\ CwndBound = RcvBufSize + SndBufSize /\ DupsBound \in Nat \ {0} /\ Len(Mss) \in Nat \ {0}
      /\ FirstMss \in Nat \ {0} /\ 2 * FirstMss <= CwndBound
  BY Sizes
<1>2. Typed(t)
  <2>1. [i \in 1 .. RcvBufSize |-> Garbage] \in [1 .. RcvBufSize -> Int] BY DEF Garbage
  <2>2. <<>> \in Seq(Nat) /\ <<>> \in Seq(Segment) /\ <<>> \in Seq(Packet) /\ Len(<<>>) = 0 OBVIOUS
  <2>3. /\ 1 \in 0 .. RcvBufSize /\ RcvBufSize \in 0 .. RcvBufSize /\ 0 \in 0 .. RcvBufSize
        /\ 0 \in 0 .. SndBufSize /\ 0 \in 0 .. Patience /\ 1 \in 1 .. Len(Mss) /\ 0 \in 0 .. DupsBound
        /\ 2 * FirstMss \in 1 .. CwndBound
    BY <1>1
  <2>4. DOMAIN t = Fields BY DEF NewTcp, Fields
  <2> QED BY <1>1, <2>1, <2>2, <2>3, <2>4 DEF Typed, NewTcp
<1>3. /\ t.state = "LISTEN" /\ t.shutdown = "NONE" /\ t.sbuf = <<>> /\ t.slist = <<>>
      /\ t.snd_una = 0 /\ t.snd_nxt = 0 /\ t.snd_wnd = 1 /\ t.rlen = 0 /\ t.rcv_nxt = 0
      /\ t.rcv_wnd = RcvBufSize /\ t.rlist = {} /\ t.rto = FALSE /\ t.mss = FirstMss
      /\ t.recover = 0 /\ t.out = <<>>
  BY DEF NewTcp
<1> HIDE DEF t
<1>4. Len(t.sbuf) = 0 /\ Len(t.slist) = 0 /\ Len(t.out) = 0 BY <1>3
<1>5. Total(t) = 0 /\ Edge(t) = RcvBufSize BY <1>1, <1>3, <1>4 DEF Total, Edge
<1>6. Chain(t.slist, t.snd_una, t.snd_nxt)
  <2>1. \A i \in 1 .. Len(t.slist) : FALSE BY <1>4
  <2>2. t.snd_una <= t.snd_nxt BY <1>3
  <2> QED BY <2>1, <2>2 DEF Chain
<1>7. Flow(t)
  <2>1. \A i \in 1 .. Len(t.sbuf) : FALSE BY <1>4
  <2>2. Span(t.slist, t.snd_una) = 0 BY <1>3 DEF Span
  <2> QED BY <1>1, <1>3, <1>4, <1>5, <2>1, <2>2 DEF Flow
<1>8. Line(t, t) BY <1>1, <1>3, <1>5, <1>6, <1>7 DEF Line
<1>9. Pace(t) BY <1>3 DEF Pace
<1>10. Ear(t, t, 0)
  <2>1. \A i \in 1 .. t.rlen : FALSE BY <1>3
  <2>2. AtPoint(t, t.rcv_nxt) BY <1>3 DEF AtPoint
  <2> QED BY <1>1, <1>3, <2>1, <2>2 DEF Ear
<1>11. Says(p, t, t)
  <2>1. \A i \in 1 .. Len(t.out) : FALSE BY <1>4
  <2> QED BY <2>1 DEF Says
<1>12. Heard(p, t) /\ Begun(t) BY <1>3 DEF Heard, Role, Begun
<1> QED BY <1>2, <1>8, <1>9, <1>10, <1>11, <1>12 DEF Sound, t

\* The invariant holds at first.
LEMMA TunnelInitInv == TunnelInit => TunnelInv
<1> SUFFICES ASSUME TunnelInit PROVE TunnelInv OBVIOUS
<1>1. /\ tcp = [p \in End |-> NewTcp] /\ gone = [p \in End |-> FALSE] /\ wire = [p \in End |-> <<>>]
      /\ path = Mss[1] /\ plan \in Plans
      /\ readable = [p \in End |-> FALSE] /\ writable = [p \in End |-> FALSE]
      /\ written = [p \in End |-> 0] /\ got = [p \in End |-> <<>>]
  BY DEF TunnelInit
<1>2. \A p \in End : /\ tcp[p] = NewTcp /\ tcp[Peer(p)] = NewTcp
                      /\ got[p] = <<>> /\ wire[p] = <<>> /\ written[p] = 0
  BY <1>1, PeerFacts
<1>3. NewTcp.out = <<>> /\ NewTcp.told = {} /\ NewTcp.state = "LISTEN" /\ NewTcp.snd_nxt = 0
  BY DEF NewTcp
<1>4. Len(<<>>) = 0 OBVIOUS
<1>5. VarTypes
  <2>1. <<>> \in Seq(Packet) /\ <<>> \in Seq(Int) OBVIOUS
  <2>2. path \in Range(Mss)
    <3>1. 1 \in 1 .. Len(Mss) /\ \A i \in 1 .. Len(Mss) : Mss[i] \in Range(Mss) BY Sizes
    <3> QED BY <1>1, <3>1
  <2> QED BY <1>1, <2>1, <2>2 DEF VarTypes
<1>6. TcpInv BY <1>2, <1>3, <1>4, NewSound DEF TcpInv
<1>7. WireInv BY <1>2, <1>4 DEF WireInv
<1>8. UserInv
  <2>1. Stream(NewTcp) = 1 BY <1>3 DEF Stream
  <2> QED BY <1>2, <1>3, <1>4, <2>1 DEF UserInv
<1> QED BY <1>5, <1>6, <1>7, <1>8 DEF TunnelInv

\* ... and after every step.
LEMMA TunnelNextInv == TunnelInv /\ [TunnelNext]_tunnel => TunnelInv'
<1> SUFFICES ASSUME TunnelInv, [TunnelNext]_tunnel PROVE TunnelInv' OBVIOUS
<1>1. CASE OnChannelWritableState BY <1>1, ConnectStep
<1>2. ASSUME NEW p \in End, OnChannelRead(p) PROVE TunnelInv' BY <1>2, ReadStep
<1>3. ASSUME NEW p \in End, OnClock(p) PROVE TunnelInv' BY <1>3, ClockStep
<1>4. ASSUME NEW p \in End, Read(p) PROVE TunnelInv' BY <1>4, UserReadStep
<1>5. ASSUME NEW p \in End, Write(p) PROVE TunnelInv' BY <1>5, UserWriteStep
<1>6. ASSUME NEW p \in End, CloseEnded(p) \/ CloseOpen(p) \/ OnChannelDestroyed(p) PROVE TunnelInv'
  <2>1. Shut(p, "GRACEFUL") \/ Shut(p, "FORCEFUL") BY <1>6 DEF CloseEnded, CloseOpen, OnChannelDestroyed
  <2>2. CASE Shut(p, "GRACEFUL") BY <2>2, ShutStep
  <2>3. CASE Shut(p, "FORCEFUL") BY <2>3, ShutStep
  <2> QED BY <2>1, <2>2, <2>3
<1>7. ASSUME NEW p \in End, Lose(p) \/ Repeat(p) \/ Delay(p) PROVE TunnelInv'
  BY <1>7, LoseStep, RepeatStep, DelayStep
<1>8. CASE Narrow BY <1>8, NarrowStep
<1>9. CASE UNCHANGED tunnel
  <2>1. UNCHANGED <<tcp, gone, users, plan>> /\ wire' = wire /\ path' = path
    BY <1>9 DEF tunnel, budgets
  <2>2. path' \in Range(Mss) /\ wire' \in [End -> Seq(Packet)] BY <2>1 DEF TunnelInv, VarTypes
  <2> QED BY <2>1, <2>2, PathStep
<1> QED BY <1>1, <1>2, <1>3, <1>4, <1>5, <1>6, <1>7, <1>8, <1>9 DEF TunnelNext

\* The invariant of the tunnel.
THEOREM TunnelInvariant == TunnelSpec => []TunnelInv
BY TunnelInitInv, TunnelNextInv, PTL DEF TunnelSpec

\* The fields have their types.
LEMMA InvTypeOK == TunnelInv => TunnelTypeOK
<1> SUFFICES ASSUME TunnelInv, NEW p \in End
    PROVE  LET t == tcp[p]
           IN /\ t.state \in {"LISTEN", "SYN_SENT", "SYN_RECEIVED", "ESTABLISHED", "CLOSED"}
              /\ t.shutdown \in {"NONE", "GRACEFUL", "FORCEFUL"}
              /\ {t.rlen, t.rcv_wnd} \subseteq 0 .. RcvBufSize /\ Len(t.sbuf) \in 0 .. SndBufSize
              /\ t.cwnd \in 1 .. CwndBound /\ t.dup_acks \in 0 .. DupsBound
              /\ t.doublings \in 0 .. Patience /\ t.mss \in {FirstMss} \union Range(Mss)
              /\ {gone[p], readable[p], writable[p]} \subseteq BOOLEAN
  BY DEF TunnelTypeOK
<1>1. Typed(tcp[p]) /\ Pace(tcp[p]) BY EndFacts DEF Sound
<1>2. gone[p] \in BOOLEAN /\ readable[p] \in BOOLEAN /\ writable[p] \in BOOLEAN BY DEF TunnelInv, VarTypes
<1>3. tcp[p].mss \in {FirstMss} \union Range(Mss) BY <1>1 DEF Pace
<1> QED BY <1>1, <1>2, <1>3 DEF Typed

\* What was read and what waits to be read is no more than what was written.
LEMMA InvInOrder == TunnelInv => InOrder
<1> SUFFICES ASSUME TunnelInv, NEW p \in End
    PROVE  IsPrefix(got[p] \o SubSeq(tcp[p].rbuf, 1, tcp[p].rlen), Bytes(Peer(p)))
  BY DEF InOrder
<1> DEFINE t == tcp[p]
           q == Peer(p)
           o == tcp[q]
           k == Len(got[p])
           n == t.rlen
           r == got[p] \o SubSeq(t.rbuf, 1, n)
<1>1. Typed(t) /\ Typed(o) /\ Line(o, t) /\ Sound(p, t, o, k) /\ k \in Nat BY EndFacts
<1>2. q \in End BY PeerFacts
<1>3. /\ t.rlen \in Nat /\ t.rcv_nxt \in Nat /\ o.snd_nxt \in Nat /\ written[q] \in Nat
      /\ got[p] \in Seq(Int)
  <2>1. t.rlen \in Nat /\ t.rcv_nxt \in Nat /\ o.snd_nxt \in Nat BY <1>1, Numbers
  <2>2. written \in [End -> Nat] /\ got \in [End -> Seq(Int)] BY DEF TunnelInv, VarTypes
  <2> QED BY <1>2, <2>1, <2>2
<1>4. r \in Seq(Int) /\ Len(r) = k + n /\ \A i \in 1 .. Len(r) : r[i] = i
  <2>1. \A i \in 1 .. Len(got[p]) : got[p][i] = i BY DEF TunnelInv, UserInv
  <2>2. n \in 0 .. t.rlen BY <1>3
  <2> HIDE DEF n, t, o
  <2> QED BY <1>1, <1>3, <2>1, <2>2, GotFacts
<1>5. k + n <= written[q]
  <2>1. Ear(t, o, k) BY <1>1 DEF Sound
  <2>2. t.rcv_nxt <= o.snd_nxt
    <3>1. AtPoint(o, t.rcv_nxt) /\ Chain(o.slist, o.snd_una, o.snd_nxt) BY <1>1, <2>1 DEF Ear, Line
    <3> QED BY <1>1, <1>3, <3>1, PointSent
  <2>3. o.snd_nxt <= written[q] + 1 BY <1>2 DEF TunnelInv, UserInv
  <2>4. CASE t.rcv_nxt = 0
    <3>1. k = 0 /\ n = 0 BY <2>1, <2>4 DEF Ear
    <3> QED BY <1>3, <3>1
  <2>5. CASE t.rcv_nxt > 0
    <3>1. k + t.rlen <= t.rcv_nxt - 1 BY <2>1, <2>5 DEF Ear
    <3> HIDE DEF k, t, o, q
    <3> QED BY <1>1, <1>3, <2>2, <2>3, <3>1
  <2> QED BY <1>3, <2>4, <2>5
<1> DEFINE b == Bytes(q)
<1>6. b \in Seq(Int) /\ Len(b) = written[q] /\ \A i \in 1 .. Len(b) : b[i] = i BY <1>3 DEF Bytes
<1> HIDE DEF r, b, n, k, q
<1>7. Len(r) <= Len(b) /\ Len(r) \in Nat BY <1>4, <1>5, <1>6, LenProperties
<1>8. \A i \in 1 .. Len(r) : r[i] = b[i] BY <1>4, <1>6, <1>7, LenProperties
<1>9. IsPrefix(r, b)
  <2>1. Len(b) \in Nat BY <1>6, LenProperties
  <2>2. SubSeq(r, 1, Len(r)) = SubSeq(b, 1, Len(r)) BY <1>4, <1>6, <1>7, <1>8, <2>1
  <2> QED BY <1>7, <2>2 DEF IsPrefix
<1> QED BY <1>9 DEF r, b, n, q

\* The segments cover the buffer.
LEMMA InvCover == TunnelInv => SegmentsCover
<1> SUFFICES ASSUME TunnelInv, NEW p \in End, tcp[p].state # "CLOSED" PROVE Covered(tcp[p])
  BY DEF SegmentsCover
<1> DEFINE t == tcp[p]
           s == t.slist
<1>1. Typed(t) /\ Line(t, tcp[Peer(p)]) BY EndFacts DEF Sound
<1> HIDE DEF t
<1>2. Chain(s, t.snd_una, t.snd_nxt) /\ Flow(t) BY <1>1 DEF Line, t
<1>3. s \in Seq(Segment) /\ t.snd_una \in Nat /\ Len(t.sbuf) \in Nat /\ Total(t) = t.snd_una + Len(t.sbuf)
  BY <1>1, Numbers DEF Typed
<1>4. \A i \in 1 .. Len(s) :
        /\ s[i].seq = IF i = 1 THEN t.snd_una ELSE s[i - 1].seq + s[i - 1].len
        /\ s[i].len > 0 /\ (s[i].xmit > 0 <=> s[i].seq < t.snd_nxt)
        /\ s[i].xmit > 0 => s[i].seq + s[i].len <= t.snd_nxt
  BY <1>2 DEF Chain, Stop
<1>5. Len(t.sbuf) = Span(s, t.snd_una) - t.snd_una
  <2>1. t.snd_una + Len(t.sbuf) = Span(s, t.snd_una) BY <1>2, <1>3 DEF Flow
  <2> QED BY <1>3, <2>1
<1>6. Len(t.sbuf) = IF s = <<>> THEN 0 ELSE s[Len(s)].seq + s[Len(s)].len - t.snd_una
  <2>1. ASSUME s = <<>> PROVE Len(t.sbuf) = 0
    <3>1. Span(s, t.snd_una) = t.snd_una BY <2>1 DEF Span
    <3> QED BY <1>3, <1>5, <3>1
  <2>2. ASSUME s # <<>> PROVE Len(t.sbuf) = s[Len(s)].seq + s[Len(s)].len - t.snd_una
    <3> DEFINE e == s[Len(s)]
    <3>1. Span(s, t.snd_una) = e.seq + e.len BY <2>2 DEF Span, Stop
    <3>2. e.seq \in Nat /\ e.len \in Nat
      <4>1. Len(s) \in 1 .. Len(s)
        <5>1. Len(s) \in Nat /\ Len(s) # 0 BY <1>3, <2>2, EmptySeq, LenProperties
        <5> QED BY <5>1
      <4> QED BY <1>3, <4>1, SegmentFields
    <3> HIDE DEF e
    <3>3. (e.seq + e.len) - t.snd_una = e.seq + (e.len - t.snd_una) BY <1>3, <3>2
    <3> QED BY <1>5, <3>1, <3>3 DEF e
  <2> HIDE DEF s
  <2> QED BY <2>1, <2>2
<1> QED BY <1>4, <1>6 DEF Covered, t

\* Both ends keep within the windows.
LEMMA InvWindow == TunnelInv => WindowKept
<1> SUFFICES ASSUME TunnelInv, NEW p \in End
    PROVE  /\ tcp[p].rcv_wnd + tcp[p].rlen <= RcvBufSize
           /\ tcp[p].snd_nxt <= tcp[Peer(p)].rcv_nxt + Larger(tcp[Peer(p)].rcv_wnd, 1)
  BY DEF WindowKept
<1> DEFINE t == tcp[p]
           o == tcp[Peer(p)]
<1>1. Typed(t) /\ Typed(o) /\ Line(t, o) /\ Ear(t, o, Len(got[p])) BY EndFacts DEF Sound
<1>2. t.snd_nxt \in Nat /\ o.rcv_nxt \in Nat /\ o.rcv_wnd \in Nat BY <1>1, Numbers
<1>3. t.snd_nxt <= o.rcv_nxt + o.rcv_wnd BY <1>1 DEF Line, Edge
<1> HIDE DEF t, o
<1>4. o.rcv_wnd <= Larger(o.rcv_wnd, 1) /\ Larger(o.rcv_wnd, 1) \in Int
  <2>1. o.rcv_wnd \in Int /\ 1 \in Int BY <1>2
  <2> QED BY <2>1, SmallerLarger
<1>5. t.snd_nxt <= o.rcv_nxt + Larger(o.rcv_wnd, 1) BY <1>2, <1>3, <1>4
<1>6. t.rcv_wnd + t.rlen <= RcvBufSize BY <1>1 DEF Ear
<1> QED BY <1>5, <1>6 DEF t, o

\* The timer runs while something is in flight.
LEMMA InvTimer == TunnelInv => TimerArmed
<1> SUFFICES ASSUME TunnelInv, NEW p \in End, tcp[p].state # "CLOSED"
    PROVE  tcp[p].rto <=> InFlight(tcp[p]) > 0
  BY DEF TimerArmed
<1> DEFINE t == tcp[p]
<1>1. Typed(t) /\ Line(t, tcp[Peer(p)]) BY EndFacts DEF Sound
<1>2. t.rto <=> t.snd_una < t.snd_nxt BY <1>1 DEF Line, Flow
<1>3. t.snd_una \in Nat /\ t.snd_nxt \in Nat BY <1>1, Numbers
<1> HIDE DEF t
<1>4. t.snd_una < t.snd_nxt <=> InFlight(t) > 0 BY <1>3 DEF InFlight
<1> QED BY <1>2, <1>4 DEF t

\* PseudoTcp's state and its buffers' lengths are what the code's types and
\* sizes allow, and the congestion window is never shut.
THEOREM TypeCorrect == TunnelSpec => []TunnelTypeOK
BY TunnelInvariant, InvTypeOK, PTL

\* What a user has read, and what waits for it in m_rbuf, is a prefix of what
\* the other one has written: process, with its list of early segments, and
\* attemptSend, with its segments cut and sent again, put no byte elsewhere.
THEOREM ReadsInOrder == TunnelSpec => []InOrder
BY TunnelInvariant, InvInOrder, PTL

\* m_slist covers m_sbuf while an end is open: process never finds an
\* acknowledgement that ends inside a segment, and transmit finds its bytes.
THEOREM SlistCovers == TunnelSpec => []SegmentsCover
BY TunnelInvariant, InvCover, PTL

\* No end sends beyond the window that the other one announced, and the window
\* fits into m_rbuf: process turns no byte away for want of room.
THEOREM WindowsKept == TunnelSpec => []WindowKept
BY TunnelInvariant, InvWindow, PTL

\* m_rto_base is set while something is in flight, and only then.
THEOREM TimersArmed == TunnelSpec => []TimerArmed
BY TunnelInvariant, InvTimer, PTL

\* What an end that is deleted by AdjustClock has left to send.
LEMMA FlushedStep ==
  ASSUME TunnelInv, TunnelInv', NEW q \in End, NEW u, NEW rest, Becomes(q, u, rest), AdjustClock(q, u),
         written' = written, NEW p \in End, ~ gone[p], gone'[p],
         tcp'[p].shutdown = "GRACEFUL", tcp'[p].state = "ESTABLISHED"
  PROVE  tcp[Peer(p)].rcv_nxt > written[p]
<1> DEFINE v == Spoken(u)
           r == Peer(p)
<1>1. r \in End /\ r # p BY PeerFacts
<1> HIDE DEF r
<1>2. tcp = [x \in End |-> tcp[x]] /\ gone \in [End -> BOOLEAN] /\ written[p] \in Nat
  BY DEF TunnelInv, VarTypes
<1>3. p = q /\ ~ clock_check(u)
  <2> DEFINE c == ~ clock_check(u)
  <2>1. gone' = [gone EXCEPT ![q] = c] BY DEF AdjustClock
  <2> HIDE DEF c
  <2>2. p = q BY <1>2, <2>1
  <2>3. c BY <1>2, <2>1, <2>2
  <2> QED BY <2>2, <2>3 DEF c
<1>4. tcp'[p] = v /\ tcp'[r] = tcp[r]
  <2>1. tcp' = [tcp EXCEPT ![q] = v] BY DEF Becomes, Spoken
  <2> HIDE DEF v
  <2> QED BY <1>1, <1>2, <1>3, <2>1
<1>5. /\ Typed(v) /\ Line(v, tcp[r]) /\ Typed(tcp[r]) /\ Stream(v) = written[p] + 1
      /\ v.shutdown = "GRACEFUL" /\ v.state = "ESTABLISHED"
  <2>1. Typed(tcp'[p]) /\ Line(tcp'[p], tcp'[r]) /\ Typed(tcp'[r])
    <3>1. Sound(p, tcp'[p], tcp'[r], Len(got'[p])) BY DEF TunnelInv, TcpInv, r
    <3>2. Typed(tcp'[r]) BY <1>1 DEF TunnelInv, TcpInv, Sound
    <3> QED BY <3>1, <3>2 DEF Sound
  <2>2. Stream(tcp'[p]) = written[p] + 1 BY DEF TunnelInv, UserInv
  <2> HIDE DEF v
  <2> QED BY <1>4, <2>1, <2>2
<1>6. u.shutdown = v.shutdown /\ u.state = v.state /\ u.sbuf = v.sbuf
  <2>1. DOMAIN v = DOMAIN u BY DEF Spoken
  <2>2. {"shutdown", "state", "sbuf"} \subseteq DOMAIN u BY <1>5, <2>1 DEF Typed, Fields
  <2> QED BY <2>2 DEF Spoken
<1> HIDE DEF v
<1>7. v.sbuf = <<>> BY <1>3, <1>5, <1>6 DEF clock_check
<1>8. v.snd_una = written[p] + 1
  <2>1. Len(v.sbuf) = 0 BY <1>7
  <2>2. Stream(v) = v.snd_una + Len(v.sbuf) BY <1>5 DEF Stream, Total
  <2>3. v.snd_una \in Nat BY <1>5, Numbers
  <2> QED BY <1>5, <2>1, <2>2, <2>3
<1>9. v.snd_una <= tcp[r].rcv_nxt /\ tcp[r].rcv_nxt \in Nat BY <1>5, Numbers DEF Line
<1> HIDE DEF r
<1>10. tcp[r].rcv_nxt > written[p] BY <1>2, <1>8, <1>9
<1> QED BY <1>10 DEF r

\* PseudoTcpChannel deletes an open end that was told to close only when the
\* other end has all that was written: GetNextClock answers no sooner.
THEOREM FlushedFirst == TunnelSpec => FlushedBeforeEnd
<1>1. ASSUME TunnelInv, TunnelInv', [TunnelNext]_tunnel, NEW p \in End, ~ gone[p], gone'[p],
             tcp'[p].shutdown = "GRACEFUL", tcp'[p].state = "ESTABLISHED"
      PROVE  tcp[Peer(p)].rcv_nxt > written[p]
  <2>1. CASE OnChannelWritableState
    <3>1. Initiator \in End BY TunnelAssumption
    <3>2. \E u : /\ AdjustClock(Initiator, u) /\ Becomes(Initiator, u, wire[Initiator])
                 /\ Hears(Initiator, u)
      BY <2>1 DEF OnChannelWritableState, Handled
    <3>3. PICK u : /\ AdjustClock(Initiator, u) /\ Becomes(Initiator, u, wire[Initiator])
                   /\ Hears(Initiator, u)
      BY <3>2
    <3>4. written' = written BY <3>3 DEF Hears
    <3> QED BY <1>1, <3>1, <3>3, <3>4, FlushedStep
  <2>2. ASSUME NEW q \in End, OnChannelRead(q) PROVE tcp[Peer(p)].rcv_nxt > written[p]
    <3>1. \E u : AdjustClock(q, u) /\ Becomes(q, u, Tail(wire[q])) /\ Hears(q, u)
      BY <2>2 DEF OnChannelRead, Handled
    <3>2. PICK u : AdjustClock(q, u) /\ Becomes(q, u, Tail(wire[q])) /\ Hears(q, u) BY <3>1
    <3>3. written' = written BY <3>2 DEF Hears
    <3> QED BY <1>1, <3>2, <3>3, FlushedStep
  <2>3. ASSUME NEW q \in End, OnClock(q) PROVE tcp[Peer(p)].rcv_nxt > written[p]
    <3>1. \E u : AdjustClock(q, u) /\ Becomes(q, u, wire[q]) /\ Hears(q, u)
      BY <2>3 DEF OnClock, Handled
    <3>2. PICK u : AdjustClock(q, u) /\ Becomes(q, u, wire[q]) /\ Hears(q, u) BY <3>1
    <3>3. written' = written BY <3>2 DEF Hears
    <3> QED BY <1>1, <3>2, <3>3, FlushedStep
  <2>4. ASSUME NEW q \in End, CloseEnded(q) \/ CloseOpen(q) \/ OnChannelDestroyed(q)
        PROVE  tcp[Peer(p)].rcv_nxt > written[p]
    <3>1. \E how : Shut(q, how) BY <2>4 DEF CloseEnded, CloseOpen, OnChannelDestroyed
    <3>2. PICK how : Shut(q, how) BY <3>1
    <3> DEFINE u == [tcp[q] EXCEPT !.shutdown = how]
    <3>3. AdjustClock(q, u) /\ Becomes(q, u, wire[q]) /\ written' = written BY <3>2 DEF Shut
    <3> HIDE DEF u
    <3> QED BY <1>1, <3>3, FlushedStep
  <2>5. ASSUME NEW q \in End, Read(q) \/ Write(q) \/ Lose(q) \/ Repeat(q) \/ Delay(q) PROVE gone' = gone
    BY <2>5 DEF Read, Write, Lose, Repeat, Delay, Fault
  <2>6. Narrow \/ UNCHANGED tunnel => gone' = gone BY DEF Narrow, tunnel
  <2>7. gone' # gone BY <1>1
  <2> QED BY <1>1, <2>1, <2>2, <2>3, <2>4, <2>5, <2>6, <2>7 DEF TunnelNext
<1>2. TunnelInv /\ TunnelInv' /\ [TunnelNext]_tunnel =>
        [\A p \in End :
           /\ ~ gone[p] /\ gone'[p] /\ tcp'[p].shutdown = "GRACEFUL"
           /\ tcp'[p].state = "ESTABLISHED" /\ ~ gone[Peer(p)]
           => tcp[Peer(p)].rcv_nxt > written[p]]_tunnel
  BY <1>1
<1> QED BY <1>2, TunnelInvariant, PTL DEF TunnelSpec, FlushedBeforeEnd
=============================================================================
