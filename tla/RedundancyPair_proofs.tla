------------------------ MODULE RedundancyPair_proofs ------------------------
(***************************************************************************)
(* Two servers of one cluster on a healthy network: there is never more     *)
(* than one primary, and heartbeat gives up no mate that still holds on.    *)
(* Both rest on time, so the invariant relates what the two negotiate       *)
(* threads have said to each other, the rounds each has left before it      *)
(* claims the primary role (negotiate_count), and the ticks that the two    *)
(* heartbeat threads still have to wait.                                    *)
(*                                                                          *)
(*   OneInv   the invariant behind AtMostOnePrimary: whatever two living    *)
(*            servers do, they stay Fine - their Talk leads to one primary, *)
(*            and each is Fed by the other's heartbeat in time;             *)
(*   PartInv  what stays of it when one of the two is quitting, behind      *)
(*            GivesUpOnlyTheLost.                                           *)
(*                                                                          *)
(* Section 1 defines the invariants, 2 treats the sockets, 3 the steps of   *)
(* negotiate, 4 those of heartbeat, 5 starts and single servers, 6 and 7    *)
(* prove the two theorems.                                                  *)
(***************************************************************************)
EXTENDS RedundancyTimed_proofs, FiniteSetTheorems

-----------------------------------------------------------------------------
(* 1. The invariants *)

\* What the theorems assume of an installation: the two servers the program is
\* written for, with the same server id; no datagram or heartbeat lost, and
\* queues that hold an answer and its question; StartGap rounds left when a
\* server is started, and at least as many rounds before the claim.
Healthy ==
  /\ \A s, t, u \in Servers : s = t \/ t = u \/ s = u
  /\ \A s, t \in Servers : ServerId[s] = ServerId[t]
  /\ MaxFaults = 0 /\ InboxBound >= 2 /\ PingBound >= 1
  /\ StartGap \in Nat /\ StartGap >= 4 /\ NEGOTIATE_MAX_COUNT >= 4

\* A server that serves, or is about to; two of them; and one that has not
\* decided on a role yet.
Alive(s)   == Up(s) /\ ~ quit[s]
Both(s, t) == s # t /\ Alive(s) /\ Alive(t)
Undone(s)  == role[s] = "WHO_AM_I" /\ negPc[s] # "done"

\* The datagrams: q holds an announcement of role r by s; t has still to read
\* one; t has still to read that s asks.
Decided       == Role \ {"WHO_AM_I"}
Msg(s, r)     == [from |-> s, role |-> r]
Has(q, s, r)  == \E i \in 1 .. Len(q) : q[i] = Msg(s, r)
Told(s, t, r) == Has(udp[t], s, r)
Asked(s, t)   == Told(s, t, "WHO_AM_I")

\* The clock's counters.
ClockType ==
  /\ negWait \in [Servers -> 0 .. NegTicks]
  /\ hbWait \in [Servers -> 0 .. HbTicks]
  /\ hbTurn \in [Servers -> BOOLEAN]

\* What holds of each server by itself: where its threads are when it quits, is
\* down, has announced itself for the first time or has no part in the cluster,
\* and that it has no dealings with itself.
Sound(s) ==
  /\ \/ role[s] = "ACTIVE_QUIT_ER" \/ negPc[s] = "bye" \/ hbPc[s] = "done"
     \/ main[s] = "joining"
     => quit[s]
  /\ Up(s) => negPc[s] # "off" /\ hbPc[s] # "off"
  /\ ~ Up(s) => negPc[s] = "off" /\ hbPc[s] = "off"
  /\ Alive(s) /\ negPc[s] = "done" => report[s] /\ role[s] = "WHO_AM_I"
  /\ negPc[s] = "start" => negCount[s] = 0
  /\ conn[s] # s /\ mate[s] # s /\ negPeer[s] # s
Stamped(s) == \A i \in 1 .. Len(hbq[s]) : hbq[s][i].from # s
SoloInv    == faults = 0 /\ \A s \in Servers : Sound(s) /\ Stamped(s)

Known == TypeOK /\ ThreadInv /\ ClockType /\ SoloInv /\ Healthy

\* What two sockets can hold: t's question, on its way to both; then s's answer
\* to it, which t reads after its own question.
Flight(p, q, s, t) ==
  \E r \in Decided :
    /\ p \in {<<>>, <<Msg(t, "WHO_AM_I")>>, <<Msg(s, r)>>}
    /\ q \in {<<>>, <<Msg(t, "WHO_AM_I")>>, <<Msg(s, r)>>, <<Msg(t, "WHO_AM_I"), Msg(s, r)>>}
    /\ p = <<Msg(t, "WHO_AM_I")>> => q \in {<<>>, <<Msg(t, "WHO_AM_I")>>}
Flights(p, q, s, t) == Flight(p, q, s, t) \/ Flight(q, p, t, s)
OneTalk(s, t) == Flights(udp[s], udp[t], s, t)

\* s does not time out while the other still has something to read: its round
\* is as young as the datagram.
Patient(s, t) ==
  (udp[s] # <<>> \/ udp[t] # <<>>) /\ negPc[s] = "recv" /\ udp[s] = <<>> => negWait[s] = 0

\* The role negotiate looked at before it waited is the server's role.
Current(s) == negPc[s] = "recv" => negRole[s] = role[s]

\* Neither thread is quitting, and negotiate connects to no one but t.
Place(s, t) ==
  /\ negPc[s] \notin {"drop", "bye", "off"}
  /\ negPc[s] \in {"pair", "connect"} => role[s] \in Paired /\ negPeer[s] = t
  /\ hbPc[s] \in {"top", "idle", "send", "recv"}

\* One of the two is undecided, or they are a primary and its backup.
Match(s, t) ==
  \/ role[s] = "WHO_AM_I" \/ role[t] = "WHO_AM_I"
  \/ role[s] = "PRIMARY_WITH_BACKUP" /\ role[t] = "BACKUP_WITH_PRIMARY"
  \/ role[t] = "PRIMARY_WITH_BACKUP" /\ role[s] = "BACKUP_WITH_PRIMARY"

\* When s is started t is waiting, at the beginning of a round.
Hushed(s, t) ==
  negPc[s] = "start" => udp[s] = <<>> /\ udp[t] = <<>> /\ negPc[t] = "recv" /\ negWait[t] = 0

\* What s has said and is still unread is true of s, or was when s said it: a
\* primary that answered without a backup has made t its backup since, and one
\* that claimed after asking has the greater address.
Honest(s, t) ==
  /\ ~ Told(s, t, "ACTIVE_QUIT_ER")
  /\ Told(s, t, "PRIMARY_WITHOUT_BACKUP") => role[s] = "PRIMARY_WITH_BACKUP"
  /\ \A r \in Decided : Told(s, t, r) \/ Told(s, s, r) => role[s] # "WHO_AM_I"
  /\ Asked(s, t) => role[s] \in {"WHO_AM_I", "PRIMARY_WITHOUT_BACKUP"}
  /\ Asked(s, t) /\ role[t] = "WHO_AM_I" /\ role[s] # "WHO_AM_I" => Beats(s, t)

\* To an undecided t a paired s has answered, or t's question is on its way.
Answered(s, t) ==
  /\ role[s] \in Paired /\ Undone(t) =>
       negPc[t] = "start" \/ Asked(t, s) \/ \E r \in Decided : Told(s, t, r)
  /\ negPc[t] = "done" => role[s] # "WHO_AM_I"

\* The rounds t has counted, with the one its own question will cost it, and
\* whether n more fit before it claims.  A t that is to lose against s has the
\* rounds it needs to ask and to read the answer.
Rounds(t)  == negCount[t] + (IF Asked(t, t) THEN 1 ELSE 0)
Room(t, n) == Rounds(t) + n <= NEGOTIATE_MAX_COUNT
InTime(s, t) ==
  Undone(t) =>
    /\ Undone(s) /\ Beats(s, t) => Room(t, 4) \/ (Asked(t, s) /\ Room(t, 2))
    /\ role[s] = "PRIMARY_WITHOUT_BACKUP" => Room(t, 2) \/ (Asked(t, s) /\ Room(t, 0))
    /\ role[s] \in Paired => Room(t, 0)

\* A server that is paired and through connecting, whose mate is or is about to
\* be, holds it in m_mate_key and has a channel to it; m_mate_key is set before.
Linked(s, t) ==
  (/\ role[s] \in Paired /\ negPc[s] \notin {"pair", "connect"}
   /\ role[t] \in Paired \/ Told(s, t, "PRIMARY_WITHOUT_BACKUP"))
  => mate[s] = t /\ conn[s] = t /\ t \in slots[s]
LinkedHalf(s, t) ==
  role[s] \in Paired /\ negPc[s] = "connect" => mate[s] = t

\* A primary without a backup sends no heartbeat, unless t has just asked.
Idles(s, t) ==
  role[s] = "PRIMARY_WITHOUT_BACKUP" /\ Undone(t) =>
    hbPc[s] \in {"top", "idle"} \/ negPc[t] = "start" \/ Asked(t, s)

Talk(s, t) ==
  /\ OneTalk(s, t) /\ Patient(s, t) /\ Current(s) /\ Place(s, t) /\ Match(s, t)
  /\ Hushed(s, t) /\ Honest(s, t) /\ Answered(s, t) /\ InTime(s, t)
  /\ Linked(s, t) /\ LinkedHalf(s, t) /\ Idles(s, t)

\* Heartbeat: s is not linked yet; it is not near giving up; and the ticks that
\* pass at most before t sends its next heartbeat.
Forming(s) == role[s] = "WHO_AM_I" \/ negPc[s] \in {"pair", "connect"}
Calm(s) ==
  errCount[s] <= MAX_HEARTBEAT_ERROR_COUNT /\ (hbPc[s] = "recv" => hbWait[s] < HbTicks)
Due(t) == IF hbPc[t] \in {"idle", "recv"} THEN HbTicks - hbWait[t]
          ELSE IF hbTurn[t] THEN 0 ELSE 1

\* While the pair is forming s is calm; after that, at the end of a receive and
\* before its last one, t's heartbeat is there or comes in time.
Fed(s, t) ==
  /\ Forming(s) \/ Forming(t) => Calm(s)
  /\ hbPc[s] = "recv" /\ hbWait[s] = HbTicks /\ hbq[s] = <<>> => Due(t) <= 1 /\ hbTurn[t]
  /\ GivesUp(s) /\ hbq[s] = <<>> =>
       /\ hbPc[s] = "recv" => Due(t) < HbTicks - hbWait[s]
       /\ hbPc[s] \in {"top", "send"} => Due(t) <= 1
       /\ hbTurn[t]

Fine(s, t) == Talk(s, t) /\ Talk(t, s) /\ Fed(s, t) /\ Fed(t, s)
PairInv    == \A s, t \in Servers : Both(s, t) => Fine(s, t)
OneInv     == IInv /\ ClockType /\ SoloInv /\ Healthy /\ PairInv

\* A quitting server s in its last receive, the last chance of a living t to be
\* heard.  Then t takes part in no negotiation, and if it is paired its heartbeat
\* arrives before that receive times out.
Waning(s, t) ==
  s # t /\ Up(s) /\ quit[s] /\ Alive(t) /\ GivesUp(s) /\ hbPc[s] \in {"send", "recv"}
Nursed(s, t) ==
  hbq[s] = <<>> => hbTurn[t] /\ Due(t) < (IF hbPc[s] = "recv" THEN HbTicks - hbWait[s] ELSE HbTicks)
Kept(s, t) ==
  /\ ~ Asked(s, t) /\ role[t] # "WHO_AM_I"
  /\ role[t] \in Paired =>
       /\ negPc[t] \notin {"pair", "connect"}
       /\ conn[t] = s /\ s \in slots[t] /\ Nursed(s, t)
PartInv == \A s, t \in Servers : Waning(s, t) => Kept(s, t)

-----------------------------------------------------------------------------
(* 2. The sockets of a pair *)

\* A datagram is its sender and its role.
LEMMA MsgIs == \A s, r, x, y : (Msg(s, r) = Msg(x, y) <=> s = x /\ r = y) /\ Msg(s, r).from = s
/\ Msg(s, r).role = r
BY DEF Msg

\* An empty socket holds nothing.
LEMMA HasNone == \A s, r : ~ Has(<<>>, s, r)
BY DEF Has

\* What a socket with one datagram holds.
LEMMA HasOne == \A m, s, r : Has(<<m>>, s, r) <=> m = Msg(s, r)
BY DEF Has

\* What a socket with two datagrams holds.
LEMMA HasTwo == \A m, n, s, r : Has(<<m, n>>, s, r) <=> m = Msg(s, r) \/ n = Msg(s, r)
BY DEF Has

\* Sequences are equal that agree in length and elements.
LEMMA SameSeq ==
  ASSUME NEW S, NEW a \in Seq(S), NEW b \in Seq(S), Len(a) = Len(b),
         \A i \in 1 .. Len(a) : a[i] = b[i]
  PROVE  a = b
OBVIOUS

\* How sockets with at most two datagrams are read and written.
LEMMA Boxes ==
  ASSUME NEW m, NEW n
  PROVE  /\ <<m>> # <<>> /\ Head(<<m>>) = m /\ Tail(<<m>>) = <<>>
         /\ <<m, n>> # <<>> /\ Head(<<m, n>>) = m /\ Tail(<<m, n>>) = <<n>>
         /\ Append(<<>>, m) = <<m>> /\ Append(<<m>>, n) = <<m, n>>
         /\ Len(<<>>) = 0 /\ Len(<<m>>) = 1 /\ Len(<<m, n>>) = 2
         /\ <<m>> # <<m, n>>
<1>1. <<m>> # <<>> /\ Head(<<m>>) = m /\ Tail(<<m>>) = <<>>
  OBVIOUS
<1>2. <<m, n>> # <<>> /\ Head(<<m, n>>) = m /\ Tail(<<m, n>>) = <<n>>
  <2>1. <<m, n>> # <<>> /\ Head(<<m, n>>) = m
    OBVIOUS
  <2>2. /\ Tail(<<m, n>>) \in Seq({m, n}) /\ <<n>> \in Seq({m, n})
        /\ Len(Tail(<<m, n>>)) = 1 /\ Len(<<n>>) = 1
        /\ Tail(<<m, n>>)[1] = n /\ <<n>>[1] = n
    OBVIOUS
  <2>3. \A i \in 1 .. 1 : Tail(<<m, n>>)[i] = <<n>>[i]
    BY <2>2
  <2> QED
    BY <2>1, <2>2, <2>3
<1>3. Append(<<>>, m) = <<m>> /\ Append(<<m>>, n) = <<m, n>>
  <2>1. Append(<<>>, m) = <<m>>
    OBVIOUS
  <2>2. /\ Append(<<m>>, n) \in Seq({m, n}) /\ <<m, n>> \in Seq({m, n})
        /\ Len(Append(<<m>>, n)) = 2 /\ Len(<<m, n>>) = 2
        /\ Append(<<m>>, n)[1] = m /\ Append(<<m>>, n)[2] = n
        /\ <<m, n>>[1] = m /\ <<m, n>>[2] = n
    OBVIOUS
  <2>3. \A i \in 1 .. 2 : Append(<<m>>, n)[i] = <<m, n>>[i]
    BY <2>2
  <2>4. Append(<<m>>, n) = <<m, n>>
    BY <2>2, <2>3, SameSeq
  <2> QED
    BY <2>1, <2>4
<1>4. Len(<<>>) = 0 /\ Len(<<m>>) = 1 /\ Len(<<m, n>>) = 2
  OBVIOUS
<1>5. <<m>> # <<m, n>>
  BY <1>4
<1> QED BY <1>1, <1>2, <1>3, <1>4, <1>5

\* Reading the first datagram leaves sockets that a pair can have.
LEMMA FlightRead ==
  ASSUME NEW s, NEW t, s # t, NEW p, NEW q, Flights(p, q, s, t), p # <<>>
  PROVE  /\ Head(p).from \in {s, t} /\ Head(p).role \in Role
         /\ Has(p, Head(p).from, Head(p).role)
         /\ \A x, r : Has(Tail(p), x, r) <=>
               Has(p, x, r) /\ ~ (Head(p).from = x /\ Head(p).role = r)
         /\ Flights(Tail(p), q, s, t)
<1> DEFINE Y == Msg(t, "WHO_AM_I")
           Z == Msg(s, "WHO_AM_I")
<1>1. Y # Z /\ "WHO_AM_I" \in Role /\ Decided \subseteq Role /\ "WHO_AM_I" \notin Decided
  BY MsgIs DEF Role, Decided
<1>2. CASE Flight(p, q, s, t)
  <2> PICK r \in Decided :
        /\ p \in {<<>>, <<Y>>, <<Msg(s, r)>>}
        /\ q \in {<<>>, <<Y>>, <<Msg(s, r)>>, <<Y, Msg(s, r)>>}
        /\ p = <<Y>> => q \in {<<>>, <<Y>>}
    BY <1>2 DEF Flight
  <2> PICK x, k : p = <<Msg(x, k)>> /\ x \in {s, t} /\ k \in Role
    BY <1>1
  <2>1. Head(p) = Msg(x, k) /\ Tail(p) = <<>>
    BY Boxes
  <2>2. Flight(Tail(p), q, s, t)
    <3>1. <<>> # <<Y>>
      BY Boxes
    <3> QED BY <2>1, <3>1 DEF Flight
  <2> QED
    BY <2>1, <2>2, MsgIs, HasOne, HasNone DEF Flights
<1>3. CASE Flight(q, p, t, s)
  <2> PICK r \in Decided :
        /\ q \in {<<>>, <<Z>>, <<Msg(t, r)>>}
        /\ p \in {<<>>, <<Z>>, <<Msg(t, r)>>, <<Z, Msg(t, r)>>}
        /\ q = <<Z>> => p \in {<<>>, <<Z>>}
    BY <1>3 DEF Flight
  <2>1. CASE p = <<Z, Msg(t, r)>>
    <3>1. Head(p) = Z /\ Tail(p) = <<Msg(t, r)>> /\ p # <<>> /\ p # <<Z>>
      BY <2>1, Boxes
    <3>2. Flight(q, Tail(p), t, s)
      BY <2>1, <3>1, Boxes DEF Flight
    <3> QED
      BY <2>1, <3>1, <3>2, <1>1, MsgIs, HasOne, HasTwo DEF Flights
  <2>2. CASE p # <<Z, Msg(t, r)>>
    <3> PICK x, k : p = <<Msg(x, k)>> /\ x \in {s, t} /\ k \in Role
      BY <1>1, <2>2
    <3>1. Head(p) = Msg(x, k) /\ Tail(p) = <<>>
      BY Boxes
    <3>2. Flight(q, Tail(p), t, s)
      BY <3>1 DEF Flight
    <3> QED
      BY <3>1, <3>2, MsgIs, HasOne, HasNone DEF Flights
  <2> QED
    BY <2>1, <2>2
<1> QED
  BY <1>2, <1>3 DEF Flights

\* A question on the air excludes every answer of the one who asks, and, where
\* it is still to be read by the other, every answer to it.
Exclusive(p, q, s, t) ==
  /\ Has(p, t, "WHO_AM_I") \/ Has(q, t, "WHO_AM_I") =>
       /\ ~ Has(p, s, "WHO_AM_I") /\ ~ Has(q, s, "WHO_AM_I")
       /\ \A r : r # "WHO_AM_I" => ~ Has(p, t, r) /\ ~ Has(q, t, r)
  /\ Has(p, t, "WHO_AM_I") =>
       \A r : r # "WHO_AM_I" => ~ Has(p, s, r) /\ ~ Has(q, s, r)
  /\ \A x, r : Has(p, x, r) => p # <<>>

\* The datagrams are announcements by the two; a question and its answer are never
\* on the air together but in the order in which they came; the answers agree.
LEMMA FlightFacts ==
  ASSUME NEW s, NEW t, s # t, NEW p, NEW q, Flights(p, q, s, t)
  PROVE  /\ p = <<>> \/ \E x \in {s, t}, r \in Role : Has(p, x, r)
         /\ \A x, r : Has(p, x, r) => x \in {s, t} /\ r \in Role /\ p # <<>>
         /\ Exclusive(p, q, s, t)
         /\ \A r, k : Has(p, s, r) /\ Has(q, s, k) /\ r # "WHO_AM_I" /\ k # "WHO_AM_I" => r = k
<1> DEFINE Y == Msg(t, "WHO_AM_I")
           Z == Msg(s, "WHO_AM_I")
<1>1. Y # Z /\ "WHO_AM_I" \in Role /\ Decided \subseteq Role /\ "WHO_AM_I" \notin Decided
  BY MsgIs DEF Role, Decided
<1>2. CASE Flight(p, q, s, t)
  <2> PICK r \in Decided :
        /\ p \in {<<>>, <<Y>>, <<Msg(s, r)>>}
        /\ q \in {<<>>, <<Y>>, <<Msg(s, r)>>, <<Y, Msg(s, r)>>}
        /\ p = <<Y>> => q \in {<<>>, <<Y>>}
    BY <1>2 DEF Flight
  <2>1. \A x, k : Has(p, x, k) => (x = t /\ k = "WHO_AM_I") \/ (x = s /\ k = r)
    BY MsgIs, HasOne, HasNone
  <2>2. \A x, k : Has(q, x, k) => (x = t /\ k = "WHO_AM_I") \/ (x = s /\ k = r)
    BY MsgIs, HasOne, HasNone, HasTwo
  <2>3. p = <<>> \/ Has(p, t, "WHO_AM_I") \/ Has(p, s, r)
    BY HasOne
  <2>4. Has(p, t, "WHO_AM_I") => p = <<Y>>
    BY <1>1, MsgIs, HasOne, HasNone
  <2>5. p = <<Y>> => \A k : ~ Has(p, s, k) /\ ~ Has(q, s, k)
    BY <1>1, MsgIs, HasOne, HasNone
  <2>6. \A x, k : Has(p, x, k) => p # <<>>
    BY HasNone
  <2>7. Exclusive(p, q, s, t)
    BY <2>1, <2>2, <2>4, <2>5, <2>6, <1>1 DEF Exclusive
  <2> QED
    BY <2>1, <2>2, <2>3, <2>6, <2>7, <1>1
<1>3. CASE Flight(q, p, t, s)
  <2> PICK r \in Decided :
        /\ q \in {<<>>, <<Z>>, <<Msg(t, r)>>}
        /\ p \in {<<>>, <<Z>>, <<Msg(t, r)>>, <<Z, Msg(t, r)>>}
        /\ q = <<Z>> => p \in {<<>>, <<Z>>}
    BY <1>3 DEF Flight
  <2>1. \A x, k : Has(p, x, k) => (x = s /\ k = "WHO_AM_I") \/ (x = t /\ k = r)
    BY MsgIs, HasOne, HasNone, HasTwo
  <2>2. \A x, k : Has(q, x, k) => (x = s /\ k = "WHO_AM_I") \/ (x = t /\ k = r)
    BY MsgIs, HasOne, HasNone
  <2>3. p = <<>> \/ Has(p, s, "WHO_AM_I") \/ Has(p, t, r)
    BY HasOne, HasTwo
  <2>6. \A x, k : Has(p, x, k) => p # <<>>
    BY HasNone
  <2>7. Exclusive(p, q, s, t)
    BY <2>1, <2>2, <2>6, <1>1 DEF Exclusive
  <2> QED
    BY <2>1, <2>2, <2>3, <2>6, <2>7, <1>1
<1> QED
  BY <1>2, <1>3 DEF Flights

\* s reads t's question from p and broadcasts r in answer.
Reply(p, q, s, t, r) ==
  /\ Tail(p) = <<>> /\ Len(q) <= 1 /\ Len(q) \in Nat
  /\ Flights(Append(Tail(p), Msg(s, r)), Append(q, Msg(s, r)), s, t)
  /\ \A x, k : Has(p, x, k) <=> x = t /\ k = "WHO_AM_I"
  /\ \A x, k : Has(q, x, k) => x = t /\ k = "WHO_AM_I"
  /\ \A x, k : Has(Append(Tail(p), Msg(s, r)), x, k) <=> x = s /\ k = r
  /\ \A x, k : Has(Append(q, Msg(s, r)), x, k) <=> Has(q, x, k) \/ (x = s /\ k = r)

\* Answering a question leaves sockets that a pair can have.
LEMMA FlightReply ==
  ASSUME NEW s, NEW t, s # t, NEW p, NEW q, Flights(p, q, s, t), NEW r \in Decided,
         p # <<>>, Head(p).from = t, Head(p).role = "WHO_AM_I"
  PROVE  Reply(p, q, s, t, r)
<1> DEFINE Y == Msg(t, "WHO_AM_I")
           Z == Msg(s, "WHO_AM_I")
<1>1. Y # Z /\ "WHO_AM_I" \notin Decided
  BY MsgIs DEF Decided
<1>2. p = <<Y>> /\ q \in {<<>>, <<Y>>}
  <2>1. CASE Flight(p, q, s, t)
    <3> PICK k \in Decided :
          /\ p \in {<<>>, <<Y>>, <<Msg(s, k)>>}
          /\ p = <<Y>> => q \in {<<>>, <<Y>>}
      BY <2>1 DEF Flight
    <3>1. Head(<<Msg(s, k)>>) = Msg(s, k)
      BY Boxes
    <3> QED
      BY <3>1, MsgIs
  <2>2. CASE Flight(q, p, t, s)
    <3> PICK k \in Decided :
          p \in {<<>>, <<Z>>, <<Msg(t, k)>>, <<Z, Msg(t, k)>>}
      BY <2>2 DEF Flight
    <3>1. Head(<<Z>>) = Z /\ Head(<<Msg(t, k)>>) = Msg(t, k) /\ Head(<<Z, Msg(t, k)>>) = Z
      BY Boxes
    <3>2. Head(p) = Z \/ Head(p) = Msg(t, k)
      BY <3>1
    <3> QED
      BY <3>2, <1>1, MsgIs
  <2> QED
    BY <2>1, <2>2 DEF Flights
<1> DEFINE D == Msg(s, r)
<1>3. Tail(p) = <<>> /\ Append(Tail(p), D) = <<D>> /\ Len(q) <= 1 /\ Len(q) \in Nat
  <2>1. Tail(p) = <<>>
    BY <1>2, Boxes
  <2>2. Append(<<>>, D) = <<D>>
    BY Boxes
  <2>3. Len(q) = 0 \/ Len(q) = 1
    BY <1>2, Boxes
  <2>4. Append(Tail(p), D) = <<D>>
    BY <2>1, <2>2, Zenon
  <2>5. Len(q) <= 1 /\ Len(q) \in Nat
    <3> DEFINE n == Len(q)
    <3>1. n = 0 \/ n = 1
      BY <2>3
    <3> HIDE DEF n
    <3>2. n <= 1 /\ n \in Nat
      BY <3>1
    <3> QED
      BY <3>2 DEF n
  <2> QED BY <2>1, <2>4, <2>5, Zenon
<1>4. Append(q, D) \in {<<D>>, <<Y, D>>} /\ (q = <<>> => Append(q, D) = <<D>>)
      /\ (q = <<Y>> => Append(q, D) = <<Y, D>>)
  BY <1>2, Boxes
<1>5. <<D>> # <<Y>>
  BY Boxes, <1>1, MsgIs
<1>6. Flight(<<D>>, Append(q, D), s, t)
  BY <1>4, <1>5 DEF Flight
<1>7. \A x, k : Has(Append(q, D), x, k) <=> Has(q, x, k) \/ (x = s /\ k = r)
  <2>1. CASE q = <<>>
    <3>1. Append(q, D) = <<D>>
      BY <2>1, <1>4
    <3>2. \A x, k : Has(<<D>>, x, k) <=> x = s /\ k = r
      BY HasOne, MsgIs
    <3> QED BY <2>1, <3>1, <3>2, HasNone
  <2>2. CASE q = <<Y>>
    <3>1. Append(q, D) = <<Y, D>>
      BY <2>2, <1>4
    <3>2. \A x, k : Has(<<Y, D>>, x, k) <=> Has(<<Y>>, x, k) \/ (x = s /\ k = r)
      BY HasOne, HasTwo, MsgIs
    <3> QED BY <2>2, <3>1, <3>2
  <2> QED BY <2>1, <2>2, <1>2
<1>8. \A x, k : Has(p, x, k) <=> x = t /\ k = "WHO_AM_I"
  BY <1>2, HasOne, MsgIs
<1>9. \A x, k : Has(q, x, k) => x = t /\ k = "WHO_AM_I"
  BY <1>2, HasOne, HasNone, MsgIs
<1>10. \A x, k : Has(<<D>>, x, k) <=> x = s /\ k = r
  BY HasOne, MsgIs
<1>11. Flights(Append(Tail(p), D), Append(q, D), s, t)
  BY <1>3, <1>6 DEF Flights
<1>12. \A x, k : Has(Append(Tail(p), D), x, k) <=> x = s /\ k = r
  BY <1>3, <1>10, Zenon
<1> QED
  BY <1>3, <1>7, <1>8, <1>9, <1>11, <1>12, Zenon DEF Reply

\* So does asking while nothing is on the air, and silence.
LEMMA FlightAsk ==
  ASSUME NEW s, NEW t, s # t
  PROVE  LET m == <<Msg(s, "WHO_AM_I")>> IN
         /\ Append(<<>>, Msg(s, "WHO_AM_I")) = m
         /\ Flights(m, m, s, t) /\ Flights(<<>>, <<>>, s, t) /\ Len(<<>>) = 0
         /\ \A x, k : Has(m, x, k) <=> x = s /\ k = "WHO_AM_I"
<1>1. "PRIMARY_WITHOUT_BACKUP" \in Decided
  BY DEF Decided, Role
<1>2. Flight(<<Msg(s, "WHO_AM_I")>>, <<Msg(s, "WHO_AM_I")>>, t, s)
  BY <1>1 DEF Flight
<1>3. <<>> # <<Msg(t, "WHO_AM_I")>>
  BY Boxes
<1>4. Flight(<<>>, <<>>, s, t)
  BY <1>1, <1>3 DEF Flight
<1> QED
  BY <1>2, <1>4, Boxes, HasOne, MsgIs DEF Flights

-----------------------------------------------------------------------------
(* 3. The steps of negotiate *)

\* What a step of s's negotiate leaves alone: heartbeat, the clock of heartbeat,
\* and all of t but its socket.
NegFrame(s, t) ==
  /\ UNCHANGED <<main, quit, hbVars, hbq, hbWait, hbTurn>>
  /\ role'[t] = role[t] /\ negPc'[t] = negPc[t] /\ negRole'[t] = negRole[t]
  /\ negCount'[t] = negCount[t] /\ negPeer'[t] = negPeer[t] /\ negWait'[t] = negWait[t]
  /\ mate'[t] = mate[t] /\ conn'[t] = conn[t] /\ slots'[t] = slots[t]

\* negotiate changes its own server, and what a broadcast reaches.
LEMMA NegFrames ==
  ASSUME Known, NEW s \in Servers, NEW t \in Servers, s # t, TimedNegotiate(s)
  PROVE  NegFrame(s, t) /\ negWait'[s] = 0
<1> USE DEF shared, negVars, hbVars, net, budget, SetRole, GoNeg
<1>1. negWait' = [negWait EXCEPT ![s] = 0] /\ UNCHANGED <<hbWait, hbTurn>> /\ Negotiate(s)
  BY DEF TimedNegotiate
<1>2. UNCHANGED <<main, quit, hbVars, hbq>>
  BY <1>1 DEF Negotiate, NegProceed, NegReceive, NegStart, NegLeave, NegTop, NegPair,
     NegConnect, NegDrop, NegBye, NegForeign, NegTieBreak, NegAdopt, NegTurnAway, NegFollow,
     NegWidow, NegInactiveQuit, NegIgnore, NegTimeout
<1>3. /\ role'[t] = role[t] /\ negPc'[t] = negPc[t] /\ negRole'[t] = negRole[t]
      /\ negCount'[t] = negCount[t] /\ negPeer'[t] = negPeer[t]
  BY <1>1, SMTT(30) DEF Known, TypeOK, CountRound, Negotiate, NegProceed, NegReceive, NegStart, NegLeave,
     NegTop, NegPair, NegConnect, NegDrop, NegBye, NegForeign, NegTieBreak, NegAdopt,
     NegTurnAway, NegFollow, NegWidow, NegInactiveQuit, NegIgnore, NegTimeout
<1>4. mate'[t] = mate[t] /\ conn'[t] = conn[t] /\ slots'[t] = slots[t]
  BY <1>1 DEF Known, TypeOK, Connect, Negotiate, NegProceed, NegReceive, NegStart, NegLeave,
     NegTop, NegPair, NegConnect, NegDrop, NegBye, NegForeign, NegTieBreak, NegAdopt,
     NegTurnAway, NegFollow, NegWidow, NegInactiveQuit, NegIgnore, NegTimeout
<1> QED
  BY <1>1, <1>2, <1>3, <1>4 DEF NegFrame, Known, ClockType

\* Room for more rounds is room for fewer.
LEMMA RoomLess ==
  ASSUME Known, NEW t \in Servers
  PROVE  /\ Room(t, 4) => Room(t, 2)
         /\ Room(t, 2) => Room(t, 0)
         /\ Room(t, 0) => negCount[t] <= NEGOTIATE_MAX_COUNT
<1> DEFINE M == NEGOTIATE_MAX_COUNT
           R == Rounds(t)
<1>1. M \in Nat /\ negCount[t] \in Nat
  BY BoundAssumption DEF Known, TypeOK
<1>2. R \in Nat /\ negCount[t] <= R
  BY <1>1 DEF Rounds
<1> HIDE DEF R, M
<1>3. (R + 4 <= M => R + 2 <= M) /\ (R + 2 <= M => R + 0 <= M) /\ (R + 0 <= M => negCount[t] <= M)
  BY <1>1, <1>2 DEF M
<1> QED BY <1>3 DEF R, M, Room

\* Who asks, and what is told, exclude each other.
Turns(s, t) ==
  /\ Asked(s, s) \/ Asked(s, t) =>
       /\ ~ Asked(t, s) /\ ~ Asked(t, t)
       /\ \A r : r # "WHO_AM_I" => ~ Told(s, s, r) /\ ~ Told(s, t, r)
  /\ Asked(s, t) => \A r : r # "WHO_AM_I" => ~ Told(t, s, r) /\ ~ Told(t, t, r)
  /\ \A r : Told(s, s, r) => udp[s] # <<>>
  /\ \A r : Told(s, t, r) => udp[t] # <<>>

\* The sockets of a pair have their turns.
LEMMA TalkTurns ==
  ASSUME NEW s \in Servers, NEW t \in Servers, s # t, OneTalk(s, t), OneTalk(t, s)
  PROVE  Turns(s, t) /\ Turns(t, s)
<1>1. Flights(udp[s], udp[t], s, t) /\ Flights(udp[t], udp[s], t, s)
  BY DEF OneTalk
<1> DEFINE p == udp[s]
           q == udp[t]
<1> HIDE DEF p, q
<1>2. Flights(p, q, s, t) /\ Flights(q, p, t, s)
  BY <1>1 DEF p, q
<1>3. Exclusive(p, q, s, t) /\ Exclusive(q, p, t, s)
  BY <1>2, FlightFacts
<1>4. Turns(s, t)
  BY <1>3, Zenon DEF Turns, Told, Asked, Exclusive, p, q
<1>5. Turns(t, s)
  BY <1>3, Zenon DEF Turns, Told, Asked, Exclusive, p, q
<1> QED BY <1>4, <1>5

\* s takes the first datagram, x's announcement of k, from its socket.
Reading(s, t, x, k) ==
  /\ x \in {s, t} /\ k \in Role /\ Told(x, s, k)
  /\ udp'[t] = udp[t] /\ udp[s] # <<>>
  /\ \A y, r : Told(y, s, r)' <=> Told(y, s, r) /\ ~ (x = y /\ k = r)
  /\ \A y, r : Told(y, t, r)' <=> Told(y, t, r)
  /\ OneTalk(s, t)' /\ OneTalk(t, s)'

\* VNRecvBroadCastMsg takes the first datagram, and the sockets stay a pair's.
LEMMA Readings ==
  ASSUME Known, NEW s \in Servers, NEW t \in Servers, Both(s, t), Talk(s, t), Talk(t, s),
         udp[s] # <<>>, udp' = Received(s)
  PROVE  Reading(s, t, Head(udp[s]).from, Head(udp[s]).role)
<1>1. udp'[s] = Tail(udp[s]) /\ udp'[t] = udp[t] /\ s # t
  BY DEF Received, Both, Known, TypeOK
<1>2. Flights(udp[s], udp[t], s, t)
  BY DEF Talk, OneTalk
<1>3. /\ Head(udp[s]).from \in {s, t} /\ Head(udp[s]).role \in Role
      /\ Has(udp[s], Head(udp[s]).from, Head(udp[s]).role)
      /\ \A x, r : Has(Tail(udp[s]), x, r) <=>
            Has(udp[s], x, r) /\ ~ (Head(udp[s]).from = x /\ Head(udp[s]).role = r)
      /\ Flights(Tail(udp[s]), udp[t], s, t)
  BY <1>1, <1>2, FlightRead
<1>4. OneTalk(s, t)' /\ OneTalk(t, s)'
  BY <1>1, <1>3 DEF OneTalk, Flights
<1> QED
  BY <1>1, <1>3, <1>4, Zenon DEF Reading, Told

\* With no fault left a broadcast reaches every socket that has room.
LEMMA Reaches ==
  ASSUME Known, NEW s \in Servers, NEW r, NEW inboxes, Broadcast(s, r, inboxes)
  PROVE  /\ faults' = 0
         /\ \A t \in Servers : Up(t) /\ Len(inboxes[t]) < InboxBound =>
              udp'[t] = Append(inboxes[t], Msg(s, r))
<1>1. PICK missed \in SUBSET Servers :
        /\ missed # {} => faults < MaxFaults
        /\ faults' = IF missed = {} THEN faults ELSE faults + 1
        /\ udp' = [t \in Servers |->
                 IF Up(t) /\ t \notin missed /\ Len(inboxes[t]) < InboxBound
                 THEN Append(inboxes[t], [from |-> s, role |-> r])
                 ELSE inboxes[t]]
  BY DEF Broadcast
<1>2. missed = {}
  BY <1>1 DEF Known, SoloInv, Healthy
<1> QED
  BY <1>1, <1>2 DEF Msg, Known, SoloInv

\* s asks while nothing is on the air.
Asking(s, t) ==
  /\ \A y, r : ~ Told(y, s, r) /\ ~ Told(y, t, r)
  /\ \A y, r : Told(y, s, r)' <=> y = s /\ r = "WHO_AM_I"
  /\ \A y, r : Told(y, t, r)' <=> y = s /\ r = "WHO_AM_I"
  /\ udp'[s] # <<>> /\ udp'[t] # <<>> /\ faults' = 0
  /\ OneTalk(s, t)' /\ OneTalk(t, s)'

\* A WHO_AM_I broadcast while nothing is on the air.
LEMMA Askings ==
  ASSUME Known, NEW s \in Servers, NEW t \in Servers, Both(s, t),
         udp[s] = <<>>, udp[t] = <<>>, Broadcast(s, "WHO_AM_I", udp)
  PROVE  Asking(s, t)
<1> DEFINE m == <<Msg(s, "WHO_AM_I")>>
<1>1. s # t /\ Up(s) /\ Up(t) /\ InboxBound \in Nat /\ InboxBound >= 2
  BY BoundAssumption DEF Both, Alive, Known, Healthy
<1>2. /\ Append(<<>>, Msg(s, "WHO_AM_I")) = m
      /\ Flights(m, m, s, t) /\ Flights(<<>>, <<>>, s, t) /\ Len(<<>>) = 0
      /\ \A x, k : Has(m, x, k) <=> x = s /\ k = "WHO_AM_I"
  BY <1>1, FlightAsk
<1>3. /\ faults' = 0
      /\ \A z \in Servers : Up(z) /\ Len(udp[z]) < InboxBound =>
           udp'[z] = Append(udp[z], Msg(s, "WHO_AM_I"))
  BY Reaches
<1>4. udp'[s] = m /\ udp'[t] = m
  <2>1. Len(udp[s]) < InboxBound /\ Len(udp[t]) < InboxBound
    BY <1>1, <1>2
  <2>2. udp'[s] = Append(udp[s], Msg(s, "WHO_AM_I")) /\ udp'[t] = Append(udp[t], Msg(s, "WHO_AM_I"))
    BY <1>1, <1>3, <2>1
  <2> HIDE DEF m
  <2> QED BY <1>2, <2>2
<1>5. m # <<>>
  BY Boxes
<1> HIDE DEF m
<1>6. \A y, r : ~ Told(y, s, r) /\ ~ Told(y, t, r)
  BY HasNone DEF Told
<1>7. \A y, r : Told(y, s, r)' <=> y = s /\ r = "WHO_AM_I"
  BY <1>2, <1>4, Zenon DEF Told
<1>8. \A y, r : Told(y, t, r)' <=> y = s /\ r = "WHO_AM_I"
  BY <1>2, <1>4, Zenon DEF Told
<1>9. OneTalk(s, t)' /\ OneTalk(t, s)'
  BY <1>2, <1>4 DEF OneTalk, Flights
<1> QED
  BY <1>3, <1>4, <1>5, <1>6, <1>7, <1>8, <1>9 DEF Asking

\* s answers what t asked with r.
Replying(s, t, r) ==
  /\ \A y, k : Told(y, s, k) <=> y = t /\ k = "WHO_AM_I"
  /\ \A y, k : Told(y, t, k) => y = t /\ k = "WHO_AM_I"
  /\ \A y, k : Told(y, s, k)' <=> y = s /\ k = r
  /\ \A y, k : Told(y, t, k)' <=> Told(y, t, k) \/ (y = s /\ k = r)
  /\ udp'[s] # <<>> /\ udp'[t] # <<>> /\ faults' = 0
  /\ OneTalk(s, t)' /\ OneTalk(t, s)'

\* The answer to the WHO_AM_I that s has just read.
LEMMA Replyings ==
  ASSUME Known, NEW s \in Servers, NEW t \in Servers, Both(s, t), OneTalk(s, t),
         NEW r \in Decided, udp[s] # <<>>, Head(udp[s]).from = t,
         Head(udp[s]).role = "WHO_AM_I", Broadcast(s, r, Received(s))
  PROVE  Replying(s, t, r)
<1> DEFINE p == udp[s]
           q == udp[t]
           D == Msg(s, r)
<1>1. s # t /\ Up(s) /\ Up(t) /\ InboxBound \in Nat /\ InboxBound >= 2
  BY BoundAssumption DEF Both, Alive, Known, Healthy
<1>2. Flights(p, q, s, t)
  BY DEF OneTalk
<1>3. p # <<>> /\ Head(p).from = t /\ Head(p).role = "WHO_AM_I"
  OBVIOUS
<1> HIDE DEF p, q
<1>4. Reply(p, q, s, t, r)
  BY <1>3, <1>1, <1>2, FlightReply
<1> USE DEF Reply
<1>5. Received(s)[s] = Tail(p) /\ Received(s)[t] = q
  BY <1>1 DEF Received, Known, TypeOK, p, q
<1>6. /\ faults' = 0
      /\ \A z \in Servers : Up(z) /\ Len(Received(s)[z]) < InboxBound =>
           udp'[z] = Append(Received(s)[z], D)
  BY Reaches DEF D
<1>7. udp'[s] = Append(Tail(p), D) /\ udp'[t] = Append(q, D)
  <2>1. Len(<<>>) = 0
    BY Boxes
  <2>2. Len(Tail(p)) < InboxBound /\ Len(q) < InboxBound
    BY <1>1, <1>4, <2>1
  <2> QED BY <1>1, <1>5, <1>6, <2>2
<1>8. Has(udp'[s], s, r) /\ Has(udp'[t], s, r)
  BY <1>4, <1>7
<1>9. udp'[s] # <<>> /\ udp'[t] # <<>>
  BY <1>8, HasNone
<1>10. OneTalk(s, t)' /\ OneTalk(t, s)'
  BY <1>4, <1>7 DEF OneTalk, Flights
<1> USE DEF p, q
<1>11. /\ \A y, k : Told(y, s, k) <=> y = t /\ k = "WHO_AM_I"
       /\ \A y, k : Told(y, t, k) => y = t /\ k = "WHO_AM_I"
  BY <1>4, Zenon DEF Told
<1>12. /\ \A y, k : Told(y, s, k)' <=> y = s /\ k = r
       /\ \A y, k : Told(y, t, k)' <=> Told(y, t, k) \/ (y = s /\ k = r)
  <2>1. \A y, k : Has(udp'[s], y, k) <=> y = s /\ k = r
    BY <1>4, <1>7 DEF D
  <2>2. \A y, k : Has(udp'[t], y, k) <=> Has(udp[t], y, k) \/ (y = s /\ k = r)
    BY <1>4, <1>7 DEF D
  <2>3. \A y, k : Told(y, s, k)' <=> y = s /\ k = r
    BY <2>1, Zenon DEF Told
  <2>4. \A y, k : Told(y, t, k)' <=> Told(y, t, k) \/ (y = s /\ k = r)
    BY <2>2, Zenon DEF Told
  <2> QED BY <2>3, <2>4
<1> QED
  BY <1>6, <1>9, <1>10, <1>11, <1>12 DEF Replying

\* negotiate announces its server for the first time (fool_redundancy.cpp:126).
LEMMA NegStartStep ==
  ASSUME Known, NEW s \in Servers, NEW t \in Servers, Both(s, t), Talk(s, t), Talk(t, s),
         TimedNegotiate(s), NegStart(s)
  PROVE  Talk(s, t)' /\ Talk(t, s)'
<1> USE DEF SetRole, GoNeg
<1>1. s # t /\ NegFrame(s, t) /\ negWait'[s] = 0
  BY NegFrames DEF Both
<1>2. (Room(t, 2) => Room(t, 0)) /\ (Room(t, 4) => Room(t, 2)) /\ (Room(s, 2) => Room(s, 0))
      /\ (Room(s, 4) => Room(s, 2))
  BY RoomLess
<1>3. Asking(s, t)
  BY Askings DEF NegStart, Announce, Talk, Hushed, Known, ThreadInv
<1>4. role'[s] = "WHO_AM_I" /\ role[s] = "WHO_AM_I" /\ negCount[s] = 0 /\ negCount' = negCount
      /\ (Undone(t)' <=> Undone(t)) /\ Undone(s)' /\ Undone(s)
  BY <1>1 DEF NegStart, Known, TypeOK, ThreadInv, SoloInv, Sound, Undone, NegFrame
<1>5. Room(s, 2)' /\ Room(s, 0)'
  <2>1. Rounds(s)' = 1
    BY <1>3, <1>4 DEF Rounds, Asked, Asking
  <2>2. NEGOTIATE_MAX_COUNT \in Nat /\ NEGOTIATE_MAX_COUNT >= 4
    BY BoundAssumption DEF Known, Healthy
  <2> QED BY <2>1, <2>2 DEF Room
<1>6. \A n : Room(t, n)' <=> Room(t, n)
  <2>1. ~ Asked(t, t) /\ ~ Asked(t, t)'
    BY <1>1, <1>3 DEF Asked, Asking
  <2> QED BY <1>4, <2>1 DEF Room, Rounds
<1>7. negPc[t] # "done" /\ udp[t] = <<>>
  BY DEF NegStart, Talk, Hushed
<1>8. /\ Asked(s, t)' /\ ~ Asked(t, s)' /\ ~ Asked(t, s) /\ ~ Asked(s, t)
      /\ \A z, r : r # "WHO_AM_I" => ~ Told(z, s, r)' /\ ~ Told(z, t, r)'
  BY <1>1, <1>3 DEF Asked, Asking
<1>9. OneTalk(s, t)' /\ OneTalk(t, s)'
  BY <1>3 DEF Asking
<1>10. Patient(s, t)' /\ Patient(t, s)'
  BY <1>3 DEF Patient, Asking
<1>11. Current(s)' /\ Current(t)'
  BY DEF Talk, NegStart, Current
<1>12. Place(s, t)' /\ Place(t, s)'
  BY DEF Talk, NegStart, Place, hbVars
<1>13. Match(s, t)' /\ Match(t, s)'
  BY <1>4 DEF Match
<1>14. Hushed(s, t)' /\ Hushed(t, s)'
  BY DEF Talk, NegStart, Known, TypeOK, Hushed
<1>15. Honest(s, t)' /\ Honest(t, s)'
  BY <1>3, <1>4 DEF Honest, Decided, Asked, Asking
<1>16. Answered(s, t)' /\ Answered(t, s)'
  BY <1>1, <1>3, <1>4, <1>7 DEF NegFrame, Answered, Undone, Paired, Asked, Asking
<1>17. InTime(s, t)' /\ InTime(t, s)'
  BY <1>4, <1>6, <1>8, <1>5 DEF InTime, Talk
<1>18. Linked(s, t)' /\ Linked(t, s)'
  BY <1>3, <1>4 DEF Linked, Paired, Asking
<1>19. LinkedHalf(s, t)' /\ LinkedHalf(t, s)'
  BY DEF Talk, NegStart, LinkedHalf
<1>20. Idles(s, t)' /\ Idles(t, s)'
  BY <1>3, <1>4 DEF Idles, Asked, Asking
<1> QED
  BY <1>9, <1>10, <1>11, <1>12, <1>13, <1>14, <1>15, <1>16, <1>17, <1>18, <1>19, <1>20 DEF Talk

\* The top of the loop, where the server that has counted more than
\* NEGOTIATE_MAX_COUNT rounds claims the primary role: t is undecided then, has the
\* lower address, and has the rounds to hear of it before its own claim.
LEMMA NegTopStep ==
  ASSUME Known, NEW s \in Servers, NEW t \in Servers, Both(s, t), Talk(s, t), Talk(t, s),
         TimedNegotiate(s), NegTop(s)
  PROVE  Talk(s, t)' /\ Talk(t, s)'
<1> USE DEF SetRole, GoNeg
<1>1. s # t /\ NegFrame(s, t) /\ negWait'[s] = 0
  BY NegFrames DEF Both
<1>2. udp' = udp /\ negCount' = negCount
  BY DEF NegTop, net, negVars
<1>3. /\ \A n : (Room(s, n)' <=> Room(s, n)) /\ (Room(t, n)' <=> Room(t, n))
      /\ Asked(s, t)' <=> Asked(s, t)
      /\ Asked(t, s)' <=> Asked(t, s)
      /\ Undone(t)' <=> Undone(t)
  BY <1>1, <1>2 DEF Room, Rounds, Asked, Told, NegFrame, Undone
<1>4. (Room(t, 2) => Room(t, 0)) /\ (Room(t, 4) => Room(t, 2)) /\ (Room(s, 2) => Room(s, 0))
      /\ (Room(s, 4) => Room(s, 2))
      /\ (Room(s, 0) => negCount[s] <= NEGOTIATE_MAX_COUNT)
  BY RoomLess
<1>5. Ip[s] \in Int /\ Ip[t] \in Int /\ Ip[s] # Ip[t] /\ role[s] \in Role /\ role[t] \in Role
      /\ negCount[s] \in Nat /\ NEGOTIATE_MAX_COUNT \in Nat
  BY IpAssumption, BoundAssumption, <1>1 DEF Known, TypeOK
<1>6. Claims(s) => ~ Room(s, 0) /\ Undone(s) /\ role[s] = "WHO_AM_I"
      /\ role'[s] = "PRIMARY_WITHOUT_BACKUP"
  BY <1>5, <1>4 DEF Claims, Undone, NegTop, Known, TypeOK
<1>7. ~ Claims(s) => role'[s] = role[s]
  BY DEF NegTop, Known, TypeOK
<1>8. Claims(s) => role[t] = "WHO_AM_I"
  <2>1. role[t] # "ACTIVE_QUIT_ER"
    BY DEF Known, SoloInv, Sound, Both, Alive
  <2> QED BY <1>5, <1>6, <1>4, <2>1 DEF Talk, InTime, Role, Paired
<1>9. Claims(s) => Undone(t)
  BY <1>6, <1>8 DEF Talk, Answered, Undone
<1>10. Claims(s) => Beats(s, t) /\ Room(t, 2)
  <2>1. Claims(s) => ~ Beats(t, s)
    BY <1>6, <1>9, <1>4 DEF Talk, InTime
  <2>2. Beats(s, t) \/ Beats(t, s)
    BY <1>5 DEF Beats
  <2> QED BY <1>6, <1>9, <1>4, <2>1, <2>2 DEF Talk, InTime
<1>11. Claims(s) => role'[s] \notin Paired /\ ~ Undone(s)'
  BY <1>6 DEF Paired, Undone
<1>12. ~ Claims(s) => (Undone(s)' <=> Undone(s))
  BY <1>7 DEF Undone, NegTop, Known, TypeOK
<1>13. OneTalk(s, t)' /\ OneTalk(t, s)'
  BY DEF Talk, NegTop, OneTalk, net
<1>14. Patient(s, t)' /\ Patient(t, s)'
  BY <1>1 DEF Talk, NegTop, NegFrame, Patient, net
<1>15. Current(s)' /\ Current(t)'
  BY DEF Talk, NegTop, Known, TypeOK, Current
<1>16. Place(s, t)' /\ Place(t, s)'
  BY DEF Talk, NegTop, Place, hbVars
<1>17. Match(s, t)' /\ Match(t, s)'
  BY <1>5, <1>8 DEF Talk, NegTop, Match
<1>18. Hushed(s, t)' /\ Hushed(t, s)'
  BY DEF Talk, NegTop, Hushed
<1>19. Honest(s, t)' /\ Honest(t, s)'
  BY <1>6, <1>10 DEF Talk, NegTop, Honest, Told, Asked, net
<1>20. Answered(s, t)' /\ Answered(t, s)'
  BY DEF Talk, NegTop, Answered, Told, Asked, Undone, Paired, net
<1>21. InTime(s, t)' /\ InTime(t, s)'
  BY <1>1, <1>7, <1>10, <1>11, <1>12, <1>3 DEF Talk, InTime, NegFrame
<1>22. Linked(s, t)' /\ Linked(t, s)'
  BY DEF Talk, NegTop, Linked, Told, Paired, net
<1>23. LinkedHalf(s, t)' /\ LinkedHalf(t, s)'
  BY DEF Talk, NegTop, LinkedHalf
<1>24. Idles(s, t)' /\ Idles(t, s)'
  BY DEF Place, Talk, NegTop, Known, ThreadInv, Idles, Told, Asked, Undone, hbVars, net, Claims
<1> QED
  BY <1>13, <1>14, <1>15, <1>16, <1>17, <1>18, <1>19, <1>20, <1>21, <1>22, <1>23, <1>24 DEF Talk

\* A new pair's server takes the mate's address.
LEMMA NegPairStep ==
  ASSUME Known, NEW s \in Servers, NEW t \in Servers, Both(s, t), Talk(s, t), Talk(t, s),
         TimedNegotiate(s), NegPair(s)
  PROVE  Talk(s, t)' /\ Talk(t, s)'
<1> USE DEF SetRole, GoNeg
<1>1. s # t /\ NegFrame(s, t) /\ negWait'[s] = 0
  BY NegFrames DEF Both
<1>2. udp' = udp /\ negCount' = negCount
  BY DEF NegPair, net, negVars
<1>3. /\ \A n : (Room(s, n)' <=> Room(s, n)) /\ (Room(t, n)' <=> Room(t, n))
      /\ Asked(s, t)' <=> Asked(s, t)
      /\ Asked(t, s)' <=> Asked(t, s)
      /\ Undone(t)' <=> Undone(t)
  BY <1>1, <1>2 DEF Room, Rounds, Asked, Told, NegFrame, Undone
<1>4. (Room(t, 2) => Room(t, 0)) /\ (Room(t, 4) => Room(t, 2)) /\ (Room(s, 2) => Room(s, 0))
      /\ (Room(s, 4) => Room(s, 2))
      /\ (Room(s, 0) => negCount[s] <= NEGOTIATE_MAX_COUNT)
  BY RoomLess
<1>5. role[s] \in Paired /\ negPeer[s] = t /\ Up(t)
  BY DEF NegPair, Talk, Place, Paired, Both, Alive
<1>6. role' = role /\ role[s] # "WHO_AM_I" /\ ~ Undone(s) /\ ~ Undone(s)'
  BY <1>5 DEF NegPair, Undone, Paired, shared
<1>7. OneTalk(s, t)' /\ OneTalk(t, s)'
  BY DEF Talk, NegPair, OneTalk, net
<1>8. Patient(s, t)' /\ Patient(t, s)'
  BY <1>1 DEF Talk, NegPair, NegFrame, Patient, net
<1>9. Current(s)' /\ Current(t)'
  BY DEF OneTalk, Place, Match, Hushed, Honest, Answered, Linked, Idles, Talk, NegPair, Current
<1>10. Place(s, t)' /\ Place(t, s)'
  BY DEF Talk, NegPair, Place, hbVars
<1>11. Match(s, t)' /\ Match(t, s)'
  BY DEF Talk, NegPair, Match
<1>12. Hushed(s, t)' /\ Hushed(t, s)'
  BY DEF Talk, NegPair, Hushed
<1>13. Honest(s, t)' /\ Honest(t, s)'
  BY DEF Talk, NegPair, Honest, Told, Asked, net
<1>14. Answered(s, t)' /\ Answered(t, s)'
  BY DEF Talk, NegPair, Answered, Told, Asked, Undone, net
<1>15. InTime(s, t)' /\ InTime(t, s)'
  BY <1>6, <1>3 DEF Talk, InTime
<1>16. Linked(s, t)' /\ Linked(t, s)'
  BY DEF Place, Talk, NegPair, Linked
<1>17. LinkedHalf(s, t)' /\ LinkedHalf(t, s)'
  BY DEF Place, Talk, NegPair, Known, TypeOK, LinkedHalf
<1>18. Idles(s, t)' /\ Idles(t, s)'
  BY <1>5 DEF NegPair, Idles, Undone, Paired
<1> QED
  BY <1>7, <1>8, <1>9, <1>10, <1>11, <1>12, <1>13, <1>14, <1>15, <1>16, <1>17, <1>18 DEF Talk

\* It connects to the mate; with no fault left the connection succeeds.
LEMMA NegConnectStep ==
  ASSUME Known, NEW s \in Servers, NEW t \in Servers, Both(s, t), Talk(s, t), Talk(t, s),
         TimedNegotiate(s), NegConnect(s)
  PROVE  Talk(s, t)' /\ Talk(t, s)'
<1> USE DEF SetRole, GoNeg
<1>1. s # t /\ NegFrame(s, t) /\ negWait'[s] = 0
  BY NegFrames DEF Both
<1>2. udp' = udp /\ negCount' = negCount
  BY DEF NegConnect, net, negVars
<1>3. /\ \A n : (Room(s, n)' <=> Room(s, n)) /\ (Room(t, n)' <=> Room(t, n))
      /\ Asked(s, t)' <=> Asked(s, t)
      /\ Asked(t, s)' <=> Asked(t, s)
      /\ Undone(t)' <=> Undone(t)
  BY <1>1, <1>2 DEF Room, Rounds, Asked, Told, NegFrame, Undone
<1>4. (Room(t, 2) => Room(t, 0)) /\ (Room(t, 4) => Room(t, 2)) /\ (Room(s, 2) => Room(s, 0))
      /\ (Room(s, 4) => Room(s, 2))
      /\ (Room(s, 0) => negCount[s] <= NEGOTIATE_MAX_COUNT)
  BY RoomLess
<1>5. role[s] \in Paired /\ negPeer[s] = t /\ Up(t)
  BY DEF NegConnect, Talk, Place, Paired, Both, Alive
<1>6. role' = role /\ role[s] # "WHO_AM_I" /\ ~ Undone(s) /\ ~ Undone(s)'
  BY <1>5 DEF NegConnect, Undone, Paired, shared
<1>7. t \in slots'[s] /\ conn'[s] = t
  BY <1>5 DEF NegConnect, Connect, Known, TypeOK, Healthy, SoloInv, Sound
<1>8. OneTalk(s, t)' /\ OneTalk(t, s)'
  BY DEF Talk, NegConnect, OneTalk, net
<1>9. Patient(s, t)' /\ Patient(t, s)'
  BY <1>1 DEF OneTalk, Place, Match, Hushed, Honest, Answered, Linked, LinkedHalf, Idles, Talk,
     NegConnect, NegFrame, Patient, net
<1>10. Current(s)' /\ Current(t)'
  BY DEF Talk, NegConnect, Current
<1>11. Place(s, t)' /\ Place(t, s)'
  BY DEF Talk, NegConnect, Known, TypeOK, Place, hbVars
<1>12. Match(s, t)' /\ Match(t, s)'
  BY DEF Talk, NegConnect, Match
<1>13. Hushed(s, t)' /\ Hushed(t, s)'
  BY DEF Talk, NegConnect, Hushed
<1>14. Honest(s, t)' /\ Honest(t, s)'
  BY DEF Talk, NegConnect, Honest, Told, Asked, net
<1>15. Answered(s, t)' /\ Answered(t, s)'
  BY DEF Talk, NegConnect, Answered, Told, Asked, Undone, net
<1>16. InTime(s, t)' /\ InTime(t, s)'
  BY <1>6, <1>3 DEF Talk, InTime
<1>17. Linked(s, t)' /\ Linked(t, s)'
  BY <1>1, <1>5, <1>7 DEF LinkedHalf, Talk, NegConnect, NegFrame, Linked
<1>18. LinkedHalf(s, t)' /\ LinkedHalf(t, s)'
  BY DEF Talk, NegConnect, LinkedHalf
<1>19. Idles(s, t)' /\ Idles(t, s)'
  BY <1>5 DEF NegConnect, Idles, Undone, Paired
<1> QED
  BY <1>8, <1>9, <1>10, <1>11, <1>12, <1>13, <1>14, <1>15, <1>16, <1>17, <1>18, <1>19 DEF Talk

\* s reads its own datagram: the round is counted, and brought nothing.
LEMMA NegForeignStep ==
  ASSUME Known, NEW s \in Servers, NEW t \in Servers, Both(s, t), Talk(s, t), Talk(t, s),
         TimedNegotiate(s), NegForeign(s)
  PROVE  Talk(s, t)' /\ Talk(t, s)'
<1> USE DEF SetRole, GoNeg
<1>1. s # t /\ NegFrame(s, t) /\ negWait'[s] = 0
  BY NegFrames DEF Both
<1> DEFINE x == Head(udp[s]).from
           k == Head(udp[s]).role
<1>2. negPc[s] = "recv" /\ udp[s] # <<>> /\ udp' = Received(s)
  BY DEF NegForeign, Hears
<1>3. Reading(s, t, x, k) /\ x \in {s, t} /\ k \in Role /\ Told(x, s, k)
  <2>1. Reading(s, t, x, k)
    BY <1>2, Readings
  <2> QED BY <2>1 DEF Reading
<1>4. Turns(s, t) /\ Turns(t, s)
  BY TalkTurns, <1>1 DEF Talk
<1>5. ServerId[s] = ServerId[t]
  BY DEF Known, Healthy
<1>6. Foreign(s, Head(udp[s])) <=> x = s
  BY <1>1, <1>3, <1>5 DEF Foreign
<1>7. negRole[s] = role[s] /\ role[s] # "ACTIVE_QUIT_ER" /\ role[t] # "ACTIVE_QUIT_ER"
  BY <1>2, <1>1 DEF Talk, Current, Known, SoloInv, Sound, Both, Alive
<1>8. x = s /\ (k # "WHO_AM_I" => role[s] # "WHO_AM_I")
  <2>1. x = s
    BY <1>6 DEF NegForeign
  <2>2. k # "WHO_AM_I" => k \in Decided /\ Told(s, s, k)
    BY <2>1, <1>3 DEF Decided
  <2> QED BY <2>1, <2>2 DEF Talk, Honest
<1>9. /\ \A n : Room(t, n)' <=> Room(t, n)
      /\ Undone(t)' <=> Undone(t)
  BY <1>1, <1>3 DEF Room, Rounds, Asked, Reading, NegFrame, Undone
<1>10. (Room(t, 2) => Room(t, 0)) /\ (Room(t, 4) => Room(t, 2)) /\ (Room(s, 2) => Room(s, 0))
       /\ (Room(s, 4) => Room(s, 2))
  BY RoomLess
<1>11. Undone(s) => \A n : Room(s, n)' <=> Room(s, n)
  <2> SUFFICES ASSUME Undone(s) PROVE Rounds(s)' = Rounds(s)
    BY DEF Room
  <2>1. role[s] = "WHO_AM_I" /\ k = "WHO_AM_I"
    BY <1>8 DEF Undone
  <2>2. Asked(s, s) /\ ~ Asked(s, s)'
    BY <1>3, <1>8, <2>1 DEF Asked, Reading
  <2>3. negCount'[s] = negCount[s] + 1 /\ negCount[s] \in Nat
    BY <2>1, <1>7 DEF NegForeign, CountRound, Known, TypeOK
  <2> QED BY <2>2, <2>3 DEF Rounds
<1>12. OneTalk(s, t)' /\ OneTalk(t, s)'
  BY <1>3 DEF Reading
<1>13. Patient(s, t)' /\ Patient(t, s)'
  BY <1>1, <1>3 DEF Talk, NegFrame, Patient, Reading
<1>14. Current(s)' /\ Current(t)'
  BY DEF Talk, NegForeign, Current, shared
<1>15. Place(s, t)' /\ Place(t, s)'
  BY <1>1 DEF Talk, NegForeign, NegFrame, Place, hbVars
<1>16. Match(s, t)' /\ Match(t, s)'
  BY DEF Talk, NegForeign, Match, shared
<1>17. Hushed(s, t)' /\ Hushed(t, s)'
  BY DEF Talk, NegForeign, Hushed
<1>18. Honest(s, t)' /\ Honest(t, s)'
  BY <1>3 DEF Talk, NegForeign, Honest, shared, Reading, Asked
<1>19. Answered(s, t)' /\ Answered(t, s)'
  BY <1>3, <1>6 DEF Talk, NegForeign, Answered, Undone, shared, Reading, Asked
<1>20. InTime(s, t)' /\ InTime(t, s)'
  BY <1>3, <1>8, <1>9, <1>11 DEF Talk, NegForeign, InTime, Undone, shared, Reading, Asked
<1>21. Linked(s, t)' /\ Linked(t, s)'
  BY <1>3 DEF Talk, NegForeign, Linked, shared, Reading
<1>22. LinkedHalf(s, t)' /\ LinkedHalf(t, s)'
  BY DEF Talk, NegForeign, LinkedHalf, shared
<1>23. Idles(s, t)' /\ Idles(t, s)'
  BY <1>3, <1>6 DEF Talk, NegForeign, Idles, Undone, shared, hbVars, Reading, Asked
<1> QED
  BY <1>12, <1>13, <1>14, <1>15, <1>16, <1>17, <1>18, <1>19, <1>20, <1>21, <1>22, <1>23 DEF Talk

\* Two undecided servers: the higher address becomes the primary, and t then has
\* the rounds left that it needs to ask it.
LEMMA NegTieBreakStep ==
  ASSUME Known, NEW s \in Servers, NEW t \in Servers, Both(s, t), Talk(s, t), Talk(t, s),
         TimedNegotiate(s), NegTieBreak(s)
  PROVE  Talk(s, t)' /\ Talk(t, s)'
<1> USE DEF SetRole, GoNeg
<1>1. s # t /\ NegFrame(s, t) /\ negWait'[s] = 0
  BY NegFrames DEF Both
<1> DEFINE x == Head(udp[s]).from
           k == Head(udp[s]).role
<1>2. negPc[s] = "recv" /\ udp[s] # <<>> /\ udp' = Received(s)
  BY DEF NegTieBreak, Hears
<1>3. Reading(s, t, x, k) /\ x \in {s, t} /\ k \in Role /\ Told(x, s, k)
  <2>1. Reading(s, t, x, k)
    BY <1>2, Readings
  <2> QED BY <2>1 DEF Reading
<1>4. Turns(s, t) /\ Turns(t, s)
  BY TalkTurns, <1>1 DEF Talk
<1>5. ServerId[s] = ServerId[t]
  BY DEF Known, Healthy
<1>6. Foreign(s, Head(udp[s])) <=> x = s
  BY <1>1, <1>3, <1>5 DEF Foreign
<1>7. negRole[s] = role[s] /\ role[s] # "ACTIVE_QUIT_ER" /\ role[t] # "ACTIVE_QUIT_ER"
  BY <1>2, <1>1 DEF Talk, Current, Known, SoloInv, Sound, Both, Alive
<1>8. x = t /\ k = "WHO_AM_I" /\ s # t
  BY <1>1, <1>2, <1>6, <1>3 DEF NegTieBreak, Hears
<1>9. /\ \A n : Room(t, n)' <=> Room(t, n)
      /\ Undone(t)' <=> Undone(t)
  BY <1>1, <1>3 DEF Room, Rounds, Asked, Reading, NegFrame, Undone
<1>10. (Room(t, 2) => Room(t, 0)) /\ (Room(t, 4) => Room(t, 2)) /\ (Room(s, 2) => Room(s, 0))
       /\ (Room(s, 4) => Room(s, 2))
  BY RoomLess
<1>11. \A n : Room(s, n)' <=> Room(s, n)
  BY <1>1, <1>3, <1>8, <1>2 DEF NegTieBreak, Room, Rounds, Asked, Reading, Known, TypeOK, negVars
<1>12. Asked(t, s) /\ ~ Asked(t, s)' /\ role[s] = "WHO_AM_I" /\ negPc[t] # "done"
       /\ negPc[s] # "done"
  BY <1>2, <1>3, <1>7, <1>8 DEF NegTieBreak, Hears, Asked, Reading, Talk, Answered
<1>13. Ip[s] \in Int /\ Ip[t] \in Int /\ Ip[s] # Ip[t] /\ (Beats(s, t) <=> ~ Beats(t, s))
  BY <1>1, IpAssumption DEF Beats
<1>14. Beats(s, t) => role[t] = "WHO_AM_I"
  BY <1>12, <1>13 DEF Talk, Honest
<1>15. IF Beats(s, t) THEN role'[s] = "PRIMARY_WITHOUT_BACKUP" ELSE role'[s] = role[s]
  BY <1>8 DEF NegTieBreak, Known, TypeOK
<1>16. hbPc[s] \in {"top", "idle"}
  BY <1>12 DEF Known, ThreadInv, Talk, Place
<1>17. OneTalk(s, t)' /\ OneTalk(t, s)'
  BY <1>3 DEF Reading
<1>18. Patient(s, t)' /\ Patient(t, s)'
  BY <1>1, <1>3 DEF Talk, NegFrame, Patient, Reading
<1>19. Current(s)' /\ Current(t)'
  BY DEF Talk, NegTieBreak, Known, TypeOK, Current
<1>20. Place(s, t)' /\ Place(t, s)'
  BY DEF Talk, NegTieBreak, Known, TypeOK, Place, hbVars
<1>21. Match(s, t)' /\ Match(t, s)'
  BY <1>1, <1>12, <1>14, <1>15 DEF NegFrame, Match
<1>22. Hushed(s, t)' /\ Hushed(t, s)'
  BY <1>2 DEF Talk, NegTieBreak, Hushed
<1>23. Honest(s, t)' /\ Honest(t, s)'
  BY <1>3, <1>4, <1>12 DEF Honest, Decided, Reading, Turns, Asked
<1>24. Answered(s, t)' /\ Answered(t, s)'
  BY <1>2, <1>4, <1>8, <1>12, <1>15 DEF Talk, NegTieBreak, Answered, Undone, Paired, Decided, Turns
<1>25. InTime(s, t)'
  <2>1. CASE Beats(s, t)
    <3>1. Undone(s) /\ Undone(t)
      BY <2>1, <1>12, <1>14 DEF Undone
    <3>2. Room(t, 2)
      BY <2>1, <3>1, <1>10, <1>12 DEF Talk, InTime
    <3>3. role'[s] = "PRIMARY_WITHOUT_BACKUP"
      BY <2>1, <1>15
    <3>4. role'[s] \notin Paired /\ ~ Undone(s)'
      BY <3>3 DEF Undone, Paired
    <3> QED BY <1>9, <3>2, <3>4 DEF InTime
  <2>2. CASE ~ Beats(s, t)
    <3>1. role'[s] = "WHO_AM_I"
      BY <2>2, <1>12, <1>15
    <3> QED BY <2>2, <3>1 DEF InTime, Beats, Paired
  <2> QED BY <2>1, <2>2
<1>26. InTime(t, s)'
  <2>1. CASE Beats(s, t)
    <3>1. ~ Undone(s)'
      BY <2>1, <1>15 DEF Undone
    <3> QED BY <3>1 DEF InTime
  <2>2. CASE ~ Beats(s, t)
    <3>1. role'[s] = role[s] /\ (Undone(s)' <=> Undone(s)) /\ (Asked(s, t)' <=> Asked(s, t))
          /\ role'[t] = role[t]
      BY <2>2, <1>1, <1>3, <1>15, <1>12 DEF NegTieBreak, Undone, Asked, Reading, NegFrame,
         Known, TypeOK
    <3> QED BY <3>1, <1>9, <1>11 DEF InTime, Talk, Beats
  <2> QED BY <2>1, <2>2
<1>27. Linked(s, t)' /\ Linked(t, s)'
  BY <1>3, <1>4, <1>12, <1>15 DEF Linked, Paired, Reading, Turns
<1>28. LinkedHalf(s, t)' /\ LinkedHalf(t, s)'
  BY DEF Talk, NegTieBreak, Known, TypeOK, LinkedHalf
<1>29. Idles(s, t)' /\ Idles(t, s)'
  BY <1>2, <1>4, <1>12 DEF Place, Talk, NegTieBreak, Known, TypeOK, ThreadInv, Idles, Undone,
     hbVars, Turns
<1> QED
  BY <1>17, <1>18, <1>19, <1>20, <1>21, <1>22, <1>23, <1>24, <1>25, <1>26, <1>27, <1>28,
     <1>29 DEF Talk

\* A lone primary tells the one that asks what it is, and takes it as its backup.
LEMMA NegAdoptStep ==
  ASSUME Known, NEW s \in Servers, NEW t \in Servers, Both(s, t), Talk(s, t), Talk(t, s),
         TimedNegotiate(s), NegAdopt(s)
  PROVE  Talk(s, t)' /\ Talk(t, s)' /\ role[t] = "WHO_AM_I"
<1> USE DEF SetRole, GoNeg
<1>1. s # t /\ NegFrame(s, t) /\ negWait'[s] = 0
  BY NegFrames DEF Both
<1>2. (Room(t, 2) => Room(t, 0)) /\ (Room(t, 4) => Room(t, 2)) /\ (Room(s, 2) => Room(s, 0))
      /\ (Room(s, 4) => Room(s, 2))
  BY RoomLess
<1>3. negPc[s] = "recv" /\ udp[s] # <<>> /\ Head(udp[s]).from = t
      /\ Head(udp[s]).role = "WHO_AM_I" /\ negRole[s] = role[s]
  <2>1. negPc[s] = "recv" /\ udp[s] # <<>> /\ Head(udp[s]).from # s
        /\ Head(udp[s]).role = "WHO_AM_I"
    BY DEF NegAdopt, Hears, Foreign
  <2>2. Head(udp[s]).from \in {s, t}
    BY <1>1, <2>1, FlightRead DEF Talk, OneTalk
  <2> QED BY <2>1, <2>2 DEF Talk, Current
<1>4. Replying(s, t, role[s])
  <2>1. role[s] \in Decided /\ Broadcast(s, role[s], Received(s))
    BY <1>3 DEF NegAdopt, Announce, Hears, Decided, Role
  <2> QED BY <1>3, <2>1, Replyings DEF Talk
<1>5. role[s] = "PRIMARY_WITHOUT_BACKUP" /\ role'[s] = "PRIMARY_WITH_BACKUP"
      /\ negPc'[s] = "pair" /\ negPeer'[s] = t
      /\ role[s] # "WHO_AM_I" /\ role'[s] # "WHO_AM_I" /\ role'[s] # "PRIMARY_WITHOUT_BACKUP"
  BY <1>3 DEF NegAdopt, Hears, Known, TypeOK
<1>6. Asked(t, s) /\ role[t] \in {"WHO_AM_I", "PRIMARY_WITHOUT_BACKUP"}
  BY <1>4 DEF Replying, Asked, Talk, Honest
<1>7. role[t] = "WHO_AM_I"
  BY <1>3, <1>6, <1>5 DEF Talk, Match
<1>8. ~ Asked(s, t) /\ ~ Asked(t, s)' /\ ~ Asked(s, t)' /\ (Asked(t, t)' <=> Asked(t, t))
  BY <1>1, <1>4, <1>5 DEF Replying, Asked
<1>9. \A n : Room(t, n)' <=> Room(t, n)
  BY <1>1, <1>8 DEF Room, Rounds, NegFrame
<1>10. (Undone(t)' <=> Undone(t)) /\ ~ Undone(s)' /\ ~ Undone(s)
  BY <1>1, <1>5 DEF Undone, NegFrame
<1>11. OneTalk(s, t)' /\ OneTalk(t, s)'
  BY <1>4 DEF Replying
<1>12. Patient(s, t)' /\ Patient(t, s)'
  BY <1>4 DEF Patient, Replying
<1>13. Current(s)' /\ Current(t)'
  BY DEF Talk, NegAdopt, Known, TypeOK, Current
<1>14. Place(s, t)' /\ Place(t, s)'
  BY <1>3 DEF Talk, NegAdopt, Known, TypeOK, Place, Paired, hbVars
<1>15. Match(s, t)' /\ Match(t, s)'
  BY <1>1, <1>7 DEF NegFrame, Match
<1>16. Hushed(s, t)' /\ Hushed(t, s)'
  BY <1>3 DEF Talk, NegAdopt, Hushed
<1>17. Honest(s, t)' /\ Honest(t, s)'
  BY <1>4, <1>8, <1>5 DEF Honest, Decided, Replying
<1>18. Answered(s, t)' /\ Answered(t, s)'
  BY <1>1, <1>4, <1>5 DEF Answered, Undone, Role, Decided, Replying
<1>19. InTime(s, t)' /\ InTime(t, s)'
  BY <1>9, <1>10, <1>5, <1>2 DEF InTime, Talk
<1>20. Linked(s, t)' /\ Linked(t, s)'
  BY <1>1, <1>7, <1>5 DEF NegFrame, Linked, Paired
<1>21. LinkedHalf(s, t)' /\ LinkedHalf(t, s)'
  BY <1>1, <1>7, <1>5 DEF NegFrame, LinkedHalf, Paired
<1>22. Idles(s, t)' /\ Idles(t, s)'
  BY <1>10, <1>5 DEF Idles
<1> QED
  BY <1>7, <1>11, <1>12, <1>13, <1>14, <1>15, <1>16, <1>17, <1>18, <1>19, <1>20, <1>21,
     <1>22 DEF Talk

\* A paired server answers one that asks with the role it has.
LEMMA NegTurnAwayStep ==
  ASSUME Known, NEW s \in Servers, NEW t \in Servers, Both(s, t), Talk(s, t), Talk(t, s),
         TimedNegotiate(s), NegTurnAway(s)
  PROVE  Talk(s, t)' /\ Talk(t, s)'
<1> USE DEF SetRole, GoNeg
<1>1. s # t /\ NegFrame(s, t) /\ negWait'[s] = 0
  BY NegFrames DEF Both
<1>2. (Room(t, 2) => Room(t, 0)) /\ (Room(t, 4) => Room(t, 2)) /\ (Room(s, 2) => Room(s, 0))
      /\ (Room(s, 4) => Room(s, 2))
  BY RoomLess
<1>3. negPc[s] = "recv" /\ udp[s] # <<>> /\ Head(udp[s]).from = t
      /\ Head(udp[s]).role = "WHO_AM_I" /\ negRole[s] = role[s]
  <2>1. negPc[s] = "recv" /\ udp[s] # <<>> /\ Head(udp[s]).from # s
        /\ Head(udp[s]).role = "WHO_AM_I"
    BY DEF NegTurnAway, Hears, Foreign
  <2>2. Head(udp[s]).from \in {s, t}
    BY <1>1, <2>1, FlightRead DEF Talk, OneTalk
  <2> QED BY <2>1, <2>2 DEF Talk, Current
<1>4. Replying(s, t, role[s])
  <2>1. role[s] \in Decided /\ Broadcast(s, role[s], Received(s))
    BY <1>3 DEF NegTurnAway, Announce, Hears, Decided, Role, Paired
  <2> QED BY <1>3, <2>1, Replyings DEF Talk
<1>5. role[s] \in Paired /\ role' = role /\ negPc'[s] = "top"
      /\ role[s] # "WHO_AM_I" /\ role'[s] # "WHO_AM_I" /\ role'[s] # "PRIMARY_WITHOUT_BACKUP"
  BY <1>3 DEF NegTurnAway, Hears, Known, TypeOK, shared, Paired
<1>6. Asked(t, s) /\ role[t] \in {"WHO_AM_I", "PRIMARY_WITHOUT_BACKUP"}
  BY <1>4 DEF Replying, Asked, Talk, Honest
<1>7. role[t] = "WHO_AM_I"
  BY <1>3, <1>6, <1>5 DEF Talk, Match, Paired
<1>8. ~ Asked(s, t) /\ ~ Asked(t, s)' /\ ~ Asked(s, t)' /\ (Asked(t, t)' <=> Asked(t, t))
  BY <1>1, <1>4, <1>5 DEF Replying, Asked
<1>9. \A n : Room(t, n)' <=> Room(t, n)
  BY <1>1, <1>8 DEF Room, Rounds, NegFrame
<1>10. (Undone(t)' <=> Undone(t)) /\ ~ Undone(s)' /\ ~ Undone(s)
  BY <1>1, <1>5 DEF Undone, NegFrame
<1>11. OneTalk(s, t)' /\ OneTalk(t, s)'
  BY <1>4 DEF Replying
<1>12. Patient(s, t)' /\ Patient(t, s)'
  BY <1>4 DEF Patient, Replying
<1>13. Current(s)' /\ Current(t)'
  BY DEF Talk, NegTurnAway, Current, shared
<1>14. Place(s, t)' /\ Place(t, s)'
  BY <1>1, <1>3 DEF Talk, NegTurnAway, NegFrame, Place, hbVars
<1>15. Match(s, t)' /\ Match(t, s)'
  BY <1>7, <1>5 DEF Match
<1>16. Hushed(s, t)' /\ Hushed(t, s)'
  BY <1>3 DEF Talk, NegTurnAway, Hushed
<1>17. Honest(s, t)' /\ Honest(t, s)'
  BY <1>4, <1>8, <1>5 DEF Honest, Paired, Decided, Replying
<1>18. Answered(s, t)' /\ Answered(t, s)'
  BY <1>4, <1>7, <1>5 DEF Answered, Paired, Role, Decided, Replying
<1>19. InTime(s, t)' /\ InTime(t, s)'
  BY <1>9, <1>10, <1>5 DEF InTime, Talk
<1>20. Linked(s, t)' /\ Linked(t, s)'
  BY <1>4, <1>7, <1>5 DEF Linked, Paired, Replying
<1>21. LinkedHalf(s, t)' /\ LinkedHalf(t, s)'
  BY <1>7, <1>5 DEF LinkedHalf, Paired
<1>22. Idles(s, t)' /\ Idles(t, s)'
  BY <1>10, <1>5 DEF Idles
<1> QED
  BY <1>11, <1>12, <1>13, <1>14, <1>15, <1>16, <1>17, <1>18, <1>19, <1>20, <1>21, <1>22 DEF Talk

\* An undecided server hears a lone primary and becomes its backup; the primary
\* has made it so when it answered.
LEMMA NegFollowStep ==
  ASSUME Known, NEW s \in Servers, NEW t \in Servers, Both(s, t), Talk(s, t), Talk(t, s),
         TimedNegotiate(s), NegFollow(s)
  PROVE  Talk(s, t)' /\ Talk(t, s)'
<1> USE DEF SetRole, GoNeg
<1>1. s # t /\ NegFrame(s, t) /\ negWait'[s] = 0
  BY NegFrames DEF Both
<1> DEFINE x == Head(udp[s]).from
           k == Head(udp[s]).role
<1>2. negPc[s] = "recv" /\ udp[s] # <<>> /\ udp' = Received(s)
  BY DEF NegFollow, Hears
<1>3. Reading(s, t, x, k) /\ x \in {s, t} /\ k \in Role /\ Told(x, s, k)
  <2>1. Reading(s, t, x, k)
    BY <1>2, Readings
  <2> QED BY <2>1 DEF Reading
<1>4. Turns(s, t) /\ Turns(t, s)
  BY TalkTurns, <1>1 DEF Talk
<1>5. ServerId[s] = ServerId[t]
  BY DEF Known, Healthy
<1>6. Foreign(s, Head(udp[s])) <=> x = s
  BY <1>1, <1>3, <1>5 DEF Foreign
<1>7. negRole[s] = role[s] /\ role[s] # "ACTIVE_QUIT_ER" /\ role[t] # "ACTIVE_QUIT_ER"
  BY <1>2, <1>1 DEF Talk, Current, Known, SoloInv, Sound, Both, Alive
<1>8. x = t /\ k = "PRIMARY_WITHOUT_BACKUP" /\ s # t
  BY <1>1, <1>2, <1>6, <1>3 DEF NegFollow, Hears
<1>9. /\ \A n : Room(t, n)' <=> Room(t, n)
      /\ Undone(t)' <=> Undone(t)
  BY <1>1, <1>3 DEF Room, Rounds, Asked, Reading, NegFrame, Undone
<1>10. (Room(t, 2) => Room(t, 0)) /\ (Room(t, 4) => Room(t, 2)) /\ (Room(s, 2) => Room(s, 0))
       /\ (Room(s, 4) => Room(s, 2))
  BY RoomLess
<1>11. \A n : Room(s, n)' <=> Room(s, n)
  BY <1>1, <1>3, <1>8, <1>2 DEF NegFollow, Room, Rounds, Asked, Reading, Known, TypeOK, negVars
<1>12. role[t] = "PRIMARY_WITH_BACKUP" /\ role[s] = "WHO_AM_I"
       /\ role'[s] = "BACKUP_WITH_PRIMARY" /\ negPeer'[s] = t /\ negPc'[s] = "pair"
  BY <1>2, <1>3, <1>7, <1>8 DEF NegFollow, Hears, Talk, Honest, Known, TypeOK
<1>13. ~ Asked(s, t) /\ ~ Asked(t, s)
  BY <1>3, <1>4, <1>8 DEF Turns
<1>14. OneTalk(s, t)' /\ OneTalk(t, s)'
  BY <1>3 DEF Reading
<1>15. Patient(s, t)' /\ Patient(t, s)'
  BY <1>1, <1>3 DEF Talk, NegFrame, Patient, Reading
<1>16. Current(s)' /\ Current(t)'
  BY DEF Talk, NegFollow, Known, TypeOK, Current
<1>17. Place(s, t)' /\ Place(t, s)'
  BY <1>12 DEF Talk, NegFollow, Place, Paired, hbVars
<1>18. Match(s, t)' /\ Match(t, s)'
  BY <1>1, <1>12 DEF NegFrame, Match
<1>19. Hushed(s, t)' /\ Hushed(t, s)'
  BY <1>2 DEF Talk, NegFollow, Hushed
<1>20. Honest(s, t)' /\ Honest(t, s)'
  BY <1>1, <1>3, <1>4, <1>8, <1>12 DEF Talk, NegFrame, Honest, Reading, Turns, Asked
<1>21. Answered(s, t)' /\ Answered(t, s)'
  BY <1>1, <1>12 DEF NegFrame, Answered, Undone
<1>22. InTime(s, t)' /\ InTime(t, s)'
  BY <1>12, <1>9 DEF InTime, Undone
<1>23. Linked(s, t)' /\ Linked(t, s)'
  BY <1>3, <1>8, <1>12 DEF Talk, NegFollow, Linked
<1>24. LinkedHalf(s, t)' /\ LinkedHalf(t, s)'
  BY DEF Talk, NegFollow, Known, TypeOK, LinkedHalf
<1>25. Idles(s, t)' /\ Idles(t, s)'
  BY <1>12 DEF Idles, Undone
<1> QED
  BY <1>14, <1>15, <1>16, <1>17, <1>18, <1>19, <1>20, <1>21, <1>22, <1>23, <1>24, <1>25 DEF Talk

\* Of two living servers none hears ACTIVE_QUIT_ER.
LEMMA NegWidowStep ==
  ASSUME Known, NEW s \in Servers, NEW t \in Servers, Both(s, t), Talk(s, t), Talk(t, s),
         TimedNegotiate(s), NegWidow(s)
  PROVE  FALSE
<1>1. s # t /\ NegFrame(s, t) /\ negWait'[s] = 0
  BY NegFrames DEF Both
<1> DEFINE x == Head(udp[s]).from
           k == Head(udp[s]).role
<1>2. negPc[s] = "recv" /\ udp[s] # <<>> /\ udp' = Received(s)
  BY DEF NegWidow, Hears
<1>3. Reading(s, t, x, k) /\ x \in {s, t} /\ k \in Role /\ Told(x, s, k)
  <2>1. Reading(s, t, x, k)
    BY <1>2, Readings
  <2> QED BY <2>1 DEF Reading
<1>4. Turns(s, t) /\ Turns(t, s)
  BY TalkTurns, <1>1 DEF Talk
<1>5. ServerId[s] = ServerId[t]
  BY DEF Known, Healthy
<1>6. Foreign(s, Head(udp[s])) <=> x = s
  BY <1>1, <1>3, <1>5 DEF Foreign
<1>7. negRole[s] = role[s] /\ role[s] # "ACTIVE_QUIT_ER" /\ role[t] # "ACTIVE_QUIT_ER"
  BY <1>2, <1>1 DEF Talk, Current, Known, SoloInv, Sound, Both, Alive
<1>8. x = t /\ k = "ACTIVE_QUIT_ER"
  BY <1>1, <1>2, <1>6, <1>3 DEF NegWidow, Hears
<1> QED
  BY <1>3, <1>8 DEF Talk, Honest

\* An undecided server that hears of a complete pair reports and leaves; the other
\* has its role by then.
LEMMA NegInactiveQuitStep ==
  ASSUME Known, NEW s \in Servers, NEW t \in Servers, Both(s, t), Talk(s, t), Talk(t, s),
         TimedNegotiate(s), NegInactiveQuit(s)
  PROVE  Talk(s, t)' /\ Talk(t, s)'
<1> USE DEF SetRole, GoNeg
<1>1. s # t /\ NegFrame(s, t) /\ negWait'[s] = 0
  BY NegFrames DEF Both
<1> DEFINE x == Head(udp[s]).from
           k == Head(udp[s]).role
<1>2. negPc[s] = "recv" /\ udp[s] # <<>> /\ udp' = Received(s)
  BY DEF NegInactiveQuit, Hears
<1>3. Reading(s, t, x, k) /\ x \in {s, t} /\ k \in Role /\ Told(x, s, k)
  <2>1. Reading(s, t, x, k)
    BY <1>2, Readings
  <2> QED BY <2>1 DEF Reading
<1>4. Turns(s, t) /\ Turns(t, s)
  BY TalkTurns, <1>1 DEF Talk
<1>5. ServerId[s] = ServerId[t]
  BY DEF Known, Healthy
<1>6. Foreign(s, Head(udp[s])) <=> x = s
  BY <1>1, <1>3, <1>5 DEF Foreign
<1>7. negRole[s] = role[s] /\ role[s] # "ACTIVE_QUIT_ER" /\ role[t] # "ACTIVE_QUIT_ER"
  BY <1>2, <1>1 DEF Talk, Current, Known, SoloInv, Sound, Both, Alive
<1>8. x = t /\ k \in Paired /\ k \in Decided /\ s # t
  BY <1>1, <1>2, <1>6, <1>3 DEF NegInactiveQuit, Hears, Decided, Paired
<1>9. /\ \A n : Room(t, n)' <=> Room(t, n)
      /\ Undone(t)' <=> Undone(t)
  BY <1>1, <1>3 DEF Room, Rounds, Asked, Reading, NegFrame, Undone
<1>10. (Room(t, 2) => Room(t, 0)) /\ (Room(t, 4) => Room(t, 2)) /\ (Room(s, 2) => Room(s, 0))
       /\ (Room(s, 4) => Room(s, 2))
  BY RoomLess
<1>11. role[t] # "WHO_AM_I" /\ role[s] = "WHO_AM_I" /\ ~ Undone(s)' /\ role'[s] = role[s]
  BY <1>2, <1>3, <1>7, <1>8 DEF NegInactiveQuit, Hears, Talk, Honest, Known, TypeOK, Undone, Paired
<1>12. ~ Asked(s, t) /\ ~ Asked(t, s) /\ k # "WHO_AM_I"
  BY <1>3, <1>4, <1>8 DEF Turns, Decided
<1>13. OneTalk(s, t)' /\ OneTalk(t, s)'
  BY <1>3 DEF Reading
<1>14. Patient(s, t)' /\ Patient(t, s)'
  BY <1>1, <1>3 DEF Talk, NegFrame, Patient, Reading
<1>15. Current(s)' /\ Current(t)'
  BY DEF Talk, NegInactiveQuit, Current
<1>16. Place(s, t)' /\ Place(t, s)'
  BY DEF Talk, NegInactiveQuit, Place, hbVars
<1>17. Match(s, t)' /\ Match(t, s)'
  BY <1>11 DEF Match
<1>18. Hushed(s, t)' /\ Hushed(t, s)'
  BY <1>2 DEF Talk, NegInactiveQuit, Hushed
<1>19. Honest(s, t)' /\ Honest(t, s)'
  BY <1>3 DEF Talk, NegInactiveQuit, Honest, Reading, Asked
<1>20. Answered(s, t)' /\ Answered(t, s)'
  BY <1>11 DEF Talk, NegInactiveQuit, Answered, Undone
<1>21. InTime(s, t)' /\ InTime(t, s)'
  BY <1>11, <1>9 DEF InTime, Undone
<1>22. Linked(s, t)' /\ Linked(t, s)'
  BY <1>2, <1>3 DEF Talk, NegInactiveQuit, Linked, Reading
<1>23. LinkedHalf(s, t)' /\ LinkedHalf(t, s)'
  BY DEF Talk, NegInactiveQuit, LinkedHalf
<1>24. Idles(s, t)' /\ Idles(t, s)'
  BY <1>11 DEF Idles
<1> QED
  BY <1>13, <1>14, <1>15, <1>16, <1>17, <1>18, <1>19, <1>20, <1>21, <1>22, <1>23, <1>24 DEF Talk

\* A datagram that changes nothing.
LEMMA NegIgnoreStep ==
  ASSUME Known, NEW s \in Servers, NEW t \in Servers, Both(s, t), Talk(s, t), Talk(t, s),
         TimedNegotiate(s), NegIgnore(s)
  PROVE  Talk(s, t)' /\ Talk(t, s)'
<1> USE DEF SetRole, GoNeg
<1>1. s # t /\ NegFrame(s, t) /\ negWait'[s] = 0
  BY NegFrames DEF Both
<1> DEFINE x == Head(udp[s]).from
           k == Head(udp[s]).role
<1>2. negPc[s] = "recv" /\ udp[s] # <<>> /\ udp' = Received(s)
  BY DEF NegIgnore, Hears
<1>3. Reading(s, t, x, k) /\ x \in {s, t} /\ k \in Role /\ Told(x, s, k)
  <2>1. Reading(s, t, x, k)
    BY <1>2, Readings
  <2> QED BY <2>1 DEF Reading
<1>4. Turns(s, t) /\ Turns(t, s)
  BY TalkTurns, <1>1 DEF Talk
<1>5. ServerId[s] = ServerId[t]
  BY DEF Known, Healthy
<1>6. Foreign(s, Head(udp[s])) <=> x = s
  BY <1>1, <1>3, <1>5 DEF Foreign
<1>7. negRole[s] = role[s] /\ role[s] # "ACTIVE_QUIT_ER" /\ role[t] # "ACTIVE_QUIT_ER"
  BY <1>2, <1>1 DEF Talk, Current, Known, SoloInv, Sound, Both, Alive
<1>8. x = t /\ role[s] # "WHO_AM_I" /\ k \in Decided /\ s # t
  <2>1. x = t /\ (role[s] = "WHO_AM_I" => k = "ACTIVE_QUIT_ER")
        /\ (k = "WHO_AM_I" => role[s] = "ACTIVE_QUIT_ER")
    BY <1>1, <1>2, <1>6, <1>3, <1>7 DEF NegIgnore, Hears, Paired
  <2>2. k # "ACTIVE_QUIT_ER"
    BY <2>1, <1>3 DEF Talk, Honest
  <2> QED BY <2>1, <2>2, <1>1, <1>3, <1>7 DEF Decided
<1>9. /\ \A n : Room(t, n)' <=> Room(t, n)
      /\ Undone(t)' <=> Undone(t)
  BY <1>1, <1>3 DEF Room, Rounds, Asked, Reading, NegFrame, Undone
<1>10. (Room(t, 2) => Room(t, 0)) /\ (Room(t, 4) => Room(t, 2)) /\ (Room(s, 2) => Room(s, 0))
       /\ (Room(s, 4) => Room(s, 2))
  BY RoomLess
<1>11. role'[s] = role[s] /\ role[s] # "WHO_AM_I" /\ ~ Undone(s)'
  BY <1>8 DEF NegIgnore, shared, Undone
<1>12. OneTalk(s, t)' /\ OneTalk(t, s)'
  BY <1>3 DEF Reading
<1>13. Patient(s, t)' /\ Patient(t, s)'
  BY <1>1, <1>3 DEF Talk, NegFrame, Patient, Reading
<1>14. Current(s)' /\ Current(t)'
  BY DEF Talk, NegIgnore, Current, shared
<1>15. Place(s, t)' /\ Place(t, s)'
  BY <1>1 DEF Talk, NegIgnore, Known, TypeOK, NegFrame, Place, hbVars
<1>16. Match(s, t)' /\ Match(t, s)'
  BY DEF Talk, NegIgnore, Match, shared
<1>17. Hushed(s, t)' /\ Hushed(t, s)'
  BY <1>2 DEF Talk, NegIgnore, Hushed
<1>18. Honest(s, t)' /\ Honest(t, s)'
  BY <1>1, <1>3, <1>11 DEF Talk, NegFrame, Honest, Reading, Asked
<1>19. Answered(s, t)' /\ Answered(t, s)'
  BY <1>3, <1>8 DEF Talk, NegIgnore, Answered, Undone, Decided, shared, Reading, Asked
<1>20. InTime(s, t)' /\ InTime(t, s)'
  BY <1>3, <1>4, <1>8, <1>11, <1>9 DEF Talk, InTime, Decided, Turns
<1>21. Linked(s, t)' /\ Linked(t, s)'
  BY <1>2, <1>3 DEF Talk, NegIgnore, Linked, shared, Reading
<1>22. LinkedHalf(s, t)' /\ LinkedHalf(t, s)'
  BY DEF Talk, NegIgnore, LinkedHalf, shared
<1>23. Idles(s, t)' /\ Idles(t, s)'
  BY <1>1, <1>3, <1>8, <1>11 DEF Talk, NegFrame, Idles, Undone, Decided, hbVars, Reading, Asked
<1> QED
  BY <1>12, <1>13, <1>14, <1>15, <1>16, <1>17, <1>18, <1>19, <1>20, <1>21, <1>22, <1>23 DEF Talk

\* A round of an undecided server ends with nothing heard: it counts and asks again.
\* Nothing is on the air then, and t is not about to time out before it hears it.
LEMMA NegTimeoutAsk ==
  ASSUME Known, NEW s \in Servers, NEW t \in Servers, Both(s, t), Talk(s, t), Talk(t, s),
         TimedNegotiate(s), NegTimeout(s), negRole[s] = "WHO_AM_I"
  PROVE  Talk(s, t)' /\ Talk(t, s)'
<1> USE DEF SetRole, GoNeg
<1>1. s # t /\ NegFrame(s, t) /\ negWait'[s] = 0
  BY NegFrames DEF Both
<1>2. (Room(t, 2) => Room(t, 0)) /\ (Room(t, 4) => Room(t, 2)) /\ (Room(s, 2) => Room(s, 0))
      /\ (Room(s, 4) => Room(s, 2))
  BY RoomLess
<1>3. udp[s] = <<>> /\ udp[t] = <<>> /\ negPc[t] # "start" /\ negPc[s] = "recv"
      /\ negRole[s] = role[s]
  <2>1. udp[s] = <<>> /\ negPc[s] = "recv" /\ negWait[s] >= NegTicks
    BY DEF NegTimeout, TimedNegotiate
  <2>2. negWait[s] # 0
    BY <2>1 DEF NegTicks
  <2> QED BY <2>1, <2>2 DEF Talk, Patient, Hushed, Current
<1>4. Asking(s, t)
  BY <1>3, Askings DEF NegTimeout, Announce
<1>5. role' = role /\ role[s] = "WHO_AM_I" /\ negPc'[s] = "top"
      /\ negCount[s] \in Nat /\ negCount'[s] = negCount[s] + 1 /\ negCount'[t] = negCount[t]
      /\ (Undone(t)' <=> Undone(t)) /\ Undone(s)' /\ Undone(s)
  BY <1>1, <1>3 DEF NegTimeout, CountRound, Known, TypeOK, Undone, NegFrame, shared
<1>6. (Room(s, 4) => Room(s, 2)') /\ (Room(s, 2) => Room(s, 0)')
  <2> DEFINE M == NEGOTIATE_MAX_COUNT
             c == negCount[s]
  <2>1. Rounds(s) = c /\ Rounds(s)' = (c + 1) + 1
    BY <1>4, <1>5 DEF Rounds, Asked, Asking
  <2>2. c \in Nat /\ M \in Nat
    BY BoundAssumption, <1>5
  <2> HIDE DEF c, M
  <2>3. (c + 4 <= M => ((c + 1) + 1) + 2 <= M) /\ (c + 2 <= M => ((c + 1) + 1) + 0 <= M)
    BY <2>2
  <2> QED BY <2>1, <2>3 DEF Room, M
<1>7. \A n : Room(t, n)' <=> Room(t, n)
  <2>1. ~ Asked(t, t) /\ ~ Asked(t, t)'
    BY <1>1, <1>4 DEF Asked, Asking
  <2> QED BY <1>5, <2>1 DEF Room, Rounds
<1>8. role[t] \notin Paired
  BY <1>3, <1>4, <1>5 DEF Talk, Answered, Asking, Asked
<1>9. /\ Asked(s, t)' /\ ~ Asked(t, s)' /\ ~ Asked(t, s) /\ ~ Asked(s, t)
      /\ \A z, r : r # "WHO_AM_I" => ~ Told(z, s, r)' /\ ~ Told(z, t, r)'
  BY <1>1, <1>4 DEF Asked, Asking
<1>10. OneTalk(s, t)' /\ OneTalk(t, s)'
  BY <1>4 DEF Asking
<1>11. Patient(s, t)' /\ Patient(t, s)'
  BY <1>4 DEF Patient, Asking
<1>12. Current(s)' /\ Current(t)'
  BY <1>5 DEF Talk, NegTimeout, Current
<1>13. Place(s, t)' /\ Place(t, s)'
  BY DEF Talk, NegTimeout, Place, shared, hbVars
<1>14. Match(s, t)' /\ Match(t, s)'
  BY <1>5 DEF Match
<1>15. Hushed(s, t)' /\ Hushed(t, s)'
  BY <1>1, <1>3, <1>5 DEF NegFrame, Hushed
<1>16. Honest(s, t)' /\ Honest(t, s)'
  BY <1>4, <1>5 DEF Honest, Decided, Asked, Asking
<1>17. Answered(s, t)' /\ Answered(t, s)'
  BY <1>1, <1>4, <1>5 DEF Talk, NegFrame, Answered, Asked, Asking
<1>18. InTime(s, t)' /\ InTime(t, s)'
  BY <1>5, <1>7, <1>9, <1>6, <1>8 DEF InTime, Talk
<1>19. Linked(s, t)' /\ Linked(t, s)'
  BY <1>4, <1>5 DEF Linked, Paired, Asking
<1>20. LinkedHalf(s, t)' /\ LinkedHalf(t, s)'
  BY <1>5, <1>8 DEF LinkedHalf
<1>21. Idles(s, t)' /\ Idles(t, s)'
  BY <1>4, <1>5 DEF Idles, Asked, Asking
<1> QED
  BY <1>10, <1>11, <1>12, <1>13, <1>14, <1>15, <1>16, <1>17, <1>18, <1>19, <1>20, <1>21 DEF Talk

\* A round of a decided server ends with nothing heard.
LEMMA NegTimeoutMute ==
  ASSUME Known, NEW s \in Servers, NEW t \in Servers, Both(s, t), Talk(s, t), Talk(t, s),
         TimedNegotiate(s), NegTimeout(s), negRole[s] # "WHO_AM_I"
  PROVE  Talk(s, t)' /\ Talk(t, s)'
<1> USE DEF SetRole, GoNeg
<1>1. s # t /\ NegFrame(s, t) /\ negWait'[s] = 0
  BY NegFrames DEF Both
<1>2. (Room(t, 2) => Room(t, 0)) /\ (Room(t, 4) => Room(t, 2)) /\ (Room(s, 2) => Room(s, 0))
      /\ (Room(s, 4) => Room(s, 2))
  BY RoomLess
<1>3. udp[s] = <<>> /\ udp[t] = <<>> /\ negPc[t] # "start" /\ negPc[s] = "recv"
      /\ negRole[s] = role[s]
  <2>1. udp[s] = <<>> /\ negPc[s] = "recv" /\ negWait[s] >= NegTicks
    BY DEF NegTimeout, TimedNegotiate
  <2>2. negWait[s] # 0
    BY <2>1 DEF NegTicks
  <2> QED BY <2>1, <2>2 DEF Talk, Patient, Hushed, Current
<1>4. udp' = udp /\ role' = role /\ negCount' = negCount /\ role[s] # "WHO_AM_I"
  BY <1>3 DEF NegTimeout, CountRound, Known, TypeOK, shared
<1>5. (Undone(t)' <=> Undone(t)) /\ ~ Undone(s)' /\ ~ Undone(s)
  BY <1>1, <1>4 DEF Undone, NegFrame
<1>6. \A n : Room(t, n)' <=> Room(t, n)
  BY <1>4 DEF Room, Rounds, Asked, Told
<1>7. \A z, r : (Told(z, s, r)' <=> Told(z, s, r)) /\ (Told(z, t, r)' <=> Told(z, t, r))
  BY <1>4 DEF Told
<1>8. OneTalk(s, t)' /\ OneTalk(t, s)'
  BY <1>4 DEF OneTalk, Talk
<1>9. Patient(s, t)' /\ Patient(t, s)'
  BY <1>3 DEF Current, Place, Match, Hushed, Honest, Answered, InTime, Linked, LinkedHalf,
     Idles, OneTalk, Talk, NegTimeout, Known, ThreadInv, ClockType, Patient
<1>10. Current(s)' /\ Current(t)'
  BY <1>4 DEF Talk, NegTimeout, Current
<1>11. Place(s, t)' /\ Place(t, s)'
  BY DEF Talk, NegTimeout, Place, shared, hbVars
<1>12. Match(s, t)' /\ Match(t, s)'
  BY <1>4 DEF Talk, Match
<1>13. Hushed(s, t)' /\ Hushed(t, s)'
  BY <1>3 DEF NegTimeout, Hushed
<1>14. Honest(s, t)' /\ Honest(t, s)'
  BY <1>4, <1>7 DEF Talk, Honest, Asked
<1>15. Answered(s, t)' /\ Answered(t, s)'
  BY <1>4, <1>5, <1>7 DEF Talk, NegTimeout, Answered, Asked
<1>16. InTime(s, t)' /\ InTime(t, s)'
  BY <1>4, <1>5, <1>6, <1>7 DEF InTime, Talk, Asked
<1>17. Linked(s, t)' /\ Linked(t, s)'
  BY <1>7 DEF Talk, NegTimeout, Linked, shared
<1>18. LinkedHalf(s, t)' /\ LinkedHalf(t, s)'
  BY <1>1 DEF Talk, NegTimeout, NegFrame, LinkedHalf
<1>19. Idles(s, t)' /\ Idles(t, s)'
  BY <1>1, <1>4, <1>5, <1>7 DEF Talk, NegFrame, Idles, hbVars, Asked
<1> QED
  BY <1>8, <1>9, <1>10, <1>11, <1>12, <1>13, <1>14, <1>15, <1>16, <1>17, <1>18, <1>19 DEF Talk

\* The two cases of a round's end.
LEMMA NegTimeoutStep ==
  ASSUME Known, NEW s \in Servers, NEW t \in Servers, Both(s, t), Talk(s, t), Talk(t, s),
         TimedNegotiate(s), NegTimeout(s)
  PROVE  Talk(s, t)' /\ Talk(t, s)'
<1>1. CASE negRole[s] = "WHO_AM_I"
  BY <1>1, NegTimeoutAsk
<1>2. CASE negRole[s] # "WHO_AM_I"
  BY <1>2, NegTimeoutMute
<1> QED BY <1>1, <1>2

-----------------------------------------------------------------------------
(* 4. The steps of heartbeat *)

\* What a step of s's heartbeat leaves alone: negotiate, the channels, the
\* sockets, and all of t but its queue.
HbFrame(s, t) ==
  /\ UNCHANGED <<main, mate, conn, slots, report, negVars, negWait, udp>>
  /\ quit[s] => quit'[s]
  /\ quit'[t] = quit[t] /\ role'[t] = role[t] /\ hbPc'[t] = hbPc[t] /\ errCount'[t] = errCount[t]
  /\ hbWait'[t] = hbWait[t] /\ hbTurn'[t] = hbTurn[t]
  /\ hbWait'[s] = 0 /\ hbTurn'[s] = (hbTurn[s] /\ hbPc[s] # "send")

\* heartbeat changes its own server, and the queue it sends to.
LEMMA HbFrames ==
  ASSUME Known, NEW s \in Servers, NEW t \in Servers, s # t, TimedHeartbeat(s)
  PROVE  HbFrame(s, t)
<1> USE DEF shared, negVars, hbVars, net, budget, SetRole, GoHb
<1>1. /\ hbWait' = [hbWait EXCEPT ![s] = 0]
         /\ hbTurn' = [hbTurn EXCEPT ![s] = @ /\ hbPc[s] # "send"]
      /\ UNCHANGED negWait /\ HeartbeatThread(s)
  BY DEF TimedHeartbeat
<1>2. UNCHANGED <<main, mate, conn, slots, report, negVars, udp>>
  BY <1>1 DEF HeartbeatThread, HbTop, HbIdle, HbSend, HbReceive, HbTimeout, HbSayQuit
<1>3. /\ quit[s] => quit'[s]
      /\ quit'[t] = quit[t] /\ role'[t] = role[t] /\ hbPc'[t] = hbPc[t]
         /\ errCount'[t] = errCount[t]
  BY <1>1, SMTT(30) DEF HeartbeatThread, HbTop, HbIdle, HbSend, HbReceive, HbTimeout, HbSayQuit,
     Known, TypeOK
<1> QED
  BY <1>1, <1>2, <1>3 DEF HbFrame, Known, ClockType

\* Talk does not look at heartbeat, but for its place and the idle wait.
LEMMA HbTalk ==
  ASSUME Known, NEW s \in Servers, NEW t \in Servers, Both(s, t), Talk(s, t), Talk(t, s),
         HbFrame(s, t), role'[s] = role[s], hbPc'[s] \in {"top", "idle", "send", "recv"},
         hbPc'[s] \in {"top", "idle"} \/ hbPc[s] \in {"send", "recv"} \/ role[s] \in Paired
  PROVE  Talk(s, t)' /\ Talk(t, s)'
<1>1. /\ udp' = udp /\ s # t /\ role'[s] = role[s] /\ role'[t] = role[t]
      /\ UNCHANGED <<mate, conn, slots, negPc, negRole, negCount, negPeer, negWait>>
      /\ hbPc'[t] = hbPc[t]
  BY DEF HbFrame, Both, negVars
<1>2. /\ \A n : (Room(s, n)' <=> Room(s, n)) /\ (Room(t, n)' <=> Room(t, n))
      /\ \A x, y, r : Told(x, y, r)' <=> Told(x, y, r)
      /\ Asked(s, t)' <=> Asked(s, t)
      /\ Asked(t, s)' <=> Asked(t, s)
      /\ Undone(s)' <=> Undone(s)
      /\ Undone(t)' <=> Undone(t)
  BY <1>1 DEF Room, Rounds, Asked, Told, Undone
<1>3. OneTalk(s, t)' /\ OneTalk(t, s)'
  BY <1>1 DEF Talk, OneTalk
<1>4. Patient(s, t)' /\ Patient(t, s)'
  BY <1>1 DEF Talk, Patient
<1>5. Current(s)' /\ Current(t)'
  BY <1>1 DEF Talk, Current
<1>6. Place(s, t)' /\ Place(t, s)'
  BY <1>1 DEF Talk, Place
<1>7. Match(s, t)' /\ Match(t, s)'
  BY <1>1 DEF Talk, Match
<1>8. Hushed(s, t)' /\ Hushed(t, s)'
  BY <1>1 DEF Talk, Hushed
<1>9. Honest(s, t)' /\ Honest(t, s)'
  BY <1>1, <1>2 DEF Talk, Honest, Beats
<1>10. Answered(s, t)' /\ Answered(t, s)'
  BY <1>1, <1>2 DEF Talk, Answered, Paired
<1>11. InTime(s, t)' /\ InTime(t, s)'
  BY <1>1, <1>2 DEF Talk, InTime, Beats
<1>12. Linked(s, t)' /\ Linked(t, s)'
  BY <1>1, <1>2 DEF Talk, Linked, Paired
<1>13. LinkedHalf(s, t)' /\ LinkedHalf(t, s)'
  BY <1>1 DEF Talk, LinkedHalf
<1>14. Idles(s, t)' /\ Idles(t, s)'
  BY <1>1, <1>2 DEF Talk, Idles, Paired
<1> QED
  BY <1>3, <1>4, <1>5, <1>6, <1>7, <1>8, <1>9, <1>10, <1>11, <1>12, <1>13, <1>14 DEF Talk

\* A server that is not calm faces a mate: both are paired and linked.
LEMMA Restless ==
  ASSUME Known, NEW s \in Servers, NEW t \in Servers, Both(s, t), Fine(s, t), ~ Calm(s)
  PROVE  /\ ~ Forming(s) /\ ~ Forming(t) /\ role[s] \in Paired /\ role[t] \in Paired
         /\ mate[s] = t /\ conn[s] = t /\ t \in slots[s]
         /\ mate[t] = s /\ conn[t] = s /\ s \in slots[t]
<1>1. ~ Forming(s) /\ ~ Forming(t)
  BY DEF Fine, Fed
<1>2. role[s] \in Paired /\ role[t] \in Paired
  BY <1>1 DEF Forming, Fine, Talk, Match, Paired
<1> QED
  BY <1>1, <1>2 DEF Forming, Fine, Talk, Linked

\* The ranges of the ticks and of the error count.
LEMMA DueType ==
  ASSUME Known, NEW t \in Servers
  PROVE  Due(t) \in 0 .. HbTicks /\ hbWait[t] \in 0 .. HbTicks /\ errCount[t] \in Nat /\ MAX_HEARTBEAT_ERROR_COUNT \in Nat
         /\ (hbTurn[t] /\ hbPc[t] \notin {"idle", "recv"} => Due(t) = 0)
         /\ (hbPc[t] \notin {"idle", "recv"} => Due(t) <= 1)
<1>1. hbWait[t] \in 0 .. HbTicks /\ hbTurn[t] \in BOOLEAN /\ HbTicks = 2
  BY DEF Known, ClockType, HbTicks
<1>2. Due(t) \in 0 .. HbTicks
  BY <1>1 DEF Due
<1>3. (hbTurn[t] /\ hbPc[t] \notin {"idle", "recv"} => Due(t) = 0)
      /\ (hbPc[t] \notin {"idle", "recv"} => Due(t) <= 1)
  BY <1>1 DEF Due
<1> QED BY <1>1, <1>2, <1>3, BoundAssumption DEF Known, TypeOK

\* What every step of s's heartbeat may use: the frame, the ranges, and that a
\* server which is not calm is one of a linked pair.
HbView(s, t) ==
  /\ HbFrame(s, t) /\ s # t /\ ~ quit[s]
  /\ role[s] \in Role \ {"ACTIVE_QUIT_ER"} /\ role[t] \in Role \ {"ACTIVE_QUIT_ER"}
  /\ Due(t)' = Due(t) /\ Forming(t)' = Forming(t) /\ GivesUp(t)' = GivesUp(t) /\ Calm(t)' = Calm(t)
  /\ hbPc'[t] = hbPc[t] /\ hbWait'[t] = hbWait[t] /\ hbTurn'[t] = hbTurn[t]
  /\ \A u \in {s, t} : Due(u) \in 0 .. 2 /\ hbWait[u] \in 0 .. 2 /\ errCount[u] \in Nat
  /\ MAX_HEARTBEAT_ERROR_COUNT \in Nat
  /\ ~ Calm(s) \/ ~ Calm(t) =>
       /\ ~ Forming(s) /\ ~ Forming(t) /\ role[s] \in Paired
       /\ mate[s] = t /\ conn[s] = t /\ t \in slots[s]
  /\ GivesUp(s) => ~ Calm(s)
  /\ GivesUp(t) => ~ Calm(t)
  /\ hbPc[t] = "recv" /\ hbWait[t] = 2 => ~ Calm(t)

\* What Fine says to a step of heartbeat.
LEMMA HbViews ==
  ASSUME Known, NEW s \in Servers, NEW t \in Servers, Both(s, t), Fine(s, t), TimedHeartbeat(s)
  PROVE  HbView(s, t)
<1> USE DEF HbTicks
<1>1. s # t /\ HbFrame(s, t)
  BY HbFrames DEF Both
<1>2. ~ quit[s] /\ role[s] \in Role \ {"ACTIVE_QUIT_ER"} /\ role[t] \in Role \ {"ACTIVE_QUIT_ER"}
  BY DEF Both, Alive, Known, SoloInv, Sound, TypeOK
<1>3. /\ Due(t)' = Due(t) /\ Forming(t)' = Forming(t) /\ GivesUp(t)' = GivesUp(t)
         /\ Calm(t)' = Calm(t)
      /\ hbPc'[t] = hbPc[t] /\ hbWait'[t] = hbWait[t] /\ hbTurn'[t] = hbTurn[t]
  BY <1>1 DEF HbFrame, Due, Forming, GivesUp, Calm, negVars
<1>4. /\ \A u \in {s, t} : Due(u) \in 0 .. 2 /\ hbWait[u] \in 0 .. 2 /\ errCount[u] \in Nat
      /\ MAX_HEARTBEAT_ERROR_COUNT \in Nat
  BY DueType
<1>5. ~ Calm(s) \/ ~ Calm(t) =>
        /\ ~ Forming(s) /\ ~ Forming(t) /\ role[s] \in Paired
        /\ mate[s] = t /\ conn[s] = t /\ t \in slots[s]
  <2>1. Both(t, s) /\ Fine(t, s)
    BY DEF Both, Fine
  <2> QED BY <2>1, Restless
<1>6. (GivesUp(s) => ~ Calm(s)) /\ (GivesUp(t) => ~ Calm(t))
  BY <1>4 DEF GivesUp, Calm
<1>7. hbPc[t] = "recv" /\ hbWait[t] = 2 => ~ Calm(t)
  BY DEF Calm
<1> QED
  BY <1>1, <1>2, <1>3, <1>4, <1>5, <1>6, <1>7 DEF HbView

\* A heartbeat over a channel to a living server is in its queue, or one like it.
LEMMA Delivered ==
  ASSUME Known, NEW s \in Servers, NEW t \in Servers, HbSend(s), conn[s] = t, t \in slots[s], Up(t)
  PROVE  hbq'[t] # <<>>
<1> DEFINE m == [from |-> s, text |-> TextOf(s, "PING")]
           equals == {i \in 1 .. Len(hbq[t]) : hbq[t][i] = m}
<1>1. t # Nobody /\ hbq[t] \in Seq(Heartbeat)
  BY NobodyAssumption DEF Known, TypeOK
<1>2. Deliver(s, t, m)
  BY <1>1 DEF HbSend, SendHeartbeat
<1>3. faults = 0 /\ MaxFaults = 0
  BY DEF Known, SoloInv, Healthy
<1>4. hbq' = IF Cardinality(equals) >= PingBound THEN hbq ELSE [hbq EXCEPT ![t] = Append(@, m)]
  BY <1>2, <1>3 DEF Deliver
<1>5. hbq[t] = <<>> => Cardinality(equals) = 0
  <2> SUFFICES ASSUME hbq[t] = <<>> PROVE equals = {}
    BY FS_EmptySet
  <2> QED BY <1>1
<1>6. CASE Cardinality(equals) >= PingBound
  BY <1>4, <1>5, <1>6, BoundAssumption DEF Known, Healthy
<1>7. CASE ~ (Cardinality(equals) >= PingBound)
  <2>1. hbq'[t] = Append(hbq[t], m)
    BY <1>4, <1>7 DEF Known, TypeOK
  <2>2. hbq[t] \in Seq(Heartbeat \union {m}) /\ m \in Heartbeat \union {m}
    BY <1>1
  <2> HIDE DEF m
  <2>3. Append(hbq[t], m) # <<>>
    BY <2>2
  <2> QED BY <2>1, <2>3
<1> QED BY <1>6, <1>7

\* The top of heartbeat's loop: idle without a mate, send with one.
LEMMA HbTopStep ==
  ASSUME Known, NEW s \in Servers, NEW t \in Servers, Both(s, t), Fine(s, t),
         TimedHeartbeat(s), HbTop(s), ~ quit'[s]
  PROVE  Fine(s, t)'
<1> USE DEF SetRole, GoHb, HbTicks
<1>1. HbView(s, t)
  BY HbViews
<1>2. /\ role'[s] = role[s] /\ hbPc'[s] \in {"idle", "send"} /\ hbPc[s] = "top"
      /\ hbPc'[s] = "send" <=> role[s] \in Paired
  BY <1>1 DEF HbTop, Known, TypeOK, shared, HbView
<1>3. errCount' = errCount /\ hbq' = hbq
  BY DEF HbTop, net
<1>4. Fed(s, t)'
  <2>1. Calm(s) => Calm(s)'
    BY <1>2, <1>3 DEF Calm
  <2>2. Forming(s)' = Forming(s)
    BY <1>1, <1>2 DEF HbFrame, Forming, negVars, HbView
  <2>3. GivesUp(s)' = GivesUp(s)
    BY <1>3 DEF GivesUp
  <2>4. Fed(s, t)
    BY DEF Fine
  <2> QED BY <1>1, <1>2, <1>3, <2>1, <2>2, <2>3, <2>4 DEF Fed, HbView
<1>5. Fed(t, s)'
  <2>1. role[s] \in Paired => Due(s)' = Due(s) /\ hbTurn'[s] = hbTurn[s]
    BY <1>1, <1>2 DEF Due, HbFrame, Known, ClockType, HbView
  <2>2. Forming(s)' = Forming(s)
    BY <1>1, <1>2 DEF HbFrame, Forming, negVars, HbView
  <2>3. Fed(t, s)
    BY DEF Fine
  <2> QED BY <1>1, <1>3, <2>1, <2>2, <2>3 DEF Fed, HbView
<1>6. Talk(s, t)' /\ Talk(t, s)'
  BY <1>1, <1>2, HbTalk DEF Fine, HbView
<1> QED
  BY <1>4, <1>5, <1>6 DEF Fine

\* The idle wait of a server without a mate ends, and clears the error count.
LEMMA HbIdleStep ==
  ASSUME Known, NEW s \in Servers, NEW t \in Servers, Both(s, t), Fine(s, t),
         TimedHeartbeat(s), HbIdle(s), ~ quit'[s]
  PROVE  Fine(s, t)'
<1> USE DEF SetRole, GoHb, HbTicks
<1>1. HbView(s, t)
  BY HbViews
<1>2. role'[s] = role[s] /\ hbPc'[s] = "top" /\ hbPc[s] = "idle"
  BY DEF HbIdle, Known, TypeOK, shared
<1>3. errCount'[s] = 0 /\ hbq' = hbq
  BY DEF HbIdle, net, Known, TypeOK
<1>4. Fed(s, t)'
  <2>1. Calm(s)' /\ ~ GivesUp(s)'
    BY <1>1, <1>2, <1>3 DEF Calm, GivesUp, HbView
  <2> QED BY <1>2, <2>1 DEF Fed
<1>5. Fed(t, s)'
  <2>1. hbTurn[s] => Due(s)' = 0 /\ hbTurn'[s]
    BY <1>1, <1>2 DEF Due, HbFrame, HbView
  <2>2. Forming(s)' = Forming(s)
    BY <1>1, <1>2 DEF HbFrame, Forming, negVars, HbView
  <2>3. Fed(t, s)
    BY DEF Fine
  <2> QED BY <1>1, <1>3, <2>1, <2>2, <2>3 DEF Fed, HbView
<1>6. Talk(s, t)' /\ Talk(t, s)'
  BY <1>1, <1>2, HbTalk DEF Fine, HbView
<1> QED
  BY <1>4, <1>5, <1>6 DEF Fine

\* A receive times out: it is not the last one, for then t's heartbeat would have
\* been there, and t's next one is due before the one that follows is over.
LEMMA HbTimeoutStep ==
  ASSUME Known, NEW s \in Servers, NEW t \in Servers, Both(s, t), Fine(s, t),
         TimedHeartbeat(s), HbTimeout(s), ~ quit'[s]
  PROVE  Fine(s, t)'
<1> USE DEF SetRole, GoHb, HbTicks
<1>1. HbView(s, t)
  BY HbViews
<1>2. hbPc[s] = "recv" /\ hbq[s] = <<>> /\ hbWait[s] = 2 /\ ~ GivesUp(s) /\ ~ Calm(s)
  <2>1. hbPc[s] = "recv" /\ hbq[s] = <<>> /\ hbWait[s] = 2
    BY <1>1 DEF HbTimeout, TimedHeartbeat, HbView
  <2>2. ~ GivesUp(s)
    BY <1>1, <2>1 DEF Fine, Fed, HbView
  <2> QED BY <2>1, <2>2 DEF Calm
<1>3. role'[s] = role[s] /\ hbPc'[s] = "top" /\ hbPc[s] = "recv"
  BY <1>2 DEF HbTimeout, Known, TypeOK, shared
<1>4. hbq' = hbq
  BY DEF HbTimeout, net
<1>5. Fed(s, t)'
  <2>1. Due(t) <= 1 /\ hbTurn[t]
    BY <1>2 DEF Fine, Fed
  <2>2. Forming(s)' = Forming(s)
    BY <1>1, <1>3 DEF HbFrame, Forming, negVars, HbView
  <2> QED BY <1>1, <1>2, <1>3, <2>1, <2>2 DEF Fed, HbView
<1>6. Fed(t, s)'
  <2>1. hbTurn[s] => Due(s)' = 0 /\ hbTurn'[s]
    BY <1>1, <1>3 DEF Due, HbFrame, HbView
  <2>2. Forming(s)' = Forming(s)
    BY <1>1, <1>3 DEF HbFrame, Forming, negVars, HbView
  <2>3. Fed(t, s)
    BY DEF Fine
  <2> QED BY <1>1, <1>4, <2>1, <2>2, <2>3 DEF Fed, HbView
<1>7. Talk(s, t)' /\ Talk(t, s)'
  BY <1>1, <1>3, HbTalk DEF Fine, HbView
<1> QED
  BY <1>5, <1>6, <1>7 DEF Fine

\* A heartbeat arrives, and is the mate's if there is one: the error count is 0.
LEMMA HbReceiveStep ==
  ASSUME Known, NEW s \in Servers, NEW t \in Servers, Both(s, t), Fine(s, t),
         TimedHeartbeat(s), HbReceive(s), ~ quit'[s]
  PROVE  Fine(s, t)'
<1> USE DEF SetRole, GoHb, HbTicks
<1>1. HbView(s, t)
  BY HbViews
<1>2. hbPc[s] = "recv" /\ hbq[s] # <<>> /\ hbq[s] \in Seq(Heartbeat) /\ hbq'[t] = hbq[t]
  BY <1>1 DEF HbReceive, Known, TypeOK, HbView
<1>3. role'[s] = role[s] /\ hbPc'[s] = "top" /\ hbPc[s] = "recv"
  BY DEF HbReceive, Known, TypeOK
<1>4. hbq'[t] = hbq[t]
  BY <1>2
<1>5. Head(hbq[s]).from = t /\ Head(hbq[s]).text \in {"PING", "QUIT"}
  <2>1. Len(hbq[s]) >= 1 /\ Head(hbq[s]) = hbq[s][1] /\ Head(hbq[s]) \in Heartbeat
    BY <1>2
  <2>2. hbq[s][1].from # s
    BY <2>1, <1>2 DEF Known, SoloInv, Stamped
  <2> QED BY <2>1, <2>2, <1>1 DEF Heartbeat, Known, Healthy, HbView
<1>6. mate[s] = t => errCount'[s] = 0
  <2>1. mate[s] = t /\ Head(hbq[s]).text = "QUIT" => quit'[s]
    BY <1>5 DEF HbReceive, Known, TypeOK
  <2> QED BY <1>5, <2>1 DEF HbReceive, Known, TypeOK
<1>7. errCount'[s] = 0 \/ errCount'[s] = errCount[s]
  BY DEF HbReceive, Known, TypeOK
<1>8. Fed(s, t)'
  <2>1. ~ GivesUp(s)'
    BY <1>1, <1>6, <1>7 DEF GivesUp, HbView
  <2>2. Calm(s)'
    BY <1>1, <1>3, <1>7, <2>1 DEF GivesUp, Calm, HbView
  <2> QED BY <1>3, <2>1, <2>2 DEF Fed
<1>9. Fed(t, s)'
  <2>1. hbTurn[s] => Due(s)' = 0 /\ hbTurn'[s]
    BY <1>1, <1>3 DEF Due, HbFrame, HbView
  <2>2. Forming(s)' = Forming(s)
    BY <1>1, <1>3 DEF HbFrame, Forming, negVars, HbView
  <2>3. Fed(t, s)
    BY DEF Fine
  <2> QED BY <1>1, <1>4, <2>1, <2>2, <2>3 DEF Fed, HbView
<1>10. Talk(s, t)' /\ Talk(t, s)'
  BY <1>1, <1>3, HbTalk DEF Fine, HbView
<1> QED
  BY <1>8, <1>9, <1>10 DEF Fine

\* A heartbeat is sent: what t may be waiting for at its last receive is there.
LEMMA HbSendStep ==
  ASSUME Known, NEW s \in Servers, NEW t \in Servers, Both(s, t), Fine(s, t),
         TimedHeartbeat(s), HbSend(s), ~ quit'[s]
  PROVE  Fine(s, t)'
<1> USE DEF SetRole, GoHb, HbTicks
<1>1. HbView(s, t)
  BY HbViews
<1>2. hbPc[s] = "send" /\ hbTurn[s] /\ conn[s] # s
  BY DEF HbSend, TimedHeartbeat, Known, SoloInv, Sound
<1>3. role'[s] = role[s] /\ hbPc'[s] = "recv" /\ hbPc[s] = "send"
  BY DEF HbSend, Known, TypeOK, shared
<1>4. errCount' = errCount
  BY DEF HbSend
<1>5. hbq'[s] = hbq[s]
  <2>1. CASE conn[s] = Nobody
    BY <2>1 DEF HbSend, SendHeartbeat
  <2>2. CASE conn[s] # Nobody
    BY <2>2, <1>2 DEF HbSend, SendHeartbeat, Deliver, Known, TypeOK
  <2> QED BY <2>1, <2>2
<1>6. ~ Calm(t) => hbq'[t] # <<>>
  BY <1>1, Delivered DEF HbView, Both, Alive
<1>7. Fed(s, t)'
  <2>1. hbWait'[s] = 0
    BY <1>1 DEF HbFrame, HbView
  <2>2. Calm(s) => Calm(s)'
    BY <1>1, <1>3, <1>4, <2>1 DEF Calm, HbView
  <2>3. Forming(s)' = Forming(s)
    BY <1>1, <1>3 DEF HbFrame, Forming, negVars, HbView
  <2>4. GivesUp(s)' = GivesUp(s)
    BY <1>4 DEF GivesUp
  <2>5. GivesUp(s) /\ hbq[s] = <<>> => Due(t) < 2 - 0 /\ hbTurn[t]
    BY <1>1, <1>2 DEF Fine, Fed, HbView
  <2>6. Forming(s) \/ Forming(t) => Calm(s)
    BY DEF Fine, Fed
  <2> QED BY <1>1, <1>3, <1>5, <2>1, <2>2, <2>3, <2>4, <2>5, <2>6 DEF Fed, HbView
<1>8. Fed(t, s)'
  <2>2. Forming(s)' = Forming(s)
    BY <1>1, <1>3 DEF HbFrame, Forming, negVars, HbView
  <2>3. Forming(s) \/ Forming(t) => Calm(t)
    BY DEF Fine, Fed
  <2> QED BY <1>1, <1>6, <2>2, <2>3 DEF Fed, HbView
<1>9. Talk(s, t)' /\ Talk(t, s)'
  BY <1>1, <1>3, HbTalk DEF Fine, HbView
<1> QED
  BY <1>7, <1>8, <1>9 DEF Fine

-----------------------------------------------------------------------------
(* 5. Both threads, the clock, a start, and each server by itself *)

\* No step of a living server's negotiate spoils a pair.
LEMMA NegFine ==
  ASSUME Known, NEW s \in Servers, NEW t \in Servers, Both(s, t), Fine(s, t), TimedNegotiate(s)
  PROVE  Fine(s, t)'
<1>1. s # t /\ NegFrame(s, t) /\ Talk(s, t) /\ Talk(t, s) /\ ~ quit[s]
  BY NegFrames DEF Both, Alive, Fine
<1>2. ~ NegLeave(s)
  BY <1>1 DEF NegLeave
<1>3. ~ NegDrop(s) /\ ~ NegBye(s)
  BY <1>1 DEF NegDrop, NegBye, Talk, Place
<1>4. ~ NegWidow(s)
  BY <1>1, NegWidowStep
<1>5. \/ NegStart(s) \/ NegTop(s) \/ NegPair(s) \/ NegConnect(s)
      \/ NegForeign(s) \/ NegTieBreak(s) \/ NegAdopt(s) \/ NegTurnAway(s)
      \/ NegFollow(s) \/ NegInactiveQuit(s) \/ NegIgnore(s) \/ NegTimeout(s)
  BY <1>2, <1>3, <1>4 DEF TimedNegotiate, Negotiate, NegProceed, NegReceive
<1>6. Talk(s, t)' /\ Talk(t, s)'
  BY <1>1, <1>5, NegStartStep, NegTopStep, NegPairStep, NegConnectStep, NegForeignStep,
     NegTieBreakStep, NegAdoptStep, NegTurnAwayStep, NegFollowStep, NegInactiveQuitStep,
     NegIgnoreStep, NegTimeoutStep
<1>7. Forming(s)' \/ Forming(t)' => Forming(s) \/ Forming(t)
  <2>1. CASE NegAdopt(s)
    BY <1>1, <2>1, NegAdoptStep DEF Forming
  <2>2. CASE ~ NegAdopt(s)
    <3>1. Forming(s)' => Forming(s)
      BY <1>5, <2>2 DEF Forming, NegStart, NegTop, NegPair, NegConnect, NegForeign, NegTieBreak,
         NegTurnAway, NegFollow, NegInactiveQuit, NegIgnore, NegTimeout, SetRole, GoNeg, Hears, shared,
         Known, TypeOK, ThreadInv
    <3>2. Forming(t)' => Forming(t)
      BY <1>1 DEF NegFrame, Forming
    <3> QED BY <3>1, <3>2
  <2> QED BY <2>1, <2>2
<1>8. hbPc' = hbPc /\ errCount' = errCount /\ hbq' = hbq /\ hbWait' = hbWait /\ hbTurn' = hbTurn
  BY <1>1 DEF NegFrame, hbVars
<1>9. /\ Calm(s)' = Calm(s) /\ Due(s)' = Due(s) /\ GivesUp(s)' = GivesUp(s)
      /\ Calm(t)' = Calm(t) /\ Due(t)' = Due(t) /\ GivesUp(t)' = GivesUp(t)
  BY <1>8 DEF Calm, Due, GivesUp
<1>10. Fed(s, t)' /\ Fed(t, s)'
  BY <1>7, <1>8, <1>9 DEF Fine, Fed
<1> QED
  BY <1>6, <1>10 DEF Fine

\* No step of its heartbeat does, unless it is told to quit.
LEMMA HbFine ==
  ASSUME Known, NEW s \in Servers, NEW t \in Servers, Both(s, t), Fine(s, t), TimedHeartbeat(s),
         ~ quit'[s]
  PROVE  Fine(s, t)'
<1>1. ~ HbSayQuit(s)
  BY DEF HbSayQuit, Fine, Talk, Place
<1>2. HbTop(s) \/ HbIdle(s) \/ HbSend(s) \/ HbReceive(s) \/ HbTimeout(s)
  BY <1>1 DEF TimedHeartbeat, HeartbeatThread
<1> QED
  BY <1>2, HbTopStep, HbIdleStep, HbSendStep, HbReceiveStep, HbTimeoutStep

\* Time passes only when both wait: nothing is on the air, so a server in a receive
\* has a linked mate, whose next heartbeat has come one tick nearer.
LEMMA TickFine ==
  ASSUME Known, NEW s \in Servers, NEW t \in Servers, Both(s, t), Fine(s, t), Tick
  PROVE  Fine(s, t)'
<1> SUFFICES ASSUME NEW a \in {s, t}, NEW b \in {s, t}, a # b
             PROVE  Talk(a, b)' /\ Fed(a, b)'
  BY DEF Fine, Both
<1>1. a \in Servers /\ b \in Servers /\ Both(a, b) /\ Talk(a, b) /\ Talk(b, a) /\ Fed(a, b)
      /\ Fed(b, a)
  BY DEF Both, Fine
<1>2. \A u \in {a, b} : negPc[u] = "recv" /\ udp[u] = <<>>
  <2> SUFFICES ASSUME NEW u \in {a, b} PROVE negPc[u] = "recv" /\ udp[u] = <<>>
    OBVIOUS
  <2>1. u \in Servers /\ Alive(u) /\ NegWaits(u) /\ MainWaits(u)
    BY <1>1 DEF Both, Tick
  <2>2. main[u] = "running" /\ ~ report[u]
    BY <2>1 DEF MainWaits, Alive, Up, Known, SoloInv, Sound
  <2> QED
    BY <2>1, <2>2 DEF NegWaits, Alive, Up, Known, SoloInv, Sound
<1>3. /\ udp' = udp /\ role' = role /\ hbPc' = hbPc /\ errCount' = errCount /\ hbq' = hbq
      /\ UNCHANGED <<mate, conn, slots, negPc, negRole, negCount, negPeer>>
  BY DEF Tick, vars, shared, negVars, hbVars, net
<1>4. Talk(a, b)'
  <2>1. /\ \A n : (Room(b, n)' <=> Room(b, n))
        /\ \A x, y, r : Told(x, y, r)' <=> Told(x, y, r)
        /\ Asked(a, b)' <=> Asked(a, b)
        /\ Asked(b, a)' <=> Asked(b, a)
        /\ Undone(a)' <=> Undone(a)
        /\ Undone(b)' <=> Undone(b)
    BY <1>3 DEF Room, Rounds, Asked, Told, Undone
  <2>2. OneTalk(a, b)'
    BY <1>1, <1>3 DEF Talk, OneTalk
  <2>3. Patient(a, b)' /\ Hushed(a, b)'
    BY <1>2, <1>3 DEF Patient, Hushed
  <2>4. Current(a)' /\ Place(a, b)' /\ Match(a, b)'
    BY <1>1, <1>3 DEF Talk, Current, Place, Match
  <2>5. Honest(a, b)'
    BY <1>1, <1>3, <2>1 DEF Talk, Honest, Beats
  <2>6. Answered(a, b)'
    BY <1>1, <1>3, <2>1 DEF Talk, Answered
  <2>7. InTime(a, b)'
    BY <1>1, <1>3, <2>1 DEF Talk, InTime, Beats
  <2>8. Linked(a, b)' /\ LinkedHalf(a, b)'
    BY <1>1, <1>3, <2>1 DEF Talk, Linked, LinkedHalf
  <2>9. Idles(a, b)'
    BY <1>1, <1>3, <2>1 DEF Talk, Idles
  <2> QED
    BY <2>2, <2>3, <2>4, <2>5, <2>6, <2>7, <2>8, <2>9 DEF Talk
<1>5. \A y, r : ~ Told(y, a, r) /\ ~ Told(y, b, r)
  BY <1>2, HasNone DEF Told
<1>6. hbPc[a] = "recv" => ~ Forming(a) /\ ~ Forming(b)
  <2> SUFFICES ASSUME hbPc[a] = "recv" PROVE ~ Forming(a) /\ ~ Forming(b)
    OBVIOUS
  <2>1. role[a] # "WHO_AM_I" /\ role[a] # "ACTIVE_QUIT_ER" /\ role[a] \in Role
    BY <1>1 DEF Known, ThreadInv, SoloInv, Sound, Both, Alive, TypeOK
  <2>2. Undone(b) => FALSE
    BY <1>1, <1>2, <1>5, <2>1 DEF Talk, Idles, Answered, Role, Paired, Asked
  <2> QED
    BY <1>2, <2>1, <2>2 DEF Forming, Undone
<1>7. \A u \in {a, b} :
        /\ hbWait[u] \in 0 .. HbTicks
        /\ \/ hbPc[u] = "recv" /\ hbq[u] = <<>> /\ hbWait[u] < HbTicks /\ hbWait'[u] = hbWait[u] + 1
           \/ hbPc[u] = "idle" /\ hbWait[u] < HbTicks /\ hbWait'[u] = hbWait[u] + 1
           \/ hbPc[u] = "send" /\ ~ hbTurn[u]
        /\ hbTurn'[u] = TRUE
  <2> SUFFICES ASSUME NEW u \in {a, b}
               PROVE  /\ hbWait[u] \in 0 .. HbTicks
                      /\ \/ hbPc[u] = "recv" /\ hbq[u] = <<>> /\ hbWait[u] < HbTicks
                            /\ hbWait'[u] = hbWait[u] + 1
                         \/ hbPc[u] = "idle" /\ hbWait[u] < HbTicks /\ hbWait'[u] = hbWait[u] + 1
                         \/ hbPc[u] = "send" /\ ~ hbTurn[u]
                      /\ hbTurn'[u] = TRUE
    OBVIOUS
  <2>1. u \in Servers /\ HbWaits(u) /\ hbPc[u] \in {"top", "idle", "send", "recv"}
    BY <1>1 DEF Tick, Talk, Place
  <2> QED
    BY <2>1 DEF HbWaits, Tick, Known, ClockType
<1>8. Due(b)' = Due(b) - 1 /\ Due(b) \in 0 .. HbTicks
  <2>1. CASE hbPc[b] = "recv" \/ hbPc[b] = "idle"
    <3>1. hbWait'[b] = hbWait[b] + 1 /\ hbWait[b] \in 0 .. HbTicks
      BY <1>7, <2>1
    <3>2. Due(b) = HbTicks - hbWait[b] /\ Due(b)' = HbTicks - hbWait'[b]
      BY <1>3, <2>1 DEF Due
    <3> QED BY <3>1, <3>2 DEF HbTicks
  <2>2. CASE hbPc[b] # "recv" /\ hbPc[b] # "idle"
    <3>1. ~ hbTurn[b] /\ hbTurn'[b]
      BY <1>7, <2>2
    <3>2. Due(b) = 1 /\ Due(b)' = 0
      BY <1>3, <2>2, <3>1 DEF Due
    <3> QED BY <3>2 DEF HbTicks
  <2> QED BY <2>1, <2>2
<1>9. Fed(a, b)'
  <2>1. Forming(a)' = Forming(a) /\ Forming(b)' = Forming(b) /\ GivesUp(a)' = GivesUp(a)
    BY <1>3 DEF Forming, GivesUp
  <2>2. hbPc[a] # "recv" => Calm(a)' = (errCount[a] <= MAX_HEARTBEAT_ERROR_COUNT)
    BY <1>3 DEF Calm
  <2>3. Calm(a) => errCount[a] <= MAX_HEARTBEAT_ERROR_COUNT
    BY DEF Calm
  <2>4. Forming(a)' \/ Forming(b)' => Calm(a)'
    BY <1>1, <1>6, <2>1, <2>2, <2>3 DEF Fed
  <2>5. hbPc'[a] = "recv" /\ hbWait'[a] = HbTicks /\ hbq'[a] = <<>> => Due(b)' <= 1 /\ hbTurn'[b]
    BY <1>7, <1>8 DEF HbTicks
  <2>6. GivesUp(a)' /\ hbq'[a] = <<>> =>
       /\ hbPc'[a] = "recv" => Due(b)' < HbTicks - hbWait'[a]
       /\ hbPc'[a] \in {"top", "send"} => Due(b)' <= 1
       /\ hbTurn'[b]
    BY <1>1, <1>3, <1>7, <1>8, <2>1 DEF HbTicks, Fed
  <2> QED BY <2>4, <2>5, <2>6 DEF Fed
<1> QED
  BY <1>4, <1>9

\* A server that is started where StartsApart allows it and the other are Fine.
LEMMA StartFine ==
  ASSUME Known, NEW s \in Servers, NEW t \in Servers, s # t, Start(s), StartsApart(s),
         Alive(t), UNCHANGED clock
  PROVE  Fine(s, t)'
<1>1. /\ role'[s] = "WHO_AM_I" /\ negPc'[s] = "start" /\ negCount'[s] = 0 /\ hbPc'[s] = "top"
      /\ errCount'[s] = 0 /\ udp'[s] = <<>> /\ quit'[s] = FALSE
  BY DEF Start, Fresh, Known, TypeOK
<1>2. /\ role'[t] = role[t] /\ mate'[t] = mate[t] /\ conn'[t] = conn[t] /\ slots'[t] = slots[t]
      /\ negPc'[t] = negPc[t] /\ negRole'[t] = negRole[t] /\ negCount'[t] = negCount[t]
      /\ negPeer'[t] = negPeer[t] /\ hbPc'[t] = hbPc[t] /\ errCount'[t] = errCount[t]
      /\ udp'[t] = udp[t] /\ negWait' = negWait /\ hbWait' = hbWait /\ hbTurn' = hbTurn
  BY DEF Start, Fresh, Known, TypeOK, clock
<1>3. main[t] = "running" /\ ~ report[t] /\ NegWaits(t) /\ HbWaits(t) /\ Up(t)
  BY DEF StartsApart, MainWaits, Alive, Up, Known, SoloInv, Sound
<1>4. negPc[t] = "recv" /\ udp[t] = <<>> /\ negWait[t] = 0 /\ negRole[t] = role[t]
  <2>1. negPc[t] = "recv" /\ udp[t] = <<>> /\ negWait[t] < NegTicks
    BY <1>3 DEF NegWaits, Alive, Known, SoloInv, Sound
  <2>2. negWait[t] = 0
    BY <2>1 DEF Known, ClockType, NegTicks
  <2> QED BY <2>1, <2>2 DEF StartsApart
<1>5. hbPc[t] \in {"idle", "send", "recv"} /\ (hbPc[t] = "recv" => hbWait[t] < HbTicks)
      /\ errCount[t] <= MAX_HEARTBEAT_ERROR_COUNT
  BY <1>3 DEF HbWaits, StartsApart, Alive, Known, SoloInv, Sound
<1>6. /\ \A y, r : ~ Told(y, s, r)' /\ ~ Told(y, t, r)'
      /\ Undone(s)'
  BY <1>1, <1>2, <1>4, HasNone DEF Told, Undone
<1>7. OneTalk(s, t)' /\ OneTalk(t, s)'
  <2>1. Flights(<<>>, <<>>, s, t) /\ Flights(<<>>, <<>>, t, s)
    BY FlightAsk
  <2> QED BY <1>1, <1>2, <1>4, <2>1 DEF OneTalk
<1>8. Room(s, 4)' /\ Room(s, 2)' /\ Room(s, 0)'
  <2>1. Rounds(s)' = 0
    BY <1>1, <1>6 DEF Rounds, Asked
  <2> QED BY <2>1, BoundAssumption DEF Room, Known, Healthy
<1>9. Undone(t)' => Room(t, 4)'
  <2> DEFINE M == NEGOTIATE_MAX_COUNT
             c == negCount[t]
  <2>1. Rounds(t)' = c /\ c \in Nat /\ M \in Nat
    BY <1>2, <1>6, BoundAssumption DEF Rounds, Asked, Known, TypeOK
  <2>2. Undone(t)' => c + StartGap <= M
    BY <1>2, <1>3 DEF StartsApart, Undone
  <2>3. StartGap \in Nat /\ StartGap >= 4
    BY DEF Known, Healthy
  <2> HIDE DEF c, M
  <2>4. Undone(t)' => c + 4 <= M
    BY <2>1, <2>2, <2>3
  <2> QED BY <2>1, <2>4 DEF Room, M
<1>10. Patient(s, t)' /\ Patient(t, s)' /\ Hushed(s, t)' /\ Hushed(t, s)'
  BY <1>1, <1>2, <1>4 DEF Patient, Hushed
<1>11. Current(s)' /\ Current(t)' /\ Place(s, t)' /\ Place(t, s)' /\ Match(s, t)' /\ Match(t, s)'
  BY <1>1, <1>2, <1>4, <1>5 DEF Current, Place, Match
<1>12. Honest(s, t)' /\ Honest(t, s)' /\ Answered(s, t)' /\ Answered(t, s)'
  BY <1>1, <1>2, <1>4, <1>6 DEF Honest, Answered, Asked, Paired
<1>13. InTime(s, t)' /\ InTime(t, s)'
  BY <1>1, <1>8, <1>9 DEF InTime, Paired
<1>14. Linked(s, t)' /\ Linked(t, s)' /\ LinkedHalf(s, t)' /\ LinkedHalf(t, s)' /\ Idles(s, t)'
       /\ Idles(t, s)'
  BY <1>1, <1>2, <1>4, <1>6 DEF Linked, LinkedHalf, Idles, Paired
<1>15. Fed(s, t)' /\ Fed(t, s)'
  <2>1. Calm(s)' /\ Calm(t)' /\ ~ GivesUp(s)' /\ ~ GivesUp(t)'
    BY <1>1, <1>2, <1>5, BoundAssumption, SMTT(30) DEF Calm, GivesUp, Known, TypeOK
  <2> QED BY <1>1, <1>2, <1>5, <2>1 DEF Fed, HbTicks, Known, ClockType
<1> QED
  BY <1>7, <1>10, <1>11, <1>12, <1>13, <1>14, <1>15 DEF Fine, Talk

\* The waits end in time, so their counters stay in range.
LEMMA ClockNext ==
  ASSUME Known, [TimedNext]_timedVars
  PROVE  ClockType'
<1> USE DEF ClockType, NegTicks, HbTicks
<1>1. CASE Tick
  BY <1>1 DEF Tick, Known, NegWaits, HbWaits
<1>2. ASSUME NEW s \in Servers, TimedNegotiate(s) PROVE ClockType'
  BY <1>2 DEF TimedNegotiate, Known
<1>3. ASSUME NEW s \in Servers, TimedHeartbeat(s) PROVE ClockType'
  BY <1>3 DEF TimedHeartbeat, Known
<1>4. ASSUME NEW s \in Servers, TimedMain(s) \/ Outside(s) PROVE ClockType'
  BY <1>4 DEF TimedMain, Outside, clock, Known
<1>5. CASE UNCHANGED timedVars
  BY <1>5 DEF timedVars, clock, Known
<1> QED
  BY <1>1, <1>2, <1>3, <1>4, <1>5 DEF TimedNext

\* A step of s keeps what holds of s by itself.
LEMMA SoundStep ==
  ASSUME TypeOK, ThreadInv, NEW s \in Servers, Sound(s),
         \/ Negotiate(s) \/ HeartbeatThread(s) \/ Main(s)
         \/ Start(s) \/ MainKey(s) \/ Crash(s)
  PROVE  Sound(s)'
<1> USE DEF shared, negVars, hbVars, net, budget, SetRole, GoNeg, GoHb, Up, Alive
<1>1. CASE NegProceed(s)
  BY <1>1, NobodyAssumption DEF Sound, TypeOK, ThreadInv, NegProceed, NegStart, NegLeave,
     NegTop, NegPair, NegConnect, NegDrop, NegBye, Claims, Connect
<1>2. CASE NegReceive(s)
  <2>1. CASE NegForeign(s) \/ NegTurnAway(s) \/ NegIgnore(s)
    BY <2>1 DEF Sound, TypeOK, NegForeign, NegTurnAway, NegIgnore, Hears
  <2>2. CASE NegTieBreak(s) \/ NegWidow(s)
    BY <2>2 DEF Sound, TypeOK, NegTieBreak, NegWidow, Hears
  <2>3. CASE NegAdopt(s) \/ NegFollow(s)
    BY <2>3 DEF Sound, TypeOK, NegAdopt, NegFollow, Hears, Foreign
  <2>4. CASE NegInactiveQuit(s)
    BY <2>4 DEF Sound, TypeOK, ThreadInv, NegInactiveQuit, Hears
  <2> QED BY <1>2, <2>1, <2>2, <2>3, <2>4 DEF NegReceive
<1>3. CASE NegTimeout(s)
  BY <1>3 DEF Sound, TypeOK, NegTimeout
<1>4. CASE HeartbeatThread(s)
  BY <1>4 DEF Sound, TypeOK, ThreadInv, HeartbeatThread, HbTop, HbIdle, HbSend, HbReceive,
     HbTimeout, HbSayQuit
<1>5. ASSUME Fresh(s, "off", "off", "off") PROVE Sound(s)'
  <2>1. /\ main'[s] = "off" /\ role'[s] = "WHO_AM_I" /\ negPc'[s] = "off" /\ hbPc'[s] = "off"
        /\ negCount'[s] = 0 /\ conn'[s] = Nobody /\ mate'[s] = Nobody /\ negPeer'[s] = Nobody
    BY <1>5 DEF Fresh, TypeOK
  <2> QED BY <2>1, NobodyAssumption DEF Sound
<1>6. ASSUME Fresh(s, "running", "start", "top") PROVE Sound(s)'
  <2>1. /\ main'[s] = "running" /\ role'[s] = "WHO_AM_I" /\ negPc'[s] = "start" /\ hbPc'[s] = "top"
        /\ negCount'[s] = 0 /\ conn'[s] = Nobody /\ mate'[s] = Nobody /\ negPeer'[s] = Nobody
    BY <1>6 DEF Fresh, TypeOK
  <2> QED BY <2>1, NobodyAssumption DEF Sound
<1>7. CASE Main(s)
  <2>1. CASE MainReport(s)
    BY <2>1 DEF Sound, TypeOK, MainReport, BeginUninit
  <2>2. CASE EndUninit(s)
    BY <2>2, <1>5 DEF EndUninit
  <2> QED BY <1>7, <2>1, <2>2 DEF Main
<1>8. CASE Start(s) \/ MainKey(s) \/ Crash(s)
  <2>1. CASE MainKey(s)
    BY <2>1 DEF Sound, TypeOK, MainKey, BeginUninit
  <2>2. CASE Start(s)
    BY <2>2, <1>6 DEF Start
  <2>3. CASE Crash(s)
    BY <2>3, <1>5 DEF Crash
  <2> QED BY <1>8, <2>1, <2>2, <2>3
<1> QED
  BY <1>1, <1>2, <1>3, <1>4, <1>7, <1>8 DEF Negotiate

\* A step of s changes nothing that is said of another server by itself.
LEMMA OtherSame ==
  ASSUME TypeOK, NEW s \in Servers, NEW t \in Servers, s # t,
         \/ Negotiate(s) \/ HeartbeatThread(s) \/ Main(s)
         \/ Start(s) \/ MainKey(s) \/ Crash(s)
  PROVE  Sound(t) => Sound(t)'
<1> USE DEF shared, negVars, hbVars, net, budget, SetRole, GoNeg, GoHb
<1> DEFINE Same == /\ main'[t] = main[t] /\ role'[t] = role[t] /\ mate'[t] = mate[t] /\ conn'[t] = conn[t]
                   /\ quit'[t] = quit[t] /\ report'[t] = report[t] /\ negPc'[t] = negPc[t]
                   /\ negCount'[t] = negCount[t] /\ negPeer'[t] = negPeer[t] /\ hbPc'[t] = hbPc[t]
<1>1. ASSUME NegProceed(s) PROVE Same
  BY <1>1 DEF TypeOK, NegProceed, NegStart, NegLeave, NegTop, NegPair, NegConnect, NegDrop,
     NegBye, Connect
<1>2. ASSUME NegReceive(s) PROVE Same
  BY <1>2 DEF TypeOK, NegReceive, NegForeign, NegTieBreak, NegAdopt, NegTurnAway, NegFollow,
     NegWidow, NegInactiveQuit, NegIgnore, CountRound
<1>3. ASSUME NegTimeout(s) PROVE Same
  BY <1>3 DEF TypeOK, NegTimeout, CountRound
<1>4. ASSUME HeartbeatThread(s) PROVE Same
  BY <1>4 DEF TypeOK, HeartbeatThread, HbTop, HbIdle, HbSend, HbReceive, HbTimeout, HbSayQuit
<1>5. ASSUME Main(s) PROVE Same
  BY <1>5 DEF TypeOK, Main, MainReport, EndUninit, BeginUninit, Fresh
<1>6. ASSUME Start(s) \/ MainKey(s) \/ Crash(s) PROVE Same
  BY <1>6 DEF TypeOK, Start, MainKey, Crash, BeginUninit, Fresh
<1>7. Same
  BY <1>1, <1>2, <1>3, <1>4, <1>5, <1>6 DEF Negotiate
<1> QED
  BY <1>7 DEF Sound, Up, Alive

\* No queue gets a heartbeat of its own server: no channel leads to oneself.
LEMMA StampedStep ==
  ASSUME TypeOK, NEW s \in Servers, conn[s] # s, NEW t \in Servers, Stamped(t),
         \/ Negotiate(s) \/ HeartbeatThread(s) \/ Main(s)
         \/ Start(s) \/ MainKey(s) \/ Crash(s)
  PROVE  Stamped(t)'
<1> USE DEF shared, negVars, hbVars, net, budget, SetRole, GoNeg, GoHb
<1>1. ASSUME hbq' = hbq PROVE Stamped(t)'
  BY <1>1 DEF Stamped
<1>2. CASE Negotiate(s)
  BY <1>1, <1>2 DEF Negotiate, NegProceed, NegReceive, NegStart, NegLeave, NegTop, NegPair,
     NegConnect, NegDrop, NegBye, NegForeign, NegTieBreak, NegAdopt, NegTurnAway, NegFollow,
     NegWidow, NegInactiveQuit, NegIgnore, NegTimeout
<1>3. CASE HbTop(s) \/ HbIdle(s) \/ HbTimeout(s)
  BY <1>1, <1>3 DEF HbTop, HbIdle, HbTimeout
<1>4. CASE HbReceive(s)
  <2>1. CASE t # s
    BY <1>4, <2>1 DEF HbReceive, Stamped, TypeOK
  <2>2. CASE t = s
    <3>1. hbq[s] \in Seq(Heartbeat) /\ hbq[s] # <<>> /\ hbq'[s] = Tail(hbq[s])
      BY <1>4 DEF HbReceive, TypeOK
    <3>2. \A i \in 1 .. Len(hbq'[s]) : i + 1 \in 1 .. Len(hbq[s]) /\ hbq'[s][i] = hbq[s][i + 1]
      BY <3>1
    <3> QED BY <2>2, <3>2 DEF Stamped
  <2> QED BY <2>1, <2>2
<1>5. ASSUME NEW x, SendHeartbeat(s, x) PROVE Stamped(t)'
  <2> DEFINE m == [from |-> s, text |-> TextOf(s, x)]
             c == conn[s]
  <2>1. CASE conn[s] = Nobody
    BY <1>1, <1>5, <2>1 DEF SendHeartbeat
  <2>2. CASE conn[s] # Nobody
    <3>1. Deliver(s, c, m) /\ c \in Servers /\ c # s
      BY <1>5, <2>2 DEF SendHeartbeat, TypeOK
    <3>2. hbq' = hbq \/ hbq' = [hbq EXCEPT ![c] = Append(@, m)]
      BY <3>1 DEF Deliver
    <3>3. CASE hbq' = [hbq EXCEPT ![c] = Append(@, m)]
      <4>1. CASE t # c
        BY <3>1, <3>3, <4>1 DEF Stamped, TypeOK
      <4>2. CASE t = c
        <5>0. m.from = s
          OBVIOUS
        <5> HIDE DEF m, c
        <5>1. hbq'[c] = Append(hbq[c], m) /\ hbq[c] \in Seq(Heartbeat)
          BY <3>1, <3>3 DEF TypeOK
        <5>2. \A i \in 1 .. Len(hbq'[c]) : hbq'[c][i] = m \/ (i \in 1 .. Len(hbq[c]) /\ hbq'[c][i] = hbq[c][i])
          <6> DEFINE q == hbq[c]
                     T == Heartbeat \union {m}
          <6>1. q \in Seq(T) /\ m \in T
            BY <5>1
          <6> HIDE DEF q, T
          <6>2. \A i \in 1 .. Len(Append(q, m)) : Append(q, m)[i] = m \/ (i \in 1 .. Len(q) /\ Append(q, m)[i] = q[i])
            BY <6>1
          <6> QED BY <5>1, <6>2 DEF q
        <5> QED BY <3>1, <4>2, <5>0, <5>2 DEF Stamped
      <4> QED BY <4>1, <4>2
    <3> QED BY <1>1, <3>2, <3>3
  <2> QED BY <2>1, <2>2
<1>6. CASE HbSend(s) \/ HbSayQuit(s)
  BY <1>5, <1>6 DEF HbSend, HbSayQuit
<1>7. CASE Main(s) \/ Start(s) \/ MainKey(s) \/ Crash(s)
  <2>1. hbq' = hbq \/ hbq' = [hbq EXCEPT ![s] = <<>>]
    BY <1>7 DEF Main, MainReport, EndUninit, Start, MainKey, Crash, BeginUninit, Fresh
  <2>2. CASE hbq' = [hbq EXCEPT ![s] = <<>>]
    BY <2>2 DEF Stamped, TypeOK
  <2> QED BY <1>1, <2>1, <2>2
<1> QED
  BY <1>2, <1>3, <1>4, <1>6, <1>7 DEF HeartbeatThread

\* Where the network is allowed no fault it has none.
LEMMA FaultsStep ==
  ASSUME Healthy, faults = 0, NEW s \in Servers,
         \/ Negotiate(s) \/ HeartbeatThread(s) \/ Main(s)
         \/ Start(s) \/ MainKey(s) \/ Crash(s)
  PROVE  faults' = 0
<1> USE DEF shared, negVars, hbVars, net, budget, SetRole, GoNeg, GoHb
<1>1. MaxFaults = 0
  BY DEF Healthy
<1>2. ASSUME NEW r, NEW b, Broadcast(s, r, b) PROVE faults' = 0
  BY <1>1, <1>2 DEF Broadcast
<1>3. ASSUME NEW x, SendHeartbeat(s, x) PROVE faults' = 0
  BY <1>1, <1>3 DEF SendHeartbeat, Deliver
<1>4. ASSUME NEW x, Connect(s, x) PROVE faults' = 0
  BY <1>1, <1>4 DEF Connect
<1>5. CASE NegStart(s) \/ NegBye(s) \/ NegAdopt(s) \/ NegTurnAway(s) \/ NegTimeout(s)
  BY <1>2, <1>5 DEF NegStart, NegBye, NegAdopt, NegTurnAway, NegTimeout, Announce
<1>6. CASE NegLeave(s) \/ NegTop(s) \/ NegPair(s) \/ NegConnect(s) \/ NegDrop(s)
  BY <1>4, <1>6 DEF NegLeave, NegTop, NegPair, NegConnect, NegDrop
<1>7. CASE NegForeign(s) \/ NegTieBreak(s) \/ NegFollow(s) \/ NegWidow(s) \/ NegInactiveQuit(s) \/ NegIgnore(s)
  BY <1>7 DEF NegForeign, NegTieBreak, NegFollow, NegWidow, NegInactiveQuit, NegIgnore
<1>8. CASE HeartbeatThread(s)
  BY <1>3, <1>8 DEF HeartbeatThread, HbTop, HbIdle, HbSend, HbReceive, HbTimeout, HbSayQuit
<1>9. CASE Main(s) \/ Start(s) \/ MainKey(s) \/ Crash(s)
  BY <1>9 DEF Main, MainReport, EndUninit, Start, MainKey, Crash, BeginUninit, Fresh
<1> QED
  BY <1>5, <1>6, <1>7, <1>8, <1>9 DEF Negotiate, NegProceed, NegReceive

\* Every step keeps what holds of each server by itself.
LEMMA SoloNext ==
  ASSUME Known, [TimedNext]_timedVars
  PROVE  SoloInv'
<1>1. CASE UNCHANGED vars
  BY <1>1 DEF Known, SoloInv, Sound, Stamped, vars, shared, negVars, hbVars, net, budget, Alive, Up
<1>2. CASE Next
  <2> PICK s \in Servers :
        \/ Negotiate(s) \/ HeartbeatThread(s) \/ Main(s)
        \/ Start(s) \/ MainKey(s) \/ Crash(s)
    BY <1>2 DEF Next
  <2>1. faults' = 0
    BY FaultsStep DEF Known, SoloInv
  <2>2. ASSUME NEW t \in Servers PROVE Sound(t)' /\ Stamped(t)'
    <3>1. Sound(s) /\ Sound(t) /\ Stamped(t) /\ TypeOK /\ ThreadInv
      BY DEF Known, SoloInv
    <3>2. Stamped(t)'
      BY <3>1, StampedStep DEF Sound
    <3>3. Sound(t)'
      BY <3>1, SoundStep, OtherSame
    <3> QED BY <3>2, <3>3
  <2> QED BY <2>1, <2>2 DEF SoloInv
<1> QED
  BY <1>1, <1>2, TimedStep

-----------------------------------------------------------------------------
(* 6. Never more than one primary *)

\* Nothing happens to the pair.
LEMMA StillFine ==
  ASSUME NEW s \in Servers, NEW t \in Servers, Fine(s, t), UNCHANGED timedVars
  PROVE  Fine(s, t)'
<1> USE DEF timedVars, clock, vars, shared, negVars, hbVars, net
<1>1. /\ \A x, y, r : Told(x, y, r)' <=> Told(x, y, r)
      /\ Asked(s, t)' <=> Asked(s, t)
      /\ Asked(t, s)' <=> Asked(t, s)
      /\ \A n : (Room(s, n)' <=> Room(s, n)) /\ (Room(t, n)' <=> Room(t, n))
      /\ Undone(s)' <=> Undone(s)
      /\ Undone(t)' <=> Undone(t)
  BY DEF Told, Asked, Room, Rounds, Undone
<1>2. Talk(s, t)'
  BY <1>1 DEF Fine, Talk, OneTalk, Patient, Current, Place, Match, Hushed, Honest, Answered,
     InTime, Linked, LinkedHalf, Idles, Beats
<1>3. Talk(t, s)'
  BY <1>1 DEF Fine, Talk, OneTalk, Patient, Current, Place, Match, Hushed, Honest, Answered,
     InTime, Linked, LinkedHalf, Idles, Beats
<1>4. Fed(s, t)' /\ Fed(t, s)'
  BY DEF Fine, Fed, Forming, Calm, Due, GivesUp
<1> QED
  BY <1>2, <1>3, <1>4 DEF Fine

\* Whoever moves, two living servers are Fine afterwards.
LEMMA PairNext ==
  ASSUME Known, PairInv, [TimedNext]_timedVars
  PROVE  PairInv'
<1> SUFFICES ASSUME NEW s \in Servers, NEW t \in Servers, Both(s, t)' PROVE Fine(s, t)'
  BY DEF PairInv
<1>1. s # t /\ main'[s] # "off" /\ main'[t] # "off" /\ ~ quit'[s] /\ ~ quit'[t]
  BY DEF Both, Alive, Up
<1>2. CASE Tick
  <2>1. Both(s, t)
    BY <1>2, <1>1 DEF Tick, vars, shared, Both, Alive, Up
  <2> QED BY <1>2, <2>1, TickFine DEF PairInv
<1>3. CASE UNCHANGED timedVars
  <2>1. Both(s, t)
    BY <1>3, <1>1 DEF timedVars, vars, shared, Both, Alive, Up
  <2> QED BY <1>3, <2>1, StillFine DEF PairInv
<1>4. ASSUME NEW u \in Servers, TimedNegotiate(u) \/ TimedHeartbeat(u) \/ TimedMain(u) \/ Outside(u)
      PROVE  Fine(s, t)'
  <2>1. PICK v \in {s, t} : u # v /\ {u, v} = {s, t}
    BY <1>1 DEF Known, Healthy
  <2>2. v \in Servers /\ u # v /\ main'[u] # "off" /\ main'[v] # "off" /\ ~ quit'[u] /\ ~ quit'[v]
    BY <1>1, <2>1
  <2>3. SUFFICES Fine(u, v)'
    BY <2>1 DEF Fine
  <2>4. CASE TimedNegotiate(u)
    <3>1. Both(u, v)
      BY <2>2, <2>4, NegFrames DEF NegFrame, Both, Alive, Up
    <3> QED BY <2>2, <2>4, <3>1, NegFine DEF PairInv
  <2>5. CASE TimedHeartbeat(u)
    <3>1. Both(u, v)
      <4>1. HbFrame(u, v)
        BY <2>2, <2>5, HbFrames
      <4> QED BY <2>2, <4>1 DEF HbFrame, Both, Alive, Up
    <3> QED BY <2>2, <2>5, <3>1, HbFine DEF PairInv
  <2>6. ~ TimedMain(u)
    BY <2>2 DEF TimedMain, Main, MainReport, EndUninit, BeginUninit, Fresh, Known, TypeOK
  <2>7. CASE Outside(u)
    <3>1. ~ MainKey(u) /\ ~ Crash(u)
      BY <2>2 DEF MainKey, Crash, BeginUninit, Fresh, Known, TypeOK
    <3>2. Start(u) /\ StartsApart(u) /\ UNCHANGED clock
      BY <2>7, <3>1 DEF Outside
    <3>3. Alive(v)
      BY <2>2, <3>2 DEF Start, Fresh, Alive, Up, Known, TypeOK
    <3> QED BY <2>2, <3>2, <3>3, StartFine
  <2> QED BY <1>4, <2>4, <2>5, <2>6, <2>7
<1> QED
  BY <1>2, <1>3, <1>4 DEF TimedNext

\* Where no server runs the invariant holds.
LEMMA OneInit == ASSUME Healthy, TimedInit PROVE OneInv
<1>1. IInv
  BY InitInv DEF TimedInit
<1>2. ClockType
  BY DEF TimedInit, ClockType, NegTicks, HbTicks
<1>3. SoloInv
  <2>1. Nobody \notin Servers
    BY NobodyAssumption
  <2> QED BY <2>1 DEF TimedInit, Init, SoloInv, Sound, Stamped, Up, Alive
<1>4. PairInv
  BY DEF TimedInit, Init, PairInv, Both, Alive, Up
<1> QED
  BY <1>1, <1>2, <1>3, <1>4 DEF OneInv

\* Every step of the timed protocol keeps it.
LEMMA OneNext == ASSUME OneInv, [TimedNext]_timedVars PROVE OneInv'
<1>1. Known
  BY DEF OneInv, Known, IInv
<1>2. IInv'
  BY TimedStep, NextInv DEF OneInv
<1>3. Healthy'
  BY DEF OneInv, Healthy
<1> QED
  BY <1>1, <1>2, <1>3, ClockNext, SoloNext, PairNext DEF OneInv

\* Of two servers that Match at most one serves.
LEMMA OneMeans == ASSUME OneInv PROVE AtMostOnePrimary
<1> SUFFICES ASSUME NEW s \in Primaries, NEW t \in Primaries, s # t PROVE FALSE
  BY DEF AtMostOnePrimary
<1>1. s \in Servers /\ t \in Servers
  BY DEF Primaries
<1>2. Alive(s) /\ Alive(t)
  BY DEF OneInv, IInv, ThreadInv, SoloInv, Sound, Primaries, Alive
<1>3. Match(s, t)
  BY <1>1, <1>2 DEF OneInv, PairInv, Both, Fine, Talk
<1> QED
  BY <1>3 DEF Match, Primaries

\* Never more than one primary: the tie-break of negotiate by address, the adoption of
\* the one that asks and the claim after NEGOTIATE_MAX_COUNT rounds leave no
\* instant at which two servers both believe they serve, whatever crashes, quits
\* and restarts come between.
THEOREM OnePrimary == Healthy => (TimedSpec => []AtMostOnePrimary)
<1>1. Healthy /\ TimedInit => OneInv
  BY OneInit
<1>2. OneInv /\ [TimedNext]_timedVars => OneInv'
  BY OneNext
<1>3. OneInv => AtMostOnePrimary
  BY OneMeans
<1> QED
  BY <1>1, <1>2, <1>3, PTL DEF TimedSpec

-----------------------------------------------------------------------------
(* 7. Only a lost mate is given up *)

\* What a socket holds after a datagram arrived.
LEMMA HasAppend ==
  ASSUME NEW S, NEW q \in Seq(S), NEW m \in S, NEW x, NEW r, Has(Append(q, m), x, r)
  PROVE  Has(q, x, r) \/ m = Msg(x, r)
<1>1. PICK i \in 1 .. Len(Append(q, m)) : Append(q, m)[i] = Msg(x, r)
  BY DEF Has
<1>2. (i \in 1 .. Len(q) /\ Append(q, m)[i] = q[i]) \/ Append(q, m)[i] = m
  OBVIOUS
<1> QED BY <1>1, <1>2 DEF Has

\* What it held before one was taken.
LEMMA HasTail ==
  ASSUME NEW S, NEW q \in Seq(S), q # <<>>, NEW x, NEW r, Has(Tail(q), x, r)
  PROVE  Has(q, x, r)
<1>1. PICK i \in 1 .. Len(Tail(q)) : Tail(q)[i] = Msg(x, r)
  BY DEF Has
<1>2. i + 1 \in 1 .. Len(q) /\ Tail(q)[i] = q[i + 1]
  OBVIOUS
<1> QED BY <1>1, <1>2 DEF Has

\* It holds its first datagram.
LEMMA HasHead ==
  ASSUME NEW q \in Seq(Datagram), q # <<>>
  PROVE  Has(q, Head(q).from, Head(q).role) /\ Head(q) \in Datagram
<1>1. Head(q) = q[1] /\ 1 \in 1 .. Len(q) /\ q[1] \in Datagram
  OBVIOUS
<1> QED BY <1>1 DEF Has, Msg, Datagram

\* A step of u's negotiate brings no question of v's, unless u is v and undecided.
LEMMA AskedAfter ==
  ASSUME Known, NEW u \in Servers, NEW v \in Servers, NEW w \in Servers, TimedNegotiate(u),
         ~ Asked(v, w), u = v => role[u] # "WHO_AM_I"
  PROVE  ~ Asked(v, w)'
<1> USE DEF shared, negVars, hbVars, net, budget, SetRole, GoNeg
<1>1. Negotiate(u) /\ udp[w] \in Seq(Datagram) /\ role[u] \in Role
      /\ (udp[w] # <<>> => Tail(udp[w]) \in Seq(Datagram))
  BY DEF TimedNegotiate, Known, TypeOK
<1>2. udp[u] # <<>> => Received(u)[w] \in Seq(Datagram) /\ ~ Has(Received(u)[w], v, "WHO_AM_I")
  <2>1. Received(u)[w] = IF w = u THEN Tail(udp[w]) ELSE udp[w]
    BY DEF Received, Known, TypeOK
  <2> QED BY <1>1, <2>1, HasTail DEF Asked, Told
<1>3. ASSUME NEW b, Announce(u, b), b[w] \in Seq(Datagram), ~ Has(b[w], v, "WHO_AM_I"),
             u = v => role[u] # "WHO_AM_I"
      PROVE  ~ Asked(v, w)'
  <2> DEFINE m == Msg(u, role[u])
  <2>1. udp'[w] = b[w] \/ udp'[w] = Append(b[w], m)
    BY <1>3 DEF Announce, Broadcast, Msg
  <2>2. m \in Datagram /\ m # Msg(v, "WHO_AM_I")
    BY <1>1, <1>3, MsgIs DEF Msg, Datagram
  <2> HIDE DEF m
  <2>3. ~ Has(Append(b[w], m), v, "WHO_AM_I")
    BY <1>3, <2>2, HasAppend
  <2> QED BY <1>3, <2>1, <2>3 DEF Asked, Told
<1>4. CASE udp' = udp
  BY <1>4 DEF Asked, Told
<1>5. ASSUME udp' = Received(u), udp[u] # <<>> PROVE ~ Asked(v, w)'
  BY <1>2, <1>5 DEF Asked, Told
<1>6. CASE NegStart(u) \/ NegBye(u) \/ NegTimeout(u)
  BY <1>1, <1>3, <1>4, <1>6 DEF NegStart, NegBye, NegTimeout, Asked, Told
<1>7. CASE NegAdopt(u) \/ NegTurnAway(u)
  BY <1>2, <1>3, <1>7 DEF NegAdopt, NegTurnAway, Hears
<1>8. CASE NegForeign(u) \/ NegTieBreak(u) \/ NegFollow(u) \/ NegWidow(u) \/ NegInactiveQuit(u) \/ NegIgnore(u)
  BY <1>5, <1>8 DEF NegForeign, NegTieBreak, NegFollow, NegWidow, NegInactiveQuit, NegIgnore, Hears
<1>9. CASE NegLeave(u) \/ NegTop(u) \/ NegPair(u) \/ NegConnect(u) \/ NegDrop(u)
  BY <1>4, <1>9 DEF NegLeave, NegTop, NegPair, NegConnect, NegDrop
<1> QED
  BY <1>1, <1>6, <1>7, <1>8, <1>9 DEF Negotiate, NegProceed, NegReceive

\* A server that is told to quit while it is Fine keeps its mate's prospects.
LEMMA FineKept ==
  ASSUME Known, NEW s \in Servers, NEW t \in Servers, Both(s, t), Fine(s, t), GivesUp(s),
         hbPc[s] \in {"send", "recv"}
  PROVE  Kept(s, t)
<1>1. errCount[s] \in Nat /\ MAX_HEARTBEAT_ERROR_COUNT \in Nat /\ Due(t) \in 0 .. HbTicks
      /\ HbTicks = 2
  BY DueType DEF HbTicks
<1>2. ~ Calm(s)
  BY <1>1 DEF GivesUp, Calm
<1>3. /\ ~ Forming(s) /\ ~ Forming(t) /\ role[s] \in Paired /\ role[t] \in Paired
      /\ conn[t] = s /\ s \in slots[t]
  BY <1>2, Restless
<1>4. ~ Asked(s, t)
  BY <1>3 DEF Fine, Talk, Honest, Paired
<1>5. Nursed(s, t)
  BY <1>1 DEF Fine, Fed, Nursed
<1> QED
  BY <1>3, <1>4, <1>5 DEF Kept, Forming

\* They last as long as nothing of them changes.
LEMMA KeptStill ==
  ASSUME NEW s \in Servers, NEW t \in Servers, Kept(s, t), ~ Asked(s, t)',
         role'[t] = role[t], negPc'[t] = negPc[t], conn'[t] = conn[t], slots'[t] = slots[t],
         hbq' = hbq, hbPc' = hbPc, hbWait' = hbWait, hbTurn' = hbTurn
  PROVE  Kept(s, t)'
<1>1. Due(t)' = Due(t)
  BY DEF Due
<1>2. Nursed(s, t)' = Nursed(s, t)
  BY <1>1 DEF Nursed
<1> QED BY <1>2 DEF Kept

\* They last through the quitting server's negotiate,
LEMMA PartNegSelf ==
  ASSUME Known, NEW s \in Servers, NEW t \in Servers, PartInv, TimedNegotiate(s), Waning(s, t)'
  PROVE  Kept(s, t)'
<1>1. s # t
  BY DEF Waning
<1>2. NegFrame(s, t)
  BY <1>1, NegFrames
<1>3. hbq' = hbq /\ hbPc' = hbPc /\ errCount' = errCount /\ hbWait' = hbWait /\ hbTurn' = hbTurn
      /\ main' = main /\ quit' = quit
  BY <1>2 DEF NegFrame, hbVars
<1>4. Waning(s, t)
  BY <1>3 DEF Waning, Up, Alive, GivesUp
<1>5. Kept(s, t) /\ role[s] # "WHO_AM_I"
  BY <1>4 DEF PartInv, Waning, Known, ThreadInv
<1>6. ~ Asked(s, t)'
  BY <1>5, AskedAfter DEF Kept
<1> QED
  BY <1>2, <1>3, <1>5, <1>6, KeptStill DEF NegFrame

\* through the living one's: it is decided, is asked nothing, and so does not start
\* to pair again,
LEMMA PartNegOther ==
  ASSUME Known, NEW s \in Servers, NEW t \in Servers, PartInv, TimedNegotiate(t), Waning(s, t)'
  PROVE  Kept(s, t)'
<1> USE DEF SetRole, GoNeg
<1>1. s # t
  BY DEF Waning
<1>2. NegFrame(t, s)
  BY <1>1, NegFrames
<1>3. hbq' = hbq /\ hbPc' = hbPc /\ errCount' = errCount /\ hbWait' = hbWait /\ hbTurn' = hbTurn
      /\ main' = main /\ quit' = quit
  BY <1>2 DEF NegFrame, hbVars
<1>4. Waning(s, t)
  BY <1>3 DEF Waning, Up, Alive, GivesUp
<1>5. Kept(s, t) /\ role[t] # "WHO_AM_I" /\ ~ quit[t]
  BY <1>4 DEF PartInv, Waning, Kept, Alive
<1>6. ~ Asked(s, t)'
  BY <1>1, <1>5, AskedAfter DEF Kept
<1>7. ~ NegAdopt(t)
  <2> SUFFICES ASSUME NegAdopt(t) PROVE FALSE
    OBVIOUS
  <2>1. udp[t] # <<>> /\ Head(udp[t]).from # t /\ Head(udp[t]).role = "WHO_AM_I"
        /\ udp[t] \in Seq(Datagram)
    BY DEF NegAdopt, Hears, Foreign, Known, TypeOK
  <2>2. Has(udp[t], Head(udp[t]).from, "WHO_AM_I") /\ Head(udp[t]).from \in Servers
    BY <2>1, HasHead DEF Datagram
  <2>3. Head(udp[t]).from = s
    BY <2>1, <2>2, <1>1 DEF Known, Healthy
  <2> QED BY <2>2, <2>3, <1>5 DEF Kept, Asked, Told
<1>8. ~ NegFollow(t) /\ ~ NegStart(t) /\ ~ NegLeave(t)
  BY <1>5 DEF NegFollow, Hears, NegStart, NegLeave, Known, ThreadInv
<1>9. /\ role'[t] # "WHO_AM_I"
      /\ role'[t] \in Paired => role[t] \in Paired /\ negPc'[t] \notin {"pair", "connect"}
         /\ conn'[t] = conn[t] /\ slots'[t] = slots[t]
  <2>1. CASE NegTop(t) \/ NegTimeout(t)
    BY <2>1, <1>5 DEF NegTop, NegTimeout, Known, TypeOK, shared, Paired
  <2>2. CASE NegPair(t) \/ NegConnect(t) \/ NegDrop(t)
    BY <2>2, <1>5 DEF NegPair, NegConnect, NegDrop, Known, TypeOK, ThreadInv, Kept
  <2>3. CASE NegBye(t) \/ NegForeign(t) \/ NegTurnAway(t) \/ NegIgnore(t) \/ NegInactiveQuit(t)
    BY <2>3, <1>5 DEF NegBye, NegForeign, NegTurnAway, NegIgnore, NegInactiveQuit, Known,
       TypeOK, shared
  <2>4. CASE NegTieBreak(t) \/ NegWidow(t)
    BY <2>4, <1>5 DEF NegTieBreak, NegWidow, Known, TypeOK, Paired
  <2> QED
    BY <1>7, <1>8, <2>1, <2>2, <2>3, <2>4 DEF TimedNegotiate, Negotiate, NegProceed, NegReceive
<1>10. Nursed(s, t)' = Nursed(s, t)
  BY <1>3 DEF Nursed, Due
<1> QED
  BY <1>5, <1>6, <1>9, <1>10 DEF Kept

\* through the quitting server's last send,
LEMMA PartHbSelf ==
  ASSUME Known, NEW s \in Servers, NEW t \in Servers, PartInv, TimedHeartbeat(s), Waning(s, t)'
  PROVE  Kept(s, t)'
<1> USE DEF SetRole, GoHb
<1>1. s # t /\ hbPc'[s] \in {"send", "recv"} /\ quit'[s]
  BY DEF Waning
<1>2. HbFrame(s, t)
  BY <1>1, HbFrames
<1>3. HbSend(s)
  <2>1. HbTop(s) => quit'[s] = quit[s] /\ ~ quit[s]
    BY <1>1 DEF HbTop, Known, TypeOK, shared
  <2>2. ~ HbIdle(s) /\ ~ HbReceive(s) /\ ~ HbTimeout(s) /\ ~ HbSayQuit(s)
    BY <1>1 DEF HbIdle, HbReceive, HbTimeout, HbSayQuit, Known, TypeOK
  <2> QED BY <1>1, <2>1, <2>2 DEF TimedHeartbeat, HeartbeatThread
<1>4. hbPc[s] = "send" /\ hbPc'[s] = "recv" /\ errCount' = errCount /\ quit' = quit
      /\ role' = role /\ conn[s] # s
  BY <1>3 DEF HbSend, Known, TypeOK, shared, SoloInv, Sound
<1>5. hbq'[s] = hbq[s]
  <2>1. CASE conn[s] = Nobody
    BY <1>3, <2>1 DEF HbSend, SendHeartbeat
  <2>2. CASE conn[s] # Nobody
    BY <1>3, <1>4, <2>2 DEF HbSend, SendHeartbeat, Deliver, Known, TypeOK
  <2> QED BY <2>1, <2>2
<1>6. Waning(s, t)
  BY <1>2, <1>4 DEF Waning, HbFrame, Up, Alive, GivesUp
<1>7. Kept(s, t)
  BY <1>6 DEF PartInv
<1>8. Due(t)' = Due(t) /\ hbTurn'[t] = hbTurn[t] /\ hbWait'[s] = 0
  BY <1>2 DEF Due, HbFrame
<1>9. Nursed(s, t) => Nursed(s, t)'
  BY <1>4, <1>5, <1>8 DEF Nursed, HbTicks
<1> QED
  BY <1>2, <1>4, <1>7, <1>9 DEF Kept, HbFrame, negVars, Asked, Told

\* through the living one's heartbeat, which brings its next message nearer or sends it,
LEMMA PartHbOther ==
  ASSUME Known, NEW s \in Servers, NEW t \in Servers, PartInv, TimedHeartbeat(t), Waning(s, t)'
  PROVE  Kept(s, t)'
<1> USE DEF SetRole, GoHb
<1>1. s # t /\ ~ quit'[t]
  BY DEF Waning, Alive
<1>2. HbFrame(t, s)
  BY <1>1, HbFrames
<1>3. Waning(s, t)
  BY <1>1, <1>2 DEF Waning, HbFrame, Up, Alive, GivesUp
<1>4. Kept(s, t) /\ ~ quit[t]
  BY <1>3 DEF PartInv, Waning, Alive
<1>5. HbTop(t) \/ HbIdle(t) \/ HbSend(t) \/ HbReceive(t) \/ HbTimeout(t) \/ HbSayQuit(t)
  BY DEF TimedHeartbeat, HeartbeatThread
<1>6. role'[t] # "WHO_AM_I" /\ (role'[t] \in Paired => role'[t] = role[t])
  BY <1>4, <1>5 DEF HbTop, HbIdle, HbSend, HbReceive, HbTimeout, HbSayQuit, Kept, Known, TypeOK,
     shared, Paired
<1>7. role'[t] \in Paired => Nursed(s, t)'
  <2> SUFFICES ASSUME role'[t] \in Paired PROVE Nursed(s, t)'
    OBVIOUS
  <2>1. role[t] \in Paired /\ Nursed(s, t) /\ conn[t] = s /\ s \in slots[t] /\ Up(s)
    BY <1>3, <1>4, <1>6 DEF Kept, Waning
  <2>2. hbPc'[s] = hbPc[s] /\ hbWait'[s] = hbWait[s] /\ hbTurn'[t] = (hbTurn[t] /\ hbPc[t] # "send")
    BY <1>2 DEF HbFrame
  <2>3. Due(t) \in 0 .. 2 /\ hbWait[s] \in 0 .. 2 /\ hbWait[t] \in 0 .. 2 /\ HbTicks = 2
    BY DueType DEF HbTicks
  <2>4. CASE HbTop(t)
    <3>1. hbPc'[t] = "send" /\ hbPc[t] = "top" /\ hbq' = hbq
      BY <2>1, <2>4, <1>4 DEF HbTop, Known, TypeOK, net
    <3>2. Due(t)' = Due(t)
      BY <2>2, <3>1 DEF Due
    <3> QED BY <2>1, <2>2, <3>1, <3>2 DEF Nursed
  <2>5. CASE HbIdle(t) \/ HbTimeout(t) \/ HbReceive(t) \/ HbSayQuit(t)
    <3>1. hbPc'[t] \notin {"idle", "recv"} /\ hbPc[t] # "send"
      BY <2>5, <1>6 DEF HbIdle, HbTimeout, HbReceive, HbSayQuit, Known, TypeOK, Paired
    <3>2. hbTurn[t] => Due(t)' = 0 /\ hbTurn'[t]
      BY <2>2, <3>1 DEF Due
    <3>3. hbq'[s] = <<>> => hbq[s] = <<>>
      <4>1. CASE HbSayQuit(t)
        <5> DEFINE m == [from |-> t, text |-> TextOf(t, "QUIT")]
        <5>1. SUFFICES ASSUME hbq' # hbq PROVE hbq'[s] # <<>>
          OBVIOUS
        <5>2. Deliver(t, s, m) \/ hbq' = hbq
          BY <2>1, <4>1 DEF HbSayQuit, SendHeartbeat, net
        <5>3. hbq' = [hbq EXCEPT ![s] = Append(@, m)] /\ hbq[s] \in Seq(Heartbeat)
          BY <5>1, <5>2 DEF Deliver, Known, TypeOK
        <5>4. hbq'[s] = Append(hbq[s], m) /\ hbq[s] \in Seq(Heartbeat \union {m})
              /\ m \in Heartbeat \union {m}
          BY <5>3 DEF Known, TypeOK
        <5> HIDE DEF m
        <5>5. Append(hbq[s], m) # <<>>
          BY <5>4
        <5> QED BY <5>4, <5>5
      <4>2. CASE HbIdle(t) \/ HbTimeout(t) \/ HbReceive(t)
        BY <1>1, <4>2 DEF HbIdle, HbTimeout, HbReceive, Known, TypeOK, net
      <4> QED BY <2>5, <4>1, <4>2
    <3>4. Due(t)' = 0 => Due(t)' < (IF hbPc[s] = "recv" THEN HbTicks - hbWait[s] ELSE HbTicks) \/ ~ Nursed(s, t) \/ hbq[s] # <<>>
      BY <2>3 DEF Nursed
    <3> QED BY <2>1, <2>2, <3>2, <3>3, <3>4 DEF Nursed
  <2>6. CASE HbSend(t)
    <3>1. hbq'[s] # <<>>
      BY <2>1, <2>6, Delivered
    <3> QED BY <3>1 DEF Nursed
  <2> QED BY <1>5, <2>4, <2>5, <2>6
<1> QED
  BY <1>2, <1>4, <1>6, <1>7 DEF Kept, HbFrame, negVars, Asked, Told

\* through the key that tells a server to quit,
LEMMA PartQuit ==
  ASSUME Known, NEW s \in Servers, NEW t \in Servers, PairInv, PartInv, Waning(s, t)',
         Up(s), Alive(t),
         UNCHANGED <<role, mate, conn, slots, negPc, hbVars, net, hbWait, hbTurn>>
  PROVE  Kept(s, t)'
<1>1. s # t /\ GivesUp(s) /\ hbPc[s] \in {"send", "recv"}
  BY DEF Waning, GivesUp, hbVars
<1>2. CASE quit[s]
  <2>1. Kept(s, t)
    BY <1>1, <1>2 DEF Waning, PartInv
  <2> QED
    BY <2>1, KeptStill DEF Kept, hbVars, net, Asked, Told
<1>3. CASE ~ quit[s]
  <2>1. Both(s, t)
    BY <1>1, <1>3 DEF Both, Alive
  <2>2. Kept(s, t)
    BY <1>1, <2>1, FineKept DEF PairInv
  <2> QED
    BY <2>2, KeptStill DEF Kept, hbVars, net, Asked, Told
<1> QED
  BY <1>2, <1>3

\* and through time, which brings that message nearer too.
LEMMA PartTick ==
  ASSUME Known, NEW s \in Servers, NEW t \in Servers, PartInv, Tick, Waning(s, t)'
  PROVE  Kept(s, t)'
<1>1. /\ UNCHANGED <<udp, role, conn, slots, negPc, hbPc, errCount, hbq, main, quit>>
      /\ HbWaits(s) /\ HbWaits(t)
  BY DEF Tick, vars, shared, negVars, hbVars, net
<1>2. Waning(s, t)
  BY <1>1 DEF Waning, Up, Alive, GivesUp
<1>3. Kept(s, t) /\ hbPc[s] \in {"send", "recv"} /\ s # t
  BY <1>2 DEF PartInv, Waning
<1>4. hbPc[t] \notin {"off", "done"}
  BY <1>2 DEF Waning, Alive, Known, SoloInv, Sound
<1>5. Due(t) \in 0 .. 2 /\ hbWait[s] \in 0 .. 2 /\ hbWait[t] \in 0 .. 2 /\ HbTicks = 2
  BY DueType DEF HbTicks
<1>6. Due(t)' = Due(t) - 1
  <2>1. CASE hbPc[t] \in {"idle", "recv"}
    <3>1. hbWait'[t] = hbWait[t] + 1
      BY <2>1 DEF Tick
    <3> QED BY <1>1, <1>5, <2>1, <3>1 DEF Due
  <2>2. CASE hbPc[t] \notin {"idle", "recv"}
    <3>1. ~ hbTurn[t] /\ hbTurn'[t]
      BY <1>1, <1>4, <2>2 DEF HbWaits, Tick
    <3>2. Due(t) = 1 /\ Due(t)' = 0
      BY <1>1, <2>2, <3>1 DEF Due
    <3> QED BY <3>2
  <2> QED BY <2>1, <2>2
<1>7. (hbPc[s] = "recv" => hbWait'[s] = hbWait[s] + 1) /\ hbTurn'[t]
  BY DEF Tick
<1>8. Nursed(s, t) => Nursed(s, t)'
  BY <1>1, <1>5, <1>6, <1>7 DEF Nursed
<1> QED
  BY <1>1, <1>3, <1>8 DEF Kept, Asked, Told

\* Every step of the timed protocol keeps PartInv.
LEMMA PartNext ==
  ASSUME Known, PairInv, PartInv, [TimedNext]_timedVars
  PROVE  PartInv'
<1> SUFFICES ASSUME NEW s \in Servers, NEW t \in Servers, Waning(s, t)' PROVE Kept(s, t)'
  BY DEF PartInv
<1>1. /\ s # t /\ main'[s] # "off" /\ main'[t] # "off" /\ quit'[s] /\ ~ quit'[t]
      /\ hbPc'[s] \in {"send", "recv"} /\ errCount'[s] > MAX_HEARTBEAT_ERROR_COUNT
  BY DEF Waning, Alive, Up, GivesUp
<1>2. CASE Tick
  BY <1>2, PartTick
<1>3. CASE UNCHANGED timedVars
  <2> USE DEF timedVars, clock, vars, shared, negVars, hbVars, net
  <2>1. Up(s) /\ Alive(t)
    BY <1>1, <1>3 DEF Up, Alive
  <2> QED BY <1>3, <2>1, PartQuit
<1>4. ASSUME NEW u \in Servers, TimedNegotiate(u) \/ TimedHeartbeat(u) \/ TimedMain(u) \/ Outside(u)
      PROVE  Kept(s, t)'
  <2>1. u = s \/ u = t
    BY <1>1 DEF Known, Healthy
  <2>2. CASE TimedNegotiate(u)
    BY <2>1, <2>2, PartNegSelf, PartNegOther
  <2>3. CASE TimedHeartbeat(u)
    BY <2>1, <2>3, PartHbSelf, PartHbOther
  <2>4. CASE TimedMain(u) \/ (MainKey(u) /\ UNCHANGED clock)
    <3>1. ~ EndUninit(u)
      BY <1>1, <2>1 DEF EndUninit, Fresh, Known, TypeOK
    <3>2. BeginUninit(u) /\ UNCHANGED clock
      BY <2>4, <3>1 DEF TimedMain, Main, MainReport, MainKey
    <3>3. Up(s) /\ Alive(t)
      BY <1>1, <2>1, <3>2 DEF BeginUninit, Up, Alive, Known, TypeOK
    <3>4. UNCHANGED <<role, mate, conn, slots, negPc, hbVars, net, hbWait, hbTurn>>
      BY <3>2 DEF BeginUninit, clock, negVars
    <3> QED BY <3>3, <3>4, PartQuit
  <2>5. ~ Crash(u)
    BY <1>1, <2>1, SMTT(30) DEF Crash, Fresh, Known, TypeOK
  <2>6. ~ (Start(u) /\ StartsApart(u))
    <3> SUFFICES ASSUME Start(u), StartsApart(u) PROVE FALSE
      OBVIOUS
    <3>1. u = t
      BY <1>1, <2>1 DEF Start, Fresh, Known, TypeOK
    <3>2. errCount'[s] = errCount[s] /\ errCount[s] <= MAX_HEARTBEAT_ERROR_COUNT
      BY <1>1, <3>1 DEF Start, StartsApart, Fresh, Known, TypeOK
    <3>3. errCount[s] \in Nat /\ MAX_HEARTBEAT_ERROR_COUNT \in Nat
      BY DueType
    <3> QED BY <1>1, <3>2, <3>3
  <2> QED BY <1>4, <2>2, <2>3, <2>4, <2>5, <2>6 DEF Outside
<1> QED
  BY <1>2, <1>3, <1>4 DEF TimedNext

\* Where no server runs both invariants hold.
LEMMA FullInit == ASSUME Healthy, TimedInit PROVE OneInv /\ PartInv
<1>1. PartInv
  BY DEF TimedInit, Init, PartInv, Waning, Up
<1> QED BY <1>1, OneInit

\* Every step keeps both.
LEMMA FullNext == ASSUME OneInv, PartInv, [TimedNext]_timedVars PROVE OneInv' /\ PartInv'
<1>1. Known /\ PairInv
  BY DEF OneInv, Known, IInv
<1> QED
  BY <1>1, OneNext, PartNext

\* The step in which s gives t up: it is the end of a receive at the last error,
\* where the invariants put t's heartbeat into s's queue if t still holds s.
LEMMA GivesUpLost ==
  ASSUME OneInv, PartInv, [TimedNext]_timedVars, NEW s \in Servers, NEW t \in Servers,
         hbPc[s] = "recv", hbPc'[s] = "sayquit", mate[s] = t
  PROVE  ~ (Up(t) /\ role[t] \in Paired /\ mate[t] = s /\ ~ quit[t])
<1>1. Known /\ PairInv
  BY DEF OneInv, Known, IInv
<1>2. SUFFICES ASSUME Up(t), role[t] \in Paired, mate[t] = s, ~ quit[t] PROVE FALSE
  OBVIOUS
<1>3. s # t /\ Alive(t)
  BY <1>1, <1>2 DEF Alive, Known, SoloInv, Sound
<1>4. HbTimeout(s) /\ TimedHeartbeat(s) /\ GivesUp(s)
  <2>1. ~ Tick /\ ~ UNCHANGED timedVars
    BY DEF Tick, timedVars, vars, hbVars
  <2>2. PICK u \in Servers : TimedNegotiate(u) \/ TimedHeartbeat(u) \/ TimedMain(u) \/ Outside(u)
    BY <2>1 DEF TimedNext
  <2>3. ~ TimedNegotiate(u)
    <3> SUFFICES ASSUME TimedNegotiate(u) PROVE FALSE
      OBVIOUS
    <3>1. PICK v \in Servers : v # u
      BY <1>3
    <3> QED BY <1>1, <3>1, NegFrames DEF NegFrame, hbVars
  <2>4. ~ TimedMain(u) /\ ~ Outside(u)
    <3>1. ASSUME Fresh(u, "off", "off", "off") \/ Fresh(u, "running", "start", "top")
          PROVE  hbPc'[s] # "sayquit"
      <4>1. hbPc' = [hbPc EXCEPT ![u] = "off"] \/ hbPc' = [hbPc EXCEPT ![u] = "top"]
        BY <3>1 DEF Fresh
      <4>2. hbPc = [v \in Servers |-> hbPc[v]]
        BY <1>1 DEF Known, TypeOK
      <4> QED BY <4>1, <4>2
    <3>2. BeginUninit(u) => hbPc'[s] # "sayquit"
      BY DEF BeginUninit, hbVars
    <3> QED BY <3>1, <3>2 DEF TimedMain, Main, MainReport, EndUninit, Outside, MainKey, Start, Crash
  <2>5. u = s
    BY <1>1, <2>2, <2>3, <2>4, HbFrames DEF HbFrame
  <2>6. HbTimeout(s) /\ TimedHeartbeat(s)
    BY <1>1, <2>2, <2>3, <2>4, <2>5 DEF TimedHeartbeat, HeartbeatThread, HbTop, HbIdle, HbSend,
       HbReceive, HbTimeout, HbSayQuit, GoHb, Known, TypeOK
  <2>7. GivesUp(s)
    BY <1>1, <2>6 DEF HbTimeout, GoHb, Known, TypeOK
  <2> QED BY <2>6, <2>7
<1>5. hbq[s] = <<>> /\ hbWait[s] = 2 /\ HbTicks = 2 /\ Due(t) \in 0 .. 2
  BY <1>1, <1>4, DueType DEF HbTimeout, TimedHeartbeat, HbTicks
<1>6. Up(s)
  BY <1>1 DEF Known, SoloInv, Sound
<1>7. Kept(s, t)
  <2>1. CASE quit[s]
    BY <1>1, <1>3, <1>4, <1>6, <2>1 DEF PartInv, Waning
  <2>2. CASE ~ quit[s]
    BY <1>1, <1>3, <1>4, <1>6, <2>2, FineKept DEF PairInv, Both, Alive
  <2> QED BY <2>1, <2>2
<1> QED
  BY <1>2, <1>5, <1>7 DEF Kept, Nursed

\* Only a lost mate is given up: heartbeat's MAX_HEARTBEAT_ERROR_COUNT receives
\* outlast the mate's idle wait, its connecting and the error count left from
\* an earlier pairing, so it says QUIT only to a mate that is down, is quitting or
\* no longer holds it.
THEOREM OnlyTheLost == Healthy => (TimedSpec => GivesUpOnlyTheLost)
<1>1. Healthy /\ TimedInit => OneInv /\ PartInv
  BY FullInit
<1>2. (OneInv /\ PartInv) /\ [TimedNext]_timedVars => (OneInv /\ PartInv)'
  BY FullNext
<1>3. (OneInv /\ PartInv) /\ [TimedNext]_timedVars =>
        [\A s, t \in Servers :
           hbPc[s] = "recv" /\ hbPc'[s] = "sayquit" /\ mate[s] = t =>
             ~ (Up(t) /\ role[t] \in Paired /\ mate[t] = s /\ ~ quit[t])]_timedVars
  BY GivesUpLost
<1> QED
  BY <1>1, <1>2, <1>3, PTL DEF TimedSpec, GivesUpOnlyTheLost

=============================================================================
