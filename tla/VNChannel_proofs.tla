------------------------- MODULE VNChannel_proofs -------------------------
(***************************************************************************)
(* Proofs about VNChannel, for any layout of a message, any number of      *)
(* connections and calls, and any buffer: its types, that an untorn        *)
(* connection stays in frame, and that no message arrives twice.           *)
(***************************************************************************)
EXTENDS VNChannel, FiniteSetTheorems, SequenceTheorems, TLAPS

-----------------------------------------------------------------------------
(* What is to be shown of a stream of bytes s, of a connection that has    *)
(* carried the messages q, d of which are through, when L gives the length *)
(* of every message.                                                       *)

\* It consists of bytes of messages.
Consists(s, L) ==
  \A i \in 1 .. Len(s) : s[i][1] \in DOMAIN L /\ s[i][2] \in 1 .. L[s[i][1]]

\* It begins with the first byte of the message that is next.
Begins(s, q, d) == s # <<>> => d < Len(q) /\ s[1] = <<q[d + 1], 1>>

\* It runs on to the end of each message.
Runs(s, L) ==
  \A i \in 1 .. Len(s), e \in 0 .. Len(s) :
    i + e <= Len(s) /\ s[i][2] + e <= L[s[i][1]] => s[i + e] = <<s[i][1], s[i][2] + e>>

\* There it goes over to the next one.
Joins(s, q, L) ==
  \A i \in 1 .. Len(s) - 1 :
    s[i][2] = L[s[i][1]] =>
      \E m \in 1 .. Len(q) - 1 : s[i][1] = q[m] /\ s[i + 1] = <<q[m + 1], 1>>

\* It ends where the sender is, which has written p bytes of a message.
Ends(s, q, d, L, p) ==
  IF s = <<>> THEN d = Len(q) /\ p = 0
  ELSE s[Len(s)] = <<q[Len(q)], IF p > 0 THEN p ELSE L[q[Len(q)]]>>

\* Where the sender is when m bytes of a message of l are written.
After(m, l) == IF m = l THEN 0 ELSE m

\* What the reader, which is in state r, has of a message is less than it
\* waits for, and that is the length of the message.
Waits(r, g, w, L) ==
  /\ r = "header" => Len(g) < EndOfHeader
  /\ r = "body" => g # <<>> /\ Len(g) < w /\ w = L[g[1][1]]

\* No byte that is the last one of its message is both in s and in t.
Apart(s, t, L) ==
  \A i \in 1 .. Len(s), j \in 1 .. Len(t) : s[i][2] = L[s[i][1]] => s[i] # t[j]

\* No two bytes of s are the last one of a message.
Single(s, L) ==
  \A i, j \in 1 .. Len(s) : s[i][2] = L[s[i][1]] /\ s[i] = s[j] => i = j

\* No byte of s is the last one of message k.
Lacks(s, k, L) == \A i \in 1 .. Len(s) : s[i] # <<k, L[k]>>

\* It is what comes after the first a bytes of message k, n bytes of it.
IsPiece(s, k, a, n) ==
  s \in Seq(Byte) /\ Len(s) = n /\ \A i \in 1 .. n : s[i] = <<k, a + i>>

\* After a write to the connection that has carried q, it has carried r: the
\* first piece of message k makes k the last one.
Carries(q, r, k, a) == IF a = 0 THEN r = Append(q, k) ELSE r = q /\ q # <<>> /\ q[Len(q)] = k

\* It is the part of t that follows its first o bytes.
IsPart(s, t, o) == \A i \in 1 .. Len(s) : o + i \in 1 .. Len(t) /\ s[i] = t[o + i]

\* Its first message has n bytes.
FirstHas(s, n, L) == n = L[s[1][1]]

\* b is the first n bytes of s, and t the others.
Splits(s, b, t, n) ==
  Len(b) = n /\ Len(s) = n + Len(t) /\ IsPart(b, s, 0) /\ IsPart(t, s, n)

\* q and r have the same first n elements; q is the first part of r.
Agree(q, r, n) == \A i \in 1 .. n : r[i] = q[i]
Starts(q, r) == Len(q) <= Len(r) /\ Agree(q, r, Len(q))

\* M tells what L does of the messages that L knows.
Extends(L, M) == \A k \in DOMAIN L : k \in DOMAIN M /\ M[k] = L[k]

\* Message k, whole.
Whole(k, L) == [i \in 1 .. L[k] |-> <<k, i>>]

\* Those of the first n messages of a queue q that are from connection c.
Handed(q, n, c) == {j \in 1 .. n : q[j].conn = c}

Rising(q) == \A i, j \in 1 .. Len(q) : i < j => q[i] < q[j]

-----------------------------------------------------------------------------

Lengths == [k \in 1 .. This |-> FrameLength(k)]

\* Per connection: what its reader still has to hand over, with what it has of
\* it already.
Stream == [c \in Conns |-> got[c] \o wire[c]]

\* Per connection: how many messages its reader has handed over.
Delivered == [c \in Conns |-> Cardinality(Handed(queue, Len(queue), c))]

\* The bytes are those of messages that were sent.
BytesInv ==
  /\ \A c \in Conns : Consists(Stream[c], Lengths)
  /\ \A m \in 1 .. Len(queue) : Consists(queue[m].bytes, Lengths)

\* Where the sender is.
PcInv ==
  /\ sndPc # "idle" => This > 0
  /\ sndPc \in {"idle", "reconnect"} => sndPos = 0
  /\ sndPc = "reconnect" => sock = 0
  /\ sndPc \in {"send", "resend"} => sndPos < Lengths[This]
  /\ sock # 0 => sock = opened

\* The connections to come are as yet unused.
UnusedInv ==
  \A c \in opened + 1 .. MaxConns :
    /\ wire[c] = <<>> /\ got[c] = <<>> /\ carried[c] = <<>>
    /\ \A m \in 1 .. Len(queue) : queue[m].conn # c

\* A connection is written to by one call after the other, and by the one under
\* way if that has written something.
OrderInv ==
  /\ \A c \in Conns : Rising(carried[c])
  /\ sock # 0 /\ sndPc # "idle" /\ sndPos = 0 =>
       \A i \in 1 .. Len(carried[sock]) : carried[sock][i] < This
  /\ sock # 0 /\ sndPos > 0 =>
       carried[sock] # <<>> /\ carried[sock][Len(carried[sock])] = This

SenderInv == PcInv /\ UnusedInv /\ OrderInv

\* An untorn connection that is read is in frame.
StreamInv ==
  \A c \in Conns \ torn :
    reader[c] \in {"header", "body"} =>
      /\ Begins(Stream[c], carried[c], Delivered[c])
      /\ Runs(Stream[c], Lengths)
      /\ Joins(Stream[c], carried[c], Lengths)
      /\ c = sock => Ends(Stream[c], carried[c], Delivered[c], Lengths, sndPos)
      /\ Waits(reader[c], got[c], want[c], Lengths)

\* The last byte of a message is in one place at most, and nowhere before its
\* call has written it.
OnceInv ==
  /\ \A c, d \in Conns : c # d => Apart(Stream[c], Stream[d], Lengths)
  /\ \A c \in Conns : Single(Stream[c], Lengths)
  /\ \A c \in Conns, m \in 1 .. Len(queue) :
       Apart(Stream[c], queue[m].bytes, Lengths)
  /\ \A m, n \in 1 .. Len(queue) : m # n => Apart(queue[m].bytes, queue[n].bytes, Lengths)
  /\ sndPc # "idle" =>
       /\ \A c \in Conns : Lacks(Stream[c], This, Lengths)
       /\ \A m \in 1 .. Len(queue) : Lacks(queue[m].bytes, This, Lengths)

\* InFrame, in these terms.
Places == [i \in 1 .. Len(queue) |-> Place(i)]

FrameInv ==
  \A i \in 1 .. Len(queue) :
    queue[i].conn \notin torn =>
      /\ Places[i] \in 1 .. Len(carried[queue[i].conn])
      /\ queue[i].bytes = Whole(carried[queue[i].conn][Places[i]], Lengths)

ChannelInv ==
  ChannelTypeOK /\ BytesInv /\ SenderInv /\ StreamInv /\ OnceInv /\ FrameInv

\* A sequence of bytes put behind another.
LEMMA JoinType ==
  ASSUME NEW s \in Seq(Byte), NEW t \in Seq(Byte)
  PROVE  /\ s \o t \in Seq(Byte) /\ Len(s) \in Nat /\ Len(t) \in Nat
         /\ Len(s \o t) = Len(s) + Len(t)
         /\ \A i \in 1 .. Len(s) : (s \o t)[i] = s[i]
         /\ \A i \in 1 .. Len(t) : (s \o t)[Len(s) + i] = t[i]
OBVIOUS

-----------------------------------------------------------------------------
(* Sequences of bytes.                                                     *)

\* A part of a stream has what the stream has.
LEMMA PartOfStream ==
  ASSUME NEW s \in Seq(Byte), NEW t \in Seq(Byte), NEW o \in Nat, NEW L, IsPart(t, s, o)
  PROVE  /\ Consists(s, L) => Consists(t, L)
         /\ Runs(s, L) => Runs(t, L)
         /\ \A q : Joins(s, q, L) => Joins(t, q, L)
         /\ \A u : Apart(s, u, L) => Apart(t, u, L)
         /\ \A u : Apart(u, s, L) => Apart(u, t, L)
         /\ Single(s, L) => Single(t, L)
         /\ \A k : Lacks(s, k, L) => Lacks(t, k, L)
<1> USE DEF IsPart
<1>1. Len(s) \in Nat /\ Len(t) \in Nat /\ Len(t) <= Len(s)
  <2>1. CASE Len(t) > 0
    <3>1. Len(t) \in 1 .. Len(t)
      BY <2>1
    <3>2. o + Len(t) \in 1 .. Len(s)
      BY <3>1
    <3> QED
      BY <3>2
  <2> QED
    BY <2>1
<1>2. Consists(s, L) => Consists(t, L)
  BY DEF Consists
<1>3. ASSUME Runs(s, L), NEW i \in 1 .. Len(t), NEW e \in 0 .. Len(t),
             i + e <= Len(t) /\ t[i][2] + e <= L[t[i][1]]
      PROVE  t[i + e] = <<t[i][1], t[i][2] + e>>
  <2>1. i + e \in 1 .. Len(t) /\ e \in 0 .. Len(s) /\ o + (i + e) = (o + i) + e
    BY <1>1, <1>3
  <2>2. /\ o + i \in 1 .. Len(s) /\ t[i] = s[o + i]
        /\ (o + i) + e \in 1 .. Len(s) /\ t[i + e] = s[(o + i) + e]
    BY <2>1
  <2>3. (o + i) + e <= Len(s)
    BY <1>1, <2>2
  <2> QED
    BY <1>3, <2>1, <2>2, <2>3 DEF Runs
<1>4. ASSUME NEW q, Joins(s, q, L), NEW i \in 1 .. Len(t) - 1, t[i][2] = L[t[i][1]]
      PROVE  \E m \in 1 .. Len(q) - 1 : t[i][1] = q[m] /\ t[i + 1] = <<q[m + 1], 1>>
  <2>1. i \in 1 .. Len(t) /\ i + 1 \in 1 .. Len(t) /\ o + (i + 1) = (o + i) + 1
    BY <1>1
  <2>2. /\ o + i \in 1 .. Len(s) /\ t[i] = s[o + i]
        /\ (o + i) + 1 \in 1 .. Len(s) /\ t[i + 1] = s[(o + i) + 1]
    BY <2>1
  <2>3. o + i \in 1 .. Len(s) - 1
    BY <1>1, <2>2
  <2> QED
    BY <1>4, <2>2, <2>3 DEF Joins
<1>5. \A u : Apart(s, u, L) => Apart(t, u, L)
  BY ZenonT(30) DEF Apart
<1>6. \A u : Apart(u, s, L) => Apart(u, t, L)
  BY DEF Apart
<1>7. ASSUME Single(s, L), NEW i \in 1 .. Len(t), NEW j \in 1 .. Len(t),
             t[i][2] = L[t[i][1]], t[i] = t[j]
      PROVE  i = j
  <2>1. o + i = o + j
    BY <1>7 DEF Single
  <2> QED
    BY <2>1
<1>8. \A k : Lacks(s, k, L) => Lacks(t, k, L)
  BY DEF Lacks
<1>9. (Runs(s, L) => Runs(t, L)) /\ (Single(s, L) => Single(t, L))
  BY <1>3, <1>7 DEF Runs, Single
<1>10. \A q : Joins(s, q, L) => Joins(t, q, L)
  BY <1>4 DEF Joins
<1> QED
  BY <1>2, <1>5, <1>6, <1>8, <1>9, <1>10

\* A stream that is cut in two: its first bytes, which a reader takes, and
\* those that stay on the wire.
LEMMA CutStream ==
  ASSUME NEW g \in Seq(Byte), NEW w \in Seq(Byte), NEW n \in Nat, n > 0, n <= Len(w)
  PROVE  LET b == g \o SubSeq(w, 1, n)
             rest == SubSeq(w, n + 1, Len(w))
             s == g \o w
         IN  /\ b \in Seq(Byte) /\ rest \in Seq(Byte) /\ s \in Seq(Byte)
             /\ Len(b) = Len(g) + n /\ Len(rest) = Len(w) - n
             /\ Len(s) = Len(g) + Len(w)
             /\ IsPart(b, s, 0) /\ IsPart(rest, s, Len(b))
             /\ b \o rest = s
<1>1. SubSeq(w, 1, n) \in Seq(Byte) /\ SubSeq(w, n + 1, Len(w)) \in Seq(Byte)
  OBVIOUS
<1>2. Len(SubSeq(w, 1, n)) = n /\ Len(SubSeq(w, n + 1, Len(w))) = Len(w) - n
  OBVIOUS
<1>3. Len(g \o SubSeq(w, 1, n)) = Len(g) + n
  BY <1>1, <1>2
<1>4. \A i \in 1 .. Len(g) + n : (g \o SubSeq(w, 1, n))[i] = (g \o w)[i]
  OBVIOUS
<1>5. \A i \in 1 .. Len(w) - n : SubSeq(w, n + 1, Len(w))[i] = (g \o w)[Len(g) + n + i]
  OBVIOUS
<1>6. g \o SubSeq(w, 1, n) \in Seq(Byte)
  BY <1>1
<1>7. g \o w \in Seq(Byte) /\ Len(g \o w) = Len(g) + Len(w)
  OBVIOUS
<1>8. (g \o SubSeq(w, 1, n)) \o SubSeq(w, n + 1, Len(w)) = g \o w
  <2> DEFINE b == g \o SubSeq(w, 1, n)
             rest == SubSeq(w, n + 1, Len(w))
             s == g \o w
  <2>1. /\ b \in Seq(Byte) /\ rest \in Seq(Byte) /\ s \in Seq(Byte)
        /\ Len(b) = Len(g) + n /\ Len(rest) = Len(w) - n /\ Len(s) = Len(g) + Len(w)
        /\ Len(g) \in Nat /\ Len(w) \in Nat
    BY <1>1, <1>2, <1>3, <1>6, <1>7
  <2>2. /\ \A i \in 1 .. Len(g) + n : b[i] = s[i]
        /\ \A i \in 1 .. Len(w) - n : rest[i] = s[Len(g) + n + i]
    BY <1>4, <1>5
  <2> HIDE DEF b, rest, s
  <2>3. b \o rest \in Seq(Byte) /\ Len(b \o rest) = Len(s)
    <3>1. b \o rest \in Seq(Byte) /\ Len(b \o rest) = Len(b) + Len(rest)
      BY <2>1, JoinType
    <3> QED
      BY <2>1, <3>1
  <2>4. ASSUME NEW i \in 1 .. Len(s) PROVE (b \o rest)[i] = s[i]
    <3>1. CASE i <= Len(b)
      BY <2>1, <2>2, <3>1
    <3>2. CASE i > Len(b)
      <4>1. i - Len(b) \in 1 .. Len(rest) /\ (b \o rest)[i] = rest[i - Len(b)]
        BY <2>1, <3>2
      <4>2. Len(g) + n + (i - Len(b)) = i
        BY <2>1
      <4> QED
        BY <2>1, <2>2, <4>1, <4>2
    <3> QED
      BY <2>1, <3>1, <3>2
  <2>5. b \o rest = s
    BY <2>1, <2>3, <2>4, SeqEqual
  <2> QED
    BY <2>5 DEF b, rest, s
<1>9. IsPart(g \o SubSeq(w, 1, n), g \o w, 0)
  BY <1>3, <1>4, <1>7 DEF IsPart
<1>10. IsPart(SubSeq(w, n + 1, Len(w)), g \o w, Len(g) + n)
  <2> DEFINE rest == SubSeq(w, n + 1, Len(w))
             s == g \o w
  <2>1. /\ Len(rest) = Len(w) - n /\ Len(s) = Len(g) + Len(w)
        /\ Len(g) \in Nat /\ Len(w) \in Nat
    BY <1>2, <1>7
  <2>2. \A i \in 1 .. Len(w) - n : rest[i] = s[Len(g) + n + i]
    BY <1>5
  <2> HIDE DEF rest, s
  <2>3. \A i \in 1 .. Len(w) - n : Len(g) + n + i \in 1 .. Len(g) + Len(w)
    BY <2>1
  <2>4. IsPart(rest, s, Len(g) + n)
    BY <2>1, <2>2, <2>3 DEF IsPart
  <2> QED
    BY <2>4 DEF rest, s
<1> QED
  BY <1>1, <1>2, <1>3, <1>6, <1>7, <1>8, <1>9, <1>10

\* A stream in frame, behind which the sender writes n more bytes of message
\* k, of which it has written a, stays in frame and ends where the sender is.
LEMMA WriteKeepsFrame ==
  ASSUME NEW K \in Nat, NEW L \in [1 .. K -> Nat], NEW s \in Seq(Byte), NEW part,
         NEW q \in Seq(1 .. K), NEW r \in Seq(1 .. K), NEW d \in Nat,
         NEW k \in 1 .. K, NEW a \in Nat, NEW n \in Nat, n > 0, a + n <= L[k],
         IsPiece(part, k, a, n), Carries(q, r, k, a),
         Consists(s, L), Begins(s, q, d), Runs(s, L), Joins(s, q, L), Ends(s, q, d, L, a)
  PROVE  /\ Begins(s \o part, r, d) /\ Runs(s \o part, L) /\ Joins(s \o part, r, L)
         /\ Ends(s \o part, r, d, L, After(a + n, L[k]))
<1> DEFINE t == s \o part
           N == Len(s)
           M == Len(t)
           Q == Len(q)
           R == Len(r)
<1>0. part \in Seq(Byte) /\ Len(part) = n /\ \A i \in 1 .. n : part[i] = <<k, a + i>>
  BY DEF IsPiece
<1>1. N \in Nat /\ Q \in Nat /\ R \in Nat
  OBVIOUS
<1>2. M \in Nat /\ M = N + n /\ t \in Seq(Byte)
  BY <1>0, JoinType
<1>3. \A i \in 1 .. N : t[i] = s[i]
  BY <1>0, JoinType
<1>4. \A i \in 1 .. n : t[N + i] = <<k, a + i>>
  BY <1>0, JoinType
<1>5. a = 0 => r = Append(q, k) /\ R = Q + 1
  <2>1. a = 0 => r = Append(q, k)
    BY DEF Carries
  <2> QED
    BY <2>1, AppendProperties
<1>6. a # 0 => r = q /\ R = Q /\ R > 0 /\ q[Q] = k
  BY DEF Carries
<1>7. r[R] = k
  <2>1. a = 0 => r = Append(q, k)
    BY <1>5
  <2>2. a = 0 => r[Q + 1] = k
    BY <2>1, AppendProperties
  <2> QED
    BY <1>5, <1>6, <2>2
<1>8. \A i \in 1 .. Q : r[i] = q[i]
  <2>1. \A i \in 1 .. Q : Append(q, k)[i] = q[i]
    BY AppendProperties
  <2>2. a = 0 => r = Append(q, k)
    BY <1>5
  <2> HIDE DEF Q
  <2> QED
    BY <1>6, <2>1, <2>2
<1>9. (s = <<>> <=> N = 0) /\ (t = <<>> <=> M = 0)
  BY <1>2
<1> HIDE DEF t, N, M, Q, R
<1>10. R \in Nat /\ R > 0 /\ R >= Q /\ M > 0
  BY <1>1, <1>2, <1>5, <1>6
<1>11. t[M] = <<k, a + n>>
  BY <1>2, <1>4
<1>12. Ends(t, r, d, L, After(a + n, L[k]))
  <2> DEFINE p == After(a + n, L[k])
  <2>1. a + n = IF p > 0 THEN p ELSE L[k]
    BY DEF After
  <2> HIDE DEF p
  <2>2. t # <<>> /\ t[M] = <<r[R], IF p > 0 THEN p ELSE L[r[R]]>>
    BY <1>7, <1>9, <1>10, <1>11, <2>1
  <2>3. Ends(t, r, d, L, p)
    BY <2>2 DEF Ends, M, R
  <2> QED
    BY <2>3 DEF p
\* What stands just before the new bytes.
<1>13. N = 0 => a = 0 /\ d = Q
  BY <1>9 DEF Ends, Q
<1>14. N > 0 => d < Q /\ s[1] = <<q[d + 1], 1>>
  BY SMTT(30), <1>9 DEF Begins, Q
<1>15. N > 0 => s[N] = <<q[Q], IF a > 0 THEN a ELSE L[q[Q]]>>
  BY <1>9 DEF Ends, N, Q
<1>16. Begins(t, r, d)
  <2>1. CASE N = 0
    <3>1. 1 \in 1 .. n /\ N + 1 = 1 /\ a + 1 = 1 /\ R = d + 1
      BY <1>1, <1>5, <1>13, <2>1
    <3>2. t[1] = <<k, 1>>
      BY <1>4, <3>1
    <3>3. d < R /\ r[d + 1] = k
      BY <1>7, <3>1
    <3> QED
      BY <3>2, <3>3 DEF Begins, R
  <2>2. CASE N > 0
    <3>1. 1 \in 1 .. N /\ d + 1 \in 1 .. Q /\ d < R
      BY <1>1, <1>10, <1>14, <2>2
    <3>2. t[1] = s[1] /\ r[d + 1] = q[d + 1]
      BY <1>3, <1>8, <3>1
    <3> QED
      BY <1>14, <2>2, <3>1, <3>2 DEF Begins, R
  <2> QED
    BY <1>1, <2>1, <2>2
<1>17. Runs(t, L)
  <2>1. SUFFICES ASSUME NEW i \in 1 .. M, NEW e \in 0 .. M,
                        i + e <= M, t[i][2] + e <= L[t[i][1]]
                 PROVE  t[i + e] = <<t[i][1], t[i][2] + e>>
    BY DEF Runs, M
  <2>2. CASE i > N
    <3> DEFINE x == i - N
    <3>1. x \in 1 .. n /\ i = N + x /\ x + e \in 1 .. n /\ i + e = N + (x + e)
      BY <1>1, <1>2, <2>1, <2>2
    <3>2. a + (x + e) = (a + x) + e
      BY <3>1
    <3> HIDE DEF x
    <3>3. t[i] = <<k, a + x>> /\ t[i + e] = <<k, a + (x + e)>>
      BY <1>4, <3>1
    <3> QED
      BY <3>2, <3>3
  <2>3. CASE i + e <= N
    <3>1. i \in 1 .. N /\ i + e \in 1 .. N /\ e \in 0 .. N
      BY SMTT(30), <1>1, <2>1, <2>3
    <3>2. t[i] = s[i] /\ t[i + e] = s[i + e]
      BY <1>3, <3>1
    <3>3. s[i][2] + e <= L[s[i][1]] => s[i + e] = <<s[i][1], s[i][2] + e>>
      BY <2>3, <3>1 DEF Runs, N
    <3> QED
      BY <2>1, <3>2, <3>3
  <2>4. CASE i <= N /\ i + e > N
    <3> DEFINE f == N - i
               x == e - f
    <3>1. i \in 1 .. N /\ f \in 0 .. N /\ i + f = N /\ N > 0
      BY <1>1, <2>1, <2>4
    <3>2. x \in 1 .. n /\ i + e = N + x /\ e = f + x
      BY <1>1, <1>2, <2>1, <2>4
    <3> HIDE DEF f, x
    <3>3. t[i] = s[i] /\ t[i + e] = <<k, a + x>>
      BY <1>3, <1>4, <3>1, <3>2
    <3>4. s[i][1] \in 1 .. K /\ s[i][2] \in 1 .. L[s[i][1]] /\ DOMAIN L = 1 .. K
      BY <3>1 DEF Consists, N
    <3>5. L[s[i][1]] \in Nat
      BY <3>4
    <3> DEFINE u == s[i][1]
               v == s[i][2]
               l == L[u]
    <3>6. v \in Nat /\ l \in Nat
      BY SMTT(30), <3>4, <3>5
    <3>7. v + e <= l
      BY <2>1, <3>3
    <3> HIDE DEF v, l
    <3>8. v + f < l
      BY <3>1, <3>2, <3>6, <3>7
    <3>9. i + f <= N
      BY <3>1
    <3>10. s[N] = <<u, v + f>>
      <4>1. v + f <= l
        BY <3>8, <3>6, <3>1
      <4>2. s[i + f] = <<u, v + f>>
        BY <3>1, <3>9, <4>1 DEF Runs, N, v, l
      <4> QED
        BY <3>1, <4>2
    <3>11. u = q[Q] /\ v + f = IF a > 0 THEN a ELSE L[u]
      <4>1. s[N] = <<q[Q], IF a > 0 THEN a ELSE L[q[Q]]>>
        BY <1>15, <3>1
      <4> HIDE DEF u
      <4>2. u = q[Q] /\ v + f = IF a > 0 THEN a ELSE L[q[Q]]
        BY <3>10, <4>1
      <4> QED
        BY <4>2
    <3>12. a > 0 /\ v + f = a
      BY <3>1, <3>6, <3>8, <3>11 DEF l
    <3>13. u = k
      BY <1>6, <3>11, <3>12
    <3>14. v + e = a + x
      BY <3>1, <3>2, <3>6, <3>12
    <3> QED
      BY <3>3, <3>13, <3>14 DEF v
  <2> QED
    BY <1>1, <2>1, <2>2, <2>3, <2>4
<1>18. Joins(t, r, L)
  <2>1. SUFFICES ASSUME NEW i \in 1 .. M - 1, t[i][2] = L[t[i][1]]
                 PROVE  \E m \in 1 .. R - 1 : t[i][1] = r[m] /\ t[i + 1] = <<r[m + 1], 1>>
    BY DEF Joins, M, R
  <2>2. CASE i > N
    <3> DEFINE x == i - N
    <3>1. x \in 1 .. n /\ i = N + x /\ a + x < a + n
      BY <1>1, <1>2, <2>2
    <3> HIDE DEF x
    <3>2. t[i] = <<k, a + x>>
      BY <1>4, <3>1
    <3>3. a + x = L[k]
      BY <2>1, <3>2
    <3> QED
      BY <3>1, <3>3
  <2>3. CASE i < N
    <3>1. i \in 1 .. N - 1 /\ i \in 1 .. N /\ i + 1 \in 1 .. N
      BY <1>1, <2>3
    <3>2. t[i] = s[i] /\ t[i + 1] = s[i + 1]
      BY <1>3, <3>1
    <3>3. PICK m \in 1 .. Q - 1 : s[i][1] = q[m] /\ s[i + 1] = <<q[m + 1], 1>>
      BY <2>1, <3>1, <3>2 DEF Joins, N, Q
    <3>4. m \in 1 .. Q /\ m + 1 \in 1 .. Q /\ m \in 1 .. R - 1
      BY <1>1, <1>10, <3>3
    <3>5. r[m] = q[m] /\ r[m + 1] = q[m + 1]
      BY <1>8, <3>4
    <3> QED
      BY <3>2, <3>3, <3>4, <3>5
  <2>4. CASE i = N
    <3>1. i \in 1 .. N /\ N > 0 /\ 1 \in 1 .. n
      BY <1>1, <2>4
    <3>2. t[i + 1] = <<k, a + 1>> /\ t[i] = s[i]
      BY <1>3, <1>4, <2>4, <3>1
    <3>3. s[i] = <<q[Q], IF a > 0 THEN a ELSE L[q[Q]]>>
      BY <1>15, <2>4, <3>1
    <3>4. a = 0
      <4>1. SUFFICES ASSUME a > 0 PROVE FALSE
        OBVIOUS
      <4>2. s[i] = <<k, a>>
        BY <1>6, <3>3, <4>1
      <4>3. a = L[k]
        BY <2>1, <3>2, <4>2
      <4> QED
        BY <4>3
    <3>5. R = Q + 1 /\ Q > 0
      <4>1. d < Q
        BY <1>14, <2>4, <3>1
      <4> QED
        BY <1>1, <1>5, <3>4, <4>1
    <3>6. Q \in 1 .. R - 1 /\ Q \in 1 .. Q
      BY <1>1, <3>5
    <3>7. t[i][1] = r[Q] /\ t[i + 1] = <<r[Q + 1], 1>>
      BY SMTT(30), <1>7, <1>8, <3>2, <3>3, <3>4, <3>5, <3>6
    <3>8. Q \in 1 .. R - 1
      BY <3>6
    <3> HIDE DEF Q
    <3> WITNESS Q \in 1 .. R - 1
    <3> QED
      BY <3>7
  <2>5. i > N \/ i < N \/ i = N
    BY <1>1
  <2> QED
    BY <2>2, <2>3, <2>4, <2>5
<1> QED
  BY <1>12, <1>16, <1>17, <1>18 DEF t

\* The first bytes of a stream in frame, as many as its first message has, are
\* that message, and what is behind them is in frame from the next one on.
LEMMA TakeKeepsFrame ==
  ASSUME NEW K \in Nat, NEW L \in [1 .. K -> Nat], NEW s \in Seq(Byte),
         NEW q \in Seq(1 .. K), NEW d \in Nat, NEW b \in Seq(Byte), NEW t \in Seq(Byte),
         NEW n \in Nat, n > 0, Splits(s, b, t, n), Rising(q), NEW p \in Nat,
         Begins(s, q, d), Runs(s, L), Joins(s, q, L), FirstHas(s, n, L)
  PROVE  /\ d + 1 \in 1 .. Len(q) /\ b = Whole(q[d + 1], L)
         /\ Begins(t, q, d + 1) /\ Runs(t, L) /\ Joins(t, q, L)
         /\ Ends(s, q, d, L, p) /\ (p > 0 => p < L[q[Len(q)]]) => Ends(t, q, d + 1, L, p)
<1> DEFINE N == Len(s)
           M == Len(t)
           Q == Len(q)
           k == q[d + 1]
<1>1. N \in Nat /\ M \in Nat /\ Q \in Nat /\ N = n + M
  BY DEF Splits
<1>2. \A i \in 1 .. M : t[i] = s[n + i]
  BY DEF Splits, IsPart
<1>3. (s = <<>> <=> N = 0) /\ (t = <<>> <=> M = 0)
  OBVIOUS
<1>4. DOMAIN b = 1 .. n /\ b = [i \in 1 .. n |-> b[i]]
  BY DEF Splits
<1> HIDE DEF N, M, Q, k
<1>5. d < Q /\ s[1] = <<k, 1>>
  BY <1>1, <1>3 DEF Begins, Q, k
<1>6. d + 1 \in 1 .. Q
  BY <1>1, <1>5
<1>7. k \in 1 .. K
  BY <1>6 DEF k, Q
<1>8. n = L[k] /\ s[1][1] = k
  BY <1>5 DEF FirstHas
<1>9. ASSUME NEW i \in 1 .. n PROVE s[i] = <<k, i>>
  <2> DEFINE e == i - 1
  <2>1. e \in 0 .. N /\ 1 + e = i /\ 1 + e <= N /\ 1 \in 1 .. N /\ 1 + e <= n
    BY <1>1
  <2> HIDE DEF e
  <2>2. s[1][2] + e <= L[s[1][1]]
    BY <1>5, <1>8, <2>1
  <2>3. s[1 + e] = <<s[1][1], s[1][2] + e>>
    BY <2>1, <2>2 DEF Runs, N
  <2> QED
    BY <1>5, <2>1, <2>3
<1>10. b = Whole(k, L)
  <2>1. \A i \in 1 .. n : b[i] = s[i]
    <3>1. \A i \in 1 .. n : b[i] = s[0 + i] /\ 0 + i = i
      BY DEF Splits, IsPart
    <3> QED
      BY <3>1
  <2>2. \A i \in 1 .. n : b[i] = <<k, i>>
    BY <1>9, <2>1
  <2> QED
    BY <1>4, <1>8, <2>2 DEF Whole
<1>11. \A i \in 1 .. M : n + i \in 1 .. N
  BY <1>1
<1>12. Runs(t, L) /\ Joins(t, q, L)
  BY <1>2, <1>11, PartOfStream DEF Splits
\* What the last byte of the first message leads to.
<1>13. s[n] = <<k, n>>
  BY <1>9
<1>14. M > 0 => d + 1 < Q /\ s[n + 1] = <<q[(d + 1) + 1], 1>>
  <2>1. SUFFICES ASSUME M > 0 PROVE d + 1 < Q /\ s[n + 1] = <<q[(d + 1) + 1], 1>>
    OBVIOUS
  <2>2. n \in 1 .. N - 1
    BY <1>1, <2>1
  <2>3. s[n][2] = L[s[n][1]]
    BY <1>8, <1>13
  <2>4. PICK m \in 1 .. Q - 1 : s[n][1] = q[m] /\ s[n + 1] = <<q[m + 1], 1>>
    BY <2>2, <2>3 DEF Joins, N, Q
  <2>5. q[m] = q[d + 1] /\ m \in 1 .. Q
    BY <1>1, <1>13, <2>4 DEF k
  <2>6. q[m] \in Nat /\ q[d + 1] \in Nat
    <3>1. q[m] \in 1 .. K
      BY <2>5, ElementOfSeq DEF Q
    <3> QED
      BY <1>7, <2>5, <3>1 DEF k
  <2>7. ~ (m < d + 1) /\ ~ (d + 1 < m)
    <3>1. (m < d + 1 => q[m] < q[d + 1]) /\ (d + 1 < m => q[d + 1] < q[m])
      BY <1>6, <2>5 DEF Rising, Q
    <3> QED
      BY <2>5, <2>6, <3>1
  <2>8. m = d + 1
    BY <1>6, <2>5, <2>7
  <2> QED
    BY <1>1, <2>4, <2>8
<1>15. Begins(t, q, d + 1)
  <2>1. M > 0 => t[1] = s[n + 1]
    BY <1>1, <1>2
  <2>2. t # <<>> => d + 1 < Q /\ t[1] = <<q[(d + 1) + 1], 1>>
    BY SMTT(30), <1>1, <1>3, <1>14, <2>1
  <2> QED
    BY <2>2 DEF Begins, Q
<1>16. ASSUME Ends(s, q, d, L, p), p > 0 => p < L[q[Q]]
       PROVE  Ends(t, q, d + 1, L, p)
  <2>1. s[N] = <<q[Q], IF p > 0 THEN p ELSE L[q[Q]]>>
    BY <1>1, <1>3, <1>16 DEF Ends, N, Q
  <2>2. CASE M = 0
    <3>1. N = n
      BY <1>1, <2>2
    <3>2. q[Q] = k /\ n = IF p > 0 THEN p ELSE L[k]
      BY <1>13, <2>1, <3>1
    <3>3. p = 0
      BY <1>8, <1>16, <3>2
    <3>4. Q = d + 1
      <4>1. q[Q] = q[d + 1] /\ Q \in 1 .. Q
        BY <1>1, <1>6, <3>2 DEF k
      <4>2. q[Q] \in Nat
        BY <4>1 DEF Q
      <4>3. d + 1 < Q => q[d + 1] < q[Q]
        BY <1>6, <4>1 DEF Rising, Q
      <4>4. ~ (d + 1 < Q)
        BY <4>1, <4>2, <4>3
      <4> QED
        BY <1>1, <1>6, <4>4
    <3> QED
      BY <1>3, <2>2, <3>3, <3>4 DEF Ends, Q
  <2>3. CASE M > 0
    <3>1. M \in 1 .. M /\ n + M = N
      BY <1>1, <2>3
    <3>2. t[M] = s[N]
      BY <1>2, <3>1
    <3> QED
      BY <1>3, <2>1, <2>3, <3>2 DEF Ends, Q, M
  <2> QED
    BY <1>1, <2>2, <2>3
<1> QED
  BY <1>6, <1>10, <1>12, <1>15, <1>16 DEF k, Q

\* A write of n more bytes of message k, of which a are written, to a stream
\* that does not have the last byte of it.
LEMMA WriteOnce ==
  ASSUME NEW K \in Nat, NEW L \in [1 .. K -> Nat], NEW s \in Seq(Byte), NEW part,
         NEW k \in 1 .. K, NEW a \in Nat, NEW n \in Nat, a + n <= L[k],
         IsPiece(part, k, a, n), Lacks(s, k, L)
  PROVE  /\ Consists(s, L) => Consists(s \o part, L)
         /\ \A u : Apart(s, u, L) /\ Lacks(u, k, L) => Apart(s \o part, u, L)
         /\ \A u : Apart(u, s, L) /\ Lacks(u, k, L) => Apart(u, s \o part, L)
         /\ Single(s, L) => Single(s \o part, L)
         /\ a + n < L[k] => Lacks(s \o part, k, L)
<1> DEFINE t == s \o part
           N == Len(s)
           M == Len(t)
<1>0. part \in Seq(Byte) /\ Len(part) = n /\ \A i \in 1 .. n : part[i] = <<k, a + i>>
  BY DEF IsPiece
<1>1. N \in Nat /\ M \in Nat /\ M = N + n /\ t \in Seq(Byte)
  BY <1>0, JoinType
<1>2. \A i \in 1 .. N : t[i] = s[i]
  BY <1>0, JoinType
<1>3. \A i \in 1 .. n : t[N + i] = <<k, a + i>>
  BY <1>0, JoinType
<1> HIDE DEF t, N, M
<1>4. ASSUME NEW i \in 1 .. M
      PROVE  \/ i \in 1 .. N /\ t[i] = s[i]
             \/ \E x \in 1 .. n : i = N + x /\ t[i] = <<k, a + x>>
  <2>1. CASE i <= N
    BY <1>1, <1>2, <2>1
  <2>2. CASE i > N
    <3> DEFINE x == i - N
    <3>1. x \in 1 .. n /\ i = N + x
      BY <1>1, <2>2
    <3> HIDE DEF x
    <3>2. t[i] = <<k, a + x>>
      BY <1>3, <3>1
    <3> QED
      BY <3>1, <3>2
  <2> QED
    BY SMTT(30), <1>1, <2>1, <2>2
\* A new byte that is the last one of its message is the last one of k.
<1>5. ASSUME NEW x \in 1 .. n
      PROVE  /\ a + x \in 1 .. L[k] /\ <<k, a + x>>[1] = k /\ <<k, a + x>>[2] = a + x
             /\ a + n < L[k] => a + x # L[k]
  <2>1. L[k] \in Nat
    OBVIOUS
  <2>2. a + x \in 1 .. L[k] /\ (a + n < L[k] => a + x # L[k])
    BY <2>1
  <2> QED
    BY <2>2
<1>6. Consists(s, L) => Consists(t, L)
  <2>1. SUFFICES ASSUME Consists(s, L), NEW i \in 1 .. M
                 PROVE  t[i][1] \in 1 .. K /\ t[i][2] \in 1 .. L[t[i][1]]
    BY DEF Consists, M
  <2>2. CASE i \in 1 .. N /\ t[i] = s[i]
    BY <2>1, <2>2 DEF Consists, N
  <2>3. CASE \E x \in 1 .. n : i = N + x /\ t[i] = <<k, a + x>>
    BY <1>5, <2>3
  <2> QED
    BY <1>4, <2>2, <2>3
<1>7. ASSUME NEW u, Apart(s, u, L), Lacks(u, k, L), NEW i \in 1 .. M, NEW j \in 1 .. Len(u),
             t[i][2] = L[t[i][1]]
      PROVE  t[i] # u[j]
  <2>1. CASE i \in 1 .. N /\ t[i] = s[i]
    BY <1>7, <2>1 DEF Apart, N
  <2>2. CASE \E x \in 1 .. n : i = N + x /\ t[i] = <<k, a + x>>
    <3>1. t[i] = <<k, L[k]>>
      BY <1>7, <2>2
    <3> QED
      BY <1>7, <3>1 DEF Lacks
  <2> QED
    BY <1>4, <2>1, <2>2
<1>8. ASSUME NEW u, Apart(u, s, L), Lacks(u, k, L), NEW i \in 1 .. M, NEW j \in 1 .. Len(u),
             u[j][2] = L[u[j][1]]
      PROVE  u[j] # t[i]
  <2>1. CASE i \in 1 .. N /\ t[i] = s[i]
    BY <1>8, <2>1 DEF Apart, N
  <2>2. CASE \E x \in 1 .. n : i = N + x /\ t[i] = <<k, a + x>>
    <3>1. u[j] = t[i] => u[j] = <<k, L[k]>>
      BY <1>8, <2>2
    <3> QED
      BY <1>8, <3>1 DEF Lacks
  <2> QED
    BY <1>4, <2>1, <2>2
<1>9. ASSUME Single(s, L), NEW i \in 1 .. M, NEW j \in 1 .. M,
             t[i][2] = L[t[i][1]], t[i] = t[j]
      PROVE  i = j
  <2>1. CASE i \in 1 .. N /\ t[i] = s[i] /\ j \in 1 .. N /\ t[j] = s[j]
    BY <1>9, <2>1 DEF Single, N
  <2>2. ASSUME NEW x \in 1 .. n, t[i] = <<k, a + x>>, j \in 1 .. N, t[j] = s[j]
        PROVE  FALSE
    <3>1. a + x = L[k]
      BY <1>9, <2>2
    <3>2. s[j] = <<k, L[k]>>
      BY <1>9, <2>2, <3>1
    <3> QED
      BY <2>2, <3>2 DEF Lacks, N
  <2>3. ASSUME NEW x \in 1 .. n, t[j] = <<k, a + x>>, i \in 1 .. N, t[i] = s[i]
        PROVE  FALSE
    <3>1. s[i] = <<k, L[k]>>
      BY <1>9, <2>3
    <3> QED
      BY <2>3, <3>1 DEF Lacks, N
  <2>4. ASSUME NEW x \in 1 .. n, i = N + x, t[i] = <<k, a + x>>,
               NEW y \in 1 .. n, j = N + y, t[j] = <<k, a + y>>
        PROVE  i = j
    <3>1. a + x = a + y
      BY <1>9, <2>4
    <3> QED
      BY <2>4, <3>1
  <2> QED
    BY <1>4, <2>1, <2>2, <2>3, <2>4
<1>10. ASSUME a + n < L[k], NEW i \in 1 .. M PROVE t[i] # <<k, L[k]>>
  <2>1. CASE i \in 1 .. N /\ t[i] = s[i]
    BY <2>1 DEF Lacks, N
  <2>2. CASE \E x \in 1 .. n : i = N + x /\ t[i] = <<k, a + x>>
    BY <1>5, <1>10, <2>2
  <2> QED
    BY <1>4, <2>1, <2>2
<1>11. \A u : Apart(s, u, L) /\ Lacks(u, k, L) => Apart(t, u, L)
  BY <1>7 DEF Apart, M
<1>12. \A u : Apart(u, s, L) /\ Lacks(u, k, L) => Apart(u, t, L)
  BY <1>8 DEF Apart, M
<1>13. Single(s, L) => Single(t, L)
  BY <1>9 DEF Single, M
<1>14. a + n < L[k] => Lacks(t, k, L)
  BY <1>10 DEF Lacks, M
<1> QED
  BY <1>6, <1>11, <1>12, <1>13, <1>14 DEF t

\* Neither does it matter which of two texts is named first.
LEMMA ApartBothWays ==
  ASSUME NEW s, NEW t, NEW L, Apart(s, t, L) PROVE Apart(t, s, L)
BY DEF Apart

\* The two parts of a stream do not share the last byte of a message.
LEMMA SplitApart ==
  ASSUME NEW s \in Seq(Byte), NEW b \in Seq(Byte), NEW t \in Seq(Byte), NEW n \in Nat,
         NEW L, Splits(s, b, t, n), Single(s, L)
  PROVE  Apart(t, b, L)
<1>1. /\ Len(b) = n /\ Len(t) \in Nat
      /\ \A i \in 1 .. Len(b) : 0 + i \in 1 .. Len(s) /\ b[i] = s[0 + i]
      /\ \A i \in 1 .. Len(t) : n + i \in 1 .. Len(s) /\ t[i] = s[n + i]
  BY DEF Splits, IsPart
<1>2. ASSUME NEW i \in 1 .. Len(t), NEW j \in 1 .. Len(b), t[i][2] = L[t[i][1]], t[i] = b[j]
      PROVE  FALSE
  <2>1. /\ n + i \in 1 .. Len(s) /\ t[i] = s[n + i]
        /\ 0 + j \in 1 .. Len(s) /\ b[j] = s[0 + j]
    BY <1>1
  <2>2. s[n + i][2] = L[s[n + i][1]] /\ s[n + i] = s[0 + j]
    BY <1>2, <2>1
  <2>3. n + i = 0 + j
    BY <2>1, <2>2 DEF Single
  <2>4. j \in 1 .. n /\ i > 0
    BY <1>1
  <2> QED
    BY <2>3, <2>4
<1> QED
  BY <1>2 DEF Apart

\* A sequence is the first part of any that begins with it.
LEMMA FirstPart ==
  ASSUME NEW s \in Seq(Byte), NEW t \in Seq(Byte)
  PROVE  IsPart(s, s, 0) /\ IsPart(s, s \o t, 0)
<1>1. \A i \in 1 .. Len(s) : 0 + i = i
  OBVIOUS
<1>2. \A i \in 1 .. Len(s) : i \in 1 .. Len(s \o t) /\ (s \o t)[i] = s[i]
  <2>1. Len(s) \in Nat /\ Len(s \o t) = Len(s) + Len(t) /\ Len(t) \in Nat
    BY JoinType
  <2>2. \A i \in 1 .. Len(s) : (s \o t)[i] = s[i]
    BY JoinType
  <2> QED
    BY <2>1, <2>2
<1> QED
  BY <1>1, <1>2 DEF IsPart

-----------------------------------------------------------------------------
(* The state: streams, lengths, places.                                    *)

\* The bytes of a stream are those that the reader has, and then the wire's.
LEMMA StreamType ==
  ASSUME ChannelTypeOK, NEW c \in Conns
  PROVE  /\ got[c] \in Seq(Byte) /\ wire[c] \in Seq(Byte)
         /\ Stream[c] = got[c] \o wire[c] /\ Stream[c] \in Seq(Byte)
         /\ carried[c] \in Seq(1 .. This)
<1>1. got[c] \in Seq(Byte) /\ wire[c] \in Seq(Byte) /\ carried[c] \in Seq(1 .. This)
  BY DEF ChannelTypeOK
<1>2. Stream[c] = got[c] \o wire[c]
  BY DEF Stream
<1> QED
  BY <1>1, <1>2, JoinType

\* A message that was sent has a frame of bytes, its header at least.
LEMMA FrameType ==
  ASSUME ChannelTypeOK
  PROVE  /\ This \in Nat /\ Lengths \in [1 .. This -> Nat]
         /\ \A k \in 1 .. This :
              /\ Lengths[k] = FrameLength(k) /\ Lengths[k] = EndOfHeader + sent[k].length
              /\ Lengths[k] >= EndOfHeader /\ Lengths[k] > 0 /\ sent[k].length \in Nat
              /\ Frame(k) = [i \in 1 .. Lengths[k] |-> <<k, i>>]
<1>1. This \in Nat
  BY DEF ChannelTypeOK, This
<1>2. ASSUME NEW k \in 1 .. This PROVE sent[k].length \in Nat
  <2>1. sent[k] \in NetMsg
    BY <1>2, ElementOfSeq DEF ChannelTypeOK, This
  <2> QED
    BY <2>1 DEF NetMsg
<1>3. \A k \in 1 .. This : FrameLength(k) = EndOfHeader + sent[k].length
  BY DEF FrameLength
<1>4. \A k \in 1 .. This : FrameLength(k) \in Nat /\ FrameLength(k) >= EndOfHeader
                           /\ FrameLength(k) > 0
  <2>1. EndOfHeader \in Nat /\ EndOfHeader > 0
    BY LayoutAssumption
  <2> QED
    BY <1>2, <1>3, <2>1
<1>5. \A k \in 1 .. This : Lengths[k] = FrameLength(k)
  BY DEF Lengths
<1>6. Lengths \in [1 .. This -> Nat]
  BY <1>4 DEF Lengths
<1>7. \A k \in 1 .. This : Frame(k) = [i \in 1 .. Lengths[k] |-> <<k, i>>]
  BY <1>5 DEF Frame
<1> QED
  BY <1>1, <1>2, <1>3, <1>4, <1>5, <1>6, <1>7

\* How many of the first n messages of a queue are a connection's.
LEMMA CountType ==
  ASSUME NEW q, NEW c, NEW n \in Nat
  PROVE  IsFiniteSet(Handed(q, n, c)) /\ Cardinality(Handed(q, n, c)) \in Nat
<1>1. IsFiniteSet(1 .. n)
  BY FS_Interval
<1>2. Handed(q, n, c) \subseteq 1 .. n
  BY DEF Handed
<1>3. IsFiniteSet(Handed(q, n, c))
  BY <1>1, <1>2, FS_Subset
<1> QED
  BY <1>3, FS_CardinalityType

\* A message more.
LEMMA CountNext ==
  ASSUME NEW q, NEW r, NEW n \in Nat, NEW m, m = n + 1, NEW c, Agree(q, r, n)
  PROVE  /\ r[m].conn = c => Cardinality(Handed(r, m, c)) = Cardinality(Handed(q, n, c)) + 1
         /\ r[m].conn # c => Cardinality(Handed(r, m, c)) = Cardinality(Handed(q, n, c))
<1> DEFINE s == Handed(q, n, c)
           t == Handed(r, m, c)
<1>1. IsFiniteSet(s) /\ Cardinality(s) \in Nat /\ m \notin s
  <2>1. IsFiniteSet(s) /\ Cardinality(s) \in Nat
    BY CountType
  <2>2. m \notin 1 .. n
    OBVIOUS
  <2> QED
    BY <2>1, <2>2 DEF Handed
<1>2. CASE r[m].conn = c
  <2>1. t = s \union {m}
    BY <1>2 DEF Handed, Agree
  <2>2. Cardinality(s \union {m}) = Cardinality(s) + 1
    BY <1>1, FS_AddElement
  <2> QED
    BY <1>2, <2>1, <2>2
<1>3. CASE r[m].conn # c
  <2>1. t = s
    BY <1>3 DEF Handed, Agree
  <2> QED
    BY <1>1, <1>3, <2>1
<1> QED
  BY <1>2, <1>3

\* What the reader has after it received n bytes.
Read(c, n) == got[c] \o SubSeq(wire[c], 1, n)

\* It is the first part of the stream; the wire keeps the other part.
LEMMA ReceivesPart ==
  ASSUME ChannelTypeOK, NEW c \in Conns, NEW n \in 1 .. WireBytes, Receives(c, n)
  PROVE  /\ Read(c, n) \in Seq(Byte) /\ Len(Read(c, n)) \in Nat /\ Len(Read(c, n)) > 0
         /\ wire'[c] \in Seq(Byte) /\ Read(c, n) \o wire'[c] = Stream[c]
         /\ Splits(Stream[c], Read(c, n), wire'[c], Len(Read(c, n)))
         /\ IsPart(Read(c, n), Stream[c], 0)
         /\ \A d \in Conns : d # c => wire'[d] = wire[d]
         /\ wire' \in [Conns -> Seq(Byte)] /\ \A d \in Conns : Len(wire'[d]) <= WireBytes
<1> DEFINE g == got[c]
           w == wire[c]
           rest == SubSeq(w, n + 1, Len(w))
           b == g \o SubSeq(w, 1, n)
           s == g \o w
<1>1. g \in Seq(Byte) /\ w \in Seq(Byte) /\ Stream[c] = s /\ b = Read(c, n)
  BY StreamType DEF Read
<1>2. n \in Nat /\ n > 0 /\ n <= Len(w) /\ WireBytes \in Nat
  BY <1>1, ChannelAssumption DEF Receives
<1>3. /\ wire' = [wire EXCEPT ![c] = rest] /\ wire \in [Conns -> Seq(Byte)]
      /\ \A d \in Conns : Len(wire[d]) <= WireBytes
  BY DEF Receives, ChannelTypeOK
<1> HIDE DEF g, w
<1>4. /\ b \in Seq(Byte) /\ rest \in Seq(Byte) /\ s \in Seq(Byte) /\ b \o rest = s
      /\ IsPart(b, s, 0) /\ IsPart(rest, s, Len(b))
  BY ZenonT(30), <1>1, <1>2, CutStream
<1>5. Len(b) = Len(g) + n /\ Len(rest) = Len(w) - n /\ Len(s) = Len(g) + Len(w)
  BY <1>1, <1>2, CutStream
<1>6. Len(g) \in Nat /\ Len(w) \in Nat /\ Len(w) <= WireBytes
  BY <1>1, <1>3 DEF w
<1> HIDE DEF b, rest, s
<1>7. Len(b) \in Nat /\ Len(b) > 0 /\ Len(s) = Len(b) + Len(rest) /\ Len(rest) <= WireBytes
  BY <1>2, <1>5, <1>6
<1>8. Splits(s, b, rest, Len(b))
  BY <1>4, <1>7 DEF Splits
<1>9. wire'[c] = rest /\ \A d \in Conns : d # c => wire'[d] = wire[d]
  BY <1>3
<1>10. wire' \in [Conns -> Seq(Byte)] /\ \A d \in Conns : Len(wire'[d]) <= WireBytes
  BY <1>3, <1>4, <1>7
<1> QED
  BY <1>1, <1>4, <1>7, <1>8, <1>9, <1>10

-----------------------------------------------------------------------------
(* Types.                                                                  *)

\* AddParam keeps a message well formed, if the id fits into its byte.
LEMMA AddParamWellFormed ==
  ASSUME NEW m, WellFormed(m), NEW id \in 0 .. IdSpace - 1, NEW d \in Data
  PROVE  WellFormed(AddParam(m, id, d))
<1>1. CASE HasParam(m, id)
  BY <1>1 DEF AddParam
<1>2. CASE ~ HasParam(m, id)
  <2> DEFINE a == AddParam(m, id, d)
             p == [id |-> id, data |-> d]
  <2>1. m \in NetMsg /\ m.params \in Seq(Param)
    BY DEF WellFormed, NetMsg
  <2>2. Required(d) \in Nat /\ Required(d) > 0
    BY LayoutAssumption DEF Required
  <2>3. id % IdSpace = id /\ p \in Param
    BY LayoutAssumption DEF Param
  <2>4. a = [max |-> IF m.pos + Required(d) > m.max THEN m.pos + Required(d) ELSE m.max,
             pos |-> m.pos + Required(d), length |-> m.length + Required(d),
             count |-> (m.count + 1) % CountSpace, params |-> Append(m.params, p)]
    BY <1>2, <2>1, <2>3 DEF AddParam, NetMsg
  <2>5. (m.count + 1) % CountSpace \in Nat
    BY <2>1, LayoutAssumption DEF NetMsg
  <2>6. Append(m.params, p) \in Seq(Param)
    BY <2>1, <2>3
  <2>7. a \in NetMsg /\ a.pos = EndOfHeader + a.length /\ a.pos <= a.max
    BY SMTT(30), <2>1, <2>2, <2>4, <2>5, <2>6, LayoutAssumption DEF NetMsg, WellFormed
  <2>8. \A i, j \in 1 .. Len(a.params) : a.params[i].id = a.params[j].id => i = j
    <3>1. /\ Len(a.params) = Len(m.params) + 1 /\ a.params[Len(m.params) + 1] = p
          /\ \A i \in 1 .. Len(m.params) : a.params[i] = m.params[i]
      BY <2>1, <2>3, <2>4
    <3>2. \A i \in 1 .. Len(m.params) : m.params[i].id # id
      BY <1>2 DEF HasParam
    <3>3. Len(m.params) \in Nat
      BY <2>1
    <3> QED
      BY SMTT(30), <3>1, <3>2, <3>3 DEF WellFormed
  <2> QED
    BY <2>7, <2>8 DEF WellFormed
<1> QED
  BY <1>1, <1>2

\* A piece of a sequence of bytes is one.
LEMMA PieceType ==
  ASSUME NEW s \in Seq(Byte), NEW m \in Nat \ {0}, NEW n \in Nat, n <= Len(s)
  PROVE  /\ SubSeq(s, m, n) \in Seq(Byte)
         /\ Len(SubSeq(s, m, n)) = IF m <= n THEN n - m + 1 ELSE 0
         /\ \A i \in 1 .. n - m + 1 : SubSeq(s, m, n)[i] = s[m + i - 1]
<1>1. \A i \in m .. n : s[i] \in Byte
  BY ElementOfSeq
<1> QED
  BY <1>1, SubSeqProperties

\* The types hold at first.
LEMMA TypeInit ==
  ASSUME ChannelInit PROVE ChannelTypeOK
<1>1. WellFormed(EmptyMsg(DEF_MSG_LENGTH))
  <2> DEFINE e == EmptyMsg(DEF_MSG_LENGTH)
  <2>1. e.params = <<>> /\ e.params \in Seq(Param)
    BY DEF EmptyMsg
  <2>2. e \in NetMsg /\ e.pos = EndOfHeader + e.length /\ e.pos <= e.max
    BY <2>1, LayoutAssumption DEF EmptyMsg, NetMsg
  <2>3. 1 .. Len(e.params) = {}
    BY <2>1
  <2> QED
    BY <2>2, <2>3 DEF WellFormed
<1>2. sent = <<>> /\ sent \in Seq(NetMsg) /\ 1 .. This = {}
  BY DEF ChannelInit, This
<1>3. 1 \in Conns /\ MaxConns \in Nat /\ WireBytes \in Nat /\ MaxFaults \in Nat
  BY ChannelAssumption DEF Conns
<1>4. /\ wire \in [Conns -> Seq(Byte)] /\ got \in [Conns -> Seq(Byte)]
      /\ carried \in [Conns -> Seq(1 .. This)] /\ want \in [Conns -> Nat]
      /\ \A c \in Conns : Len(wire[c]) <= WireBytes
  BY <1>3 DEF ChannelInit
<1>5. reader \in [Conns -> {"none", "header", "body", "gone"}]
  BY DEF ChannelInit
<1>6. opened \in Conns /\ sock \in 0 .. opened /\ faults \in 0 .. MaxFaults /\ sndPos \in Nat
  <2>1. opened = 1 /\ sock = 1 /\ faults = 0 /\ sndPos = 0
    BY DEF ChannelInit
  <2> QED
    BY <1>3, <2>1
<1>8. /\ closed \subseteq 1 .. opened /\ hung \in BOOLEAN /\ torn \subseteq Conns
      /\ sndPc \in {"idle", "send", "resend", "reconnect"}
  <2>1. closed = {} /\ torn = {} /\ hung = FALSE /\ sndPc = "idle"
    BY DEF ChannelInit
  <2> QED
    BY <2>1
<1>7. queue \in Seq([conn : Conns, bytes : Seq(Byte)])
  BY DEF ChannelInit
<1> QED
  BY <1>1, <1>2, <1>4, <1>5, <1>6, <1>7, <1>8 DEF ChannelTypeOK, ChannelInit

\* The steps that leave the bytes alone.
LEMMA TypeQuiet ==
  ASSUME ChannelTypeOK,
         \/ BeginSend \/ SendTimeout \/ SendFails \/ SendWithout
         \/ ClientReaderCloses \/ Reconnect \/ ReconnectFails \/ Hang
         \/ UNCHANGED chanVars
  PROVE  ChannelTypeOK'
<1> USE DEF sender, links, readers, auxVars
<1>1. CASE BeginSend
  <2>1. snd_msg \in NetMsg /\ sent \in Seq(NetMsg) /\ This = Len(sent) /\ This \in Nat
    BY DEF ChannelTypeOK, WellFormed, This
  <2>2. /\ sent' \in Seq(NetMsg) /\ This' = This + 1 /\ sent'[This + 1] = snd_msg
        /\ \A k \in 1 .. This : sent'[k] = sent[k]
    BY <1>1, <2>1 DEF BeginSend, This
  <2>3. ASSUME NEW k \in 1 .. This' PROVE WellFormed(sent'[k])
    <3>1. CASE k \in 1 .. This
      <4>1. sent'[k] = sent[k] /\ WellFormed(sent[k])
        BY <2>2, <3>1 DEF ChannelTypeOK
      <4> QED
        BY <4>1
    <3>2. CASE k = This + 1
      <4>1. sent'[k] = snd_msg /\ WellFormed(snd_msg)
        BY <2>2, <3>2 DEF ChannelTypeOK
      <4> QED
        BY <4>1
    <3> QED
      BY <2>1, <2>2, <3>1, <3>2
  <2>4. Seq(1 .. This) \subseteq Seq(1 .. This')
    BY <2>1, <2>2, SeqMonotonic
  <2>5. carried' \in [Conns -> Seq(1 .. This')]
    BY <1>1, <2>4 DEF BeginSend, ChannelTypeOK
  <2> QED
    BY <1>1, <2>2, <2>3, <2>5 DEF BeginSend, ChannelTypeOK
<1>2. CASE SendTimeout
  <2>1. sock \in Conns
    BY <1>2, ChannelAssumption DEF SendTimeout, ChannelTypeOK, Conns
  <2> QED
    BY <1>2, <2>1 DEF SendTimeout, ChannelTypeOK, This
<1>3. CASE SendFails
  <2>1. sock \in Conns /\ sock \in 1 .. opened /\ MaxFaults \in Nat /\ WireBytes \in Nat
    BY <1>3, ChannelAssumption DEF SendFails, ChannelTypeOK, Conns
  <2>2. wire' \in {wire, [wire EXCEPT ![sock] = <<>>]} /\ faults' \in {faults, faults + 1}
        /\ (faults' = faults \/ faults < MaxFaults)
    BY <1>3 DEF SendFails
  <2>3. /\ wire' \in [Conns -> Seq(Byte)] /\ \A c \in Conns : Len(wire'[c]) <= WireBytes
    <3>1. wire \in [Conns -> Seq(Byte)] /\ \A c \in Conns : Len(wire[c]) <= WireBytes
      BY DEF ChannelTypeOK
    <3>2. <<>> \in Seq(Byte) /\ Len(<<>>) <= WireBytes
      BY <2>1
    <3> QED
      BY <2>1, <2>2, <3>1, <3>2
  <2>4. faults' \in 0 .. MaxFaults
    BY <2>1, <2>2 DEF ChannelTypeOK
  <2>5. AfterFailure \in {"idle", "reconnect"} /\ 0 \in 0 .. opened
    BY <2>1 DEF AfterFailure, ChannelTypeOK
  <2>6. closed' \subseteq 1 .. opened
    BY <1>3, <2>1 DEF SendFails, ChannelTypeOK
  <2>7. /\ UNCHANGED <<snd_msg, sent, opened, reader, got, want, queue, hung, carried, torn>>
        /\ sock' = 0 /\ sndPc' = AfterFailure /\ sndPos' = 0 /\ This' = This
    BY <1>3 DEF SendFails, This
  <2>8. sock' \in 0 .. opened' /\ sndPos' \in Nat
        /\ sndPc' \in {"idle", "send", "resend", "reconnect"} /\ closed' \subseteq 1 .. opened'
    BY <2>1, <2>5, <2>6, <2>7
  <2> QED
    BY <2>3, <2>4, <2>7, <2>8 DEF ChannelTypeOK
<1>4. CASE SendWithout
  BY <1>4 DEF SendWithout, ChannelTypeOK, This, AfterFailure
<1>5. CASE ClientReaderCloses
  <2>1. sock \in 1 .. opened /\ sock' \in 0 .. opened /\ closed' \subseteq 1 .. opened
    BY SMTT(30), <1>5, ChannelAssumption DEF ClientReaderCloses, ChannelTypeOK, Conns
  <2> QED
    BY <1>5, <2>1 DEF ClientReaderCloses, ChannelTypeOK, This
<1>6. CASE Reconnect
  <2>1. opened' = opened + 1 /\ opened' \in Conns /\ closed \subseteq 1 .. opened'
        /\ sock' \in 0 .. opened'
    BY <1>6, ChannelAssumption DEF Reconnect, ChannelTypeOK, Conns
  <2> QED
    BY <1>6, <2>1 DEF Reconnect, ChannelTypeOK, This
<1>7. CASE ReconnectFails
  BY <1>7 DEF ReconnectFails, ChannelTypeOK, This
<1>8. CASE Hang
  BY <1>8, ChannelAssumption DEF Hang, ChannelTypeOK, This
<1>9. CASE UNCHANGED chanVars
  BY <1>9 DEF chanVars, ChannelTypeOK, This
<1> QED
  BY <1>1, <1>2, <1>3, <1>4, <1>5, <1>6, <1>7, <1>8, <1>9

\* What a write puts on the wire is a piece of the message's frame.
LEMMA PartType ==
  ASSUME ChannelTypeOK, This > 0, NEW n \in 1 .. WireBytes,
         sndPos + n <= Lengths[This]
  PROVE  IsPiece(SubSeq(Frame(This), sndPos + 1, sndPos + n), This, sndPos, n)
<1>1. This \in 1 .. This /\ sndPos \in Nat /\ n \in Nat /\ n > 0
  BY ChannelAssumption, FrameType DEF ChannelTypeOK
<1> DEFINE f == Frame(This)
           l == Lengths[This]
           a == sndPos + 1
           b == sndPos + n
           part == SubSeq(f, a, b)
<1>2. l \in Nat /\ f = [i \in 1 .. l |-> <<This, i>>] /\ b <= l
  BY <1>1, FrameType
<1>3. a \in Nat \ {0} /\ b \in Nat /\ a <= b /\ b - a + 1 = n
  BY <1>1
<1>4. \A i \in 1 .. n : a + i - 1 = sndPos + i /\ sndPos + i \in 1 .. l
  BY <1>1, <1>2
<1> HIDE DEF l, a, b
<1>5. f \in Seq(Byte) /\ Len(f) = l
  <2>1. \A i \in 1 .. l : <<This, i>> \in Byte
    BY <1>1 DEF Byte
  <2>2. f \in [1 .. l -> Byte]
    BY <1>2, <2>1
  <2> QED
    BY <1>2, <2>2, SeqDef
<1>6. \A i \in 1 .. l : f[i] = <<This, i>>
  BY <1>2
<1> HIDE DEF f
<1>7. /\ part \in Seq(Byte) /\ Len(part) = n
      /\ \A i \in 1 .. n : part[i] = f[a + i - 1]
  BY <1>2, <1>3, <1>5, PieceType
<1>8. \A i \in 1 .. n : part[i] = <<This, sndPos + i>>
  BY <1>4, <1>6, <1>7
<1> HIDE DEF part
<1>9. IsPiece(part, This, sndPos, n)
  BY <1>7, <1>8 DEF IsPiece
<1> QED
  BY <1>9 DEF part, f, a, b

\* The types after the caller has composed, or the sender has written.
LEMMA TypeSender ==
  ASSUME ChannelTypeOK, sndPc # "idle" => This > 0, Compose \/ Writes
  PROVE  ChannelTypeOK'
<1> USE DEF sender, links, readers, auxVars
<1>1. CASE Compose
  <2>1. PICK id \in 0 .. 1, d \in Data : snd_msg' = AddParam(snd_msg, id, d)
    BY <1>1 DEF Compose
  <2>2. id \in 0 .. IdSpace - 1
    BY LayoutAssumption
  <2>3. WellFormed(snd_msg')
    BY <2>1, <2>2, AddParamWellFormed DEF ChannelTypeOK
  <2>4. UNCHANGED <<sent, sndPc, sndPos, sock, opened, closed, wire, reader, got, want,
                    queue, faults, hung, carried, torn>>
    BY <1>1 DEF Compose
  <2> QED
    BY <2>3, <2>4 DEF ChannelTypeOK, This
<1>2. CASE Writes
  <2>1. PICK n \in 1 .. WireBytes : SendPart(n)
    BY <1>2 DEF Writes
  <2>2. /\ UNCHANGED <<snd_msg, sent, sock, opened, closed, reader, got, want, queue, faults,
                       hung, torn>>
        /\ This' = This /\ This > 0 /\ This \in 1 .. This
    BY <2>1 DEF SendPart, ChannelTypeOK, This
  <2> DEFINE part == SubSeq(Frame(This), sndPos + 1, sndPos + n)
  <2>3. part \in Seq(Byte) /\ Len(part) = n
    <3>1. sndPos + n <= Lengths[This]
      BY <2>1, <2>2, FrameType DEF SendPart
    <3> QED
      BY <2>2, <3>1, PartType DEF IsPiece
  <2> HIDE DEF part
  <2>4. sock \in Conns /\ wire[sock] \in Seq(Byte) /\ Len(wire[sock]) + n <= WireBytes
    <3>1. sock \in Conns
      BY <2>1, ChannelAssumption DEF SendPart, ChannelTypeOK, Conns
    <3> QED
      BY <2>1, <3>1 DEF SendPart, ChannelTypeOK
  <2>5. wire' = [wire EXCEPT ![sock] = @ \o part]
    BY <2>1 DEF SendPart, part
  <2>6. wire[sock] \o part \in Seq(Byte) /\ Len(wire[sock] \o part) = Len(wire[sock]) + n
    BY <2>3, <2>4, JoinType
  <2>7. wire' \in [Conns -> Seq(Byte)] /\ \A c \in Conns : Len(wire'[c]) <= WireBytes
    BY <2>4, <2>5, <2>6 DEF ChannelTypeOK
  <2>8. carried' \in [Conns -> Seq(1 .. This)]
    BY <2>1, <2>2, <2>4 DEF SendPart, ChannelTypeOK
  <2>9. sndPc' \in {"idle", "send", "resend", "reconnect"} /\ sndPos' \in Nat
    <3>1. sndPos \in Nat /\ n \in Nat /\ sndPc \in {"send", "resend"}
      BY <2>1, ChannelAssumption DEF SendPart, ChannelTypeOK
    <3> QED
      BY <2>1, <3>1 DEF SendPart
  <2> QED
    BY <2>2, <2>7, <2>8, <2>9 DEF ChannelTypeOK
<1> QED
  BY <1>1, <1>2

\* A message put into the queue.
LEMMA InsertsType ==
  ASSUME ChannelTypeOK, NEW c \in Conns, NEW bytes \in Seq(Byte), Inserts(c, bytes)
  PROVE  /\ queue' \in Seq([conn : Conns, bytes : Seq(Byte)])
         /\ got' \in [Conns -> Seq(Byte)]
         /\ reader' \in [Conns -> {"none", "header", "body", "gone"}]
<1>1. [conn |-> c, bytes |-> bytes] \in [conn : Conns, bytes : Seq(Byte)]
  OBVIOUS
<1>2. queue \in Seq([conn : Conns, bytes : Seq(Byte)])
  BY DEF ChannelTypeOK
<1>3. queue' \in Seq([conn : Conns, bytes : Seq(Byte)])
  BY <1>1, <1>2, AppendProperties DEF Inserts
<1>4. <<>> \in Seq(Byte)
  OBVIOUS
<1> QED
  BY <1>3, <1>4 DEF Inserts, ChannelTypeOK

\* The types after a step of a reader thread.
LEMMA TypeReader ==
  ASSUME ChannelTypeOK, BytesInv, NEW c \in Conns, Reader(c)
  PROVE  ChannelTypeOK'
<1> USE DEF sender, links, readers, auxVars
<1>1. CASE \E n \in 1 .. WireBytes : RecvHeader(c, n)
  <2>1. PICK n \in 1 .. WireBytes : RecvHeader(c, n)
    BY <1>1
  <2> DEFINE bytes == Read(c, n)
  <2>2. Receives(c, n)
    BY <2>1 DEF RecvHeader
  <2>3. /\ wire' \in [Conns -> Seq(Byte)] /\ \A d \in Conns : Len(wire'[d]) <= WireBytes
        /\ bytes \in Seq(Byte)
    BY <2>2, ReceivesPart
  <2> HIDE DEF bytes
  <2>4. UNCHANGED <<snd_msg, sent, sndPc, sndPos, sock, opened, closed, faults, hung,
                    carried, torn>> /\ This' = This
    BY <2>1 DEF RecvHeader, This
  <2>5. CASE Len(bytes) < EndOfHeader
    BY <2>1, <2>3, <2>4, <2>5 DEF RecvHeader, ChannelTypeOK, bytes, Read
  <2>6. CASE ~ (Len(bytes) < EndOfHeader)
    <3>1. PICK length \in LengthIn(bytes) :
            /\ want' = [want EXCEPT ![c] = EndOfHeader + length]
            /\ IF length = 0 THEN Inserts(c, bytes)
               ELSE /\ got' = [got EXCEPT ![c] = bytes]
                    /\ reader' = [reader EXCEPT ![c] = "body"]
                    /\ UNCHANGED queue
      BY <2>1, <2>6 DEF RecvHeader, bytes, Read
    <3>2. length \in Nat
      <4> DEFINE k == bytes[1][1]
      <4>1. bytes \in Seq(Byte) /\ Len(bytes) > 0 /\ IsPart(bytes, Stream[c], 0)
        BY <2>2, ReceivesPart DEF bytes
      <4>2. Consists(bytes, Lengths)
        BY <4>1, StreamType, PartOfStream DEF BytesInv
      <4>3. k \in 1 .. This
        BY <4>1, <4>2, FrameType DEF Consists
      <4>4. sent[k].length \in Nat
        BY <4>3, FrameType
      <4> QED
        BY <3>1, <4>4, ChannelAssumption DEF LengthIn
    <3>3. want' \in [Conns -> Nat]
      BY <3>1, <3>2, LayoutAssumption DEF ChannelTypeOK
    <3>4. CASE length = 0
      BY <2>3, <2>4, <3>1, <3>3, <3>4, InsertsType DEF ChannelTypeOK
    <3>5. CASE length # 0
      BY <2>3, <2>4, <3>1, <3>3, <3>5 DEF ChannelTypeOK
    <3> QED
      BY <3>4, <3>5
  <2> QED
    BY <2>5, <2>6
<1>2. CASE \E n \in 1 .. WireBytes : RecvBody(c, n)
  <2>1. PICK n \in 1 .. WireBytes : RecvBody(c, n)
    BY <1>2
  <2> DEFINE bytes == Read(c, n)
  <2>2. Receives(c, n)
    BY <2>1 DEF RecvBody
  <2>3. /\ wire' \in [Conns -> Seq(Byte)] /\ \A d \in Conns : Len(wire'[d]) <= WireBytes
        /\ bytes \in Seq(Byte)
    BY <2>2, ReceivesPart
  <2> HIDE DEF bytes
  <2>4. UNCHANGED <<snd_msg, sent, sndPc, sndPos, sock, opened, closed, want, faults, hung,
                    carried, torn>> /\ This' = This
    BY <2>1 DEF RecvBody, This
  <2>5. CASE Len(bytes) < want[c]
    BY <2>1, <2>3, <2>4, <2>5 DEF RecvBody, ChannelTypeOK, bytes, Read
  <2>6. CASE ~ (Len(bytes) < want[c])
    <3>1. Inserts(c, bytes)
      BY <2>1, <2>6 DEF RecvBody, bytes, Read
    <3> QED
      BY <2>3, <2>4, <3>1, InsertsType DEF ChannelTypeOK
  <2> QED
    BY <2>5, <2>6
<1>3. CASE HeaderTimeout(c)
  BY <1>3 DEF HeaderTimeout, ChannelTypeOK, This
<1>4. CASE ReaderCloses(c)
  BY <1>4 DEF ReaderCloses, ChannelTypeOK, This
<1> QED
  BY <1>1, <1>2, <1>3, <1>4 DEF Reader

-----------------------------------------------------------------------------
(* Every step keeps the invariant.                                         *)

\* The stream of a connection in the next state.
LEMMA NextStreamType ==
  ASSUME ChannelTypeOK', NEW c \in Conns
  PROVE  /\ got'[c] \in Seq(Byte) /\ wire'[c] \in Seq(Byte)
         /\ Stream'[c] = got'[c] \o wire'[c] /\ Stream'[c] \in Seq(Byte)
         /\ carried'[c] \in Seq(1 .. This')
<1>1. got'[c] \in Seq(Byte) /\ wire'[c] \in Seq(Byte) /\ carried'[c] \in Seq(1 .. This')
  BY DEF ChannelTypeOK
<1>2. Stream'[c] = got'[c] \o wire'[c]
  BY DEF Stream
<1> QED
  BY <1>1, <1>2, JoinType

\* What depends on the calls stays as they do.
LEMMA SameCalls ==
  ASSUME UNCHANGED sent
  PROVE  This' = This /\ Lengths' = Lengths
BY DEF This, Lengths, FrameLength

\* What depends on the queue stays as it does.
LEMMA SameQueue ==
  ASSUME UNCHANGED queue
  PROVE  Delivered' = Delivered /\ Places' = Places
BY DEF Delivered, Places, Place

\* InFrame is about what is in the queue, and the connections that are not
\* torn; what they carry is only added to, and so are the calls.
LEMMA FrameKept ==
  ASSUME ChannelTypeOK, FrameInv, UNCHANGED queue, torn \subseteq torn',
         \A k \in 1 .. This : Lengths'[k] = Lengths[k],
         \A c \in Conns : Starts(carried[c], carried'[c])
  PROVE  FrameInv'
<1>1. SUFFICES ASSUME NEW i \in 1 .. Len(queue), queue[i].conn \notin torn'
               PROVE  /\ Places[i] \in 1 .. Len(carried'[queue[i].conn])
                      /\ queue[i].bytes = Whole(carried'[queue[i].conn][Places[i]], Lengths')
  BY SameQueue DEF FrameInv
<1> DEFINE c == queue[i].conn
           p == Places[i]
           k == carried[c][p]
<1>2. c \in Conns
  <2>1. queue[i] \in [conn : Conns, bytes : Seq(Byte)]
    BY ElementOfSeq DEF ChannelTypeOK
  <2> QED
    BY <2>1
<1>3. carried[c] \in Seq(1 .. This) /\ Starts(carried[c], carried'[c])
  BY <1>2, StreamType
<1>4. p \in 1 .. Len(carried[c]) /\ queue[i].bytes = Whole(k, Lengths)
  BY <1>1 DEF FrameInv
<1>5. Len(carried'[c]) \in Nat
  <2>1. carried'[c] = carried'[c]
    OBVIOUS
  <2> QED
    BY <1>3, <1>4 DEF Starts, Agree
<1>6. k \in 1 .. This
  BY <1>3, <1>4, ElementOfSeq
<1>7. Whole(k, Lengths') = Whole(k, Lengths)
  BY <1>6 DEF Whole
<1>8. carried'[c][p] = k
  BY <1>3, <1>4 DEF Starts, Agree
<1>9. p \in 1 .. Len(carried'[c])
  BY <1>3, <1>4, <1>5 DEF Starts, Agree
<1> QED
  BY <1>4, <1>7, <1>8, <1>9

\* A step that makes no call, hands over nothing and adds no bytes.
LEMMA CalmStep ==
  ASSUME ChannelInv, ChannelTypeOK', UNCHANGED <<sent, queue, carried>>, torn \subseteq torn',
         \A c \in Conns : IsPart(Stream'[c], Stream[c], 0),
         sndPc' # "idle" => sndPc # "idle"
  PROVE  /\ BytesInv' /\ OnceInv' /\ FrameInv'
         /\ \A c \in Conns \ torn' :
              reader[c] \in {"header", "body"} \/ Stream'[c] = <<>> =>
                /\ Begins(Stream'[c], carried'[c], Delivered'[c])
                /\ Runs(Stream'[c], Lengths')
                /\ Joins(Stream'[c], carried'[c], Lengths')
<1>1. Lengths' = Lengths /\ This' = This /\ Delivered' = Delivered
  BY SameCalls, SameQueue
<1>2. \A c \in Conns : Stream[c] \in Seq(Byte) /\ Stream'[c] \in Seq(Byte)
  BY StreamType, NextStreamType DEF ChannelInv
<1>3. ASSUME NEW c \in Conns
      PROVE  /\ Consists(Stream'[c], Lengths)
             /\ Runs(Stream[c], Lengths) => Runs(Stream'[c], Lengths)
             /\ \A q : Joins(Stream[c], q, Lengths) => Joins(Stream'[c], q, Lengths)
             /\ \A u : Apart(Stream[c], u, Lengths) => Apart(Stream'[c], u, Lengths)
             /\ \A u : Apart(u, Stream[c], Lengths) => Apart(u, Stream'[c], Lengths)
             /\ Single(Stream'[c], Lengths)
             /\ \A k : Lacks(Stream[c], k, Lengths) => Lacks(Stream'[c], k, Lengths)
  <2>1. Consists(Stream[c], Lengths) /\ Single(Stream[c], Lengths)
    BY DEF ChannelInv, BytesInv, OnceInv
  <2>2. IsPart(Stream'[c], Stream[c], 0) /\ Stream[c] \in Seq(Byte) /\ Stream'[c] \in Seq(Byte)
    BY <1>2
  <2> QED
    BY <2>1, <2>2, PartOfStream
<1>4. BytesInv'
  BY <1>1, <1>3 DEF ChannelInv, BytesInv
<1>5. OnceInv'
  <2>1. ASSUME NEW c \in Conns, NEW d \in Conns, c # d
        PROVE  Apart(Stream'[c], Stream'[d], Lengths)
    <3>1. Apart(Stream[c], Stream[d], Lengths)
      BY <2>1 DEF ChannelInv, OnceInv
    <3>2. Apart(Stream'[c], Stream[d], Lengths)
      BY <1>3, <3>1
    <3> QED
      BY <1>3, <3>2
  <2>2. ASSUME NEW c \in Conns, NEW m \in 1 .. Len(queue)
        PROVE  Apart(Stream'[c], queue[m].bytes, Lengths)
    BY <1>3 DEF ChannelInv, OnceInv
  <2>3. sndPc' # "idle" => \A c \in Conns : Lacks(Stream'[c], This, Lengths)
    BY <1>3 DEF ChannelInv, OnceInv
  <2>4. \A c \in Conns : Single(Stream'[c], Lengths)
    BY <1>3
  <2>5. /\ \A m, n \in 1 .. Len(queue) : m # n => Apart(queue[m].bytes, queue[n].bytes, Lengths)
        /\ sndPc' # "idle" => \A m \in 1 .. Len(queue) : Lacks(queue[m].bytes, This, Lengths)
    BY DEF ChannelInv, OnceInv
  <2> QED
    BY <1>1, <2>1, <2>2, <2>3, <2>4, <2>5 DEF OnceInv
<1>6. FrameInv'
  <2>1. \A c \in Conns : Starts(carried[c], carried'[c])
    <3>1. \A c \in Conns : Len(carried[c]) \in Nat
      BY StreamType DEF ChannelInv
    <3> QED
      BY <3>1 DEF Starts, Agree
  <2> QED
    BY <1>1, <2>1, FrameKept DEF ChannelInv
<1>7. ASSUME NEW c \in Conns \ torn', reader[c] \in {"header", "body"} \/ Stream'[c] = <<>>
      PROVE  /\ Begins(Stream'[c], carried'[c], Delivered'[c])
             /\ Runs(Stream'[c], Lengths')
             /\ Joins(Stream'[c], carried'[c], Lengths')
  <2>1. CASE Stream'[c] = <<>>
    BY <2>1 DEF Begins, Runs, Joins
  <2>2. CASE reader[c] \in {"header", "body"}
    <3>1. /\ Begins(Stream[c], carried[c], Delivered[c])
          /\ Runs(Stream[c], Lengths) /\ Joins(Stream[c], carried[c], Lengths)
      BY <2>2 DEF ChannelInv, StreamInv
    <3>2. Runs(Stream'[c], Lengths) /\ Joins(Stream'[c], carried[c], Lengths)
      BY <1>3, <3>1
    <3>3. Begins(Stream'[c], carried[c], Delivered[c])
      <4>1. Stream'[c] # <<>> => Stream[c] # <<>> /\ Stream'[c][1] = Stream[c][1]
        <5>1. Stream'[c] # <<>> => 1 \in 1 .. Len(Stream'[c])
          BY <1>2
        <5>2. IsPart(Stream'[c], Stream[c], 0)
          OBVIOUS
        <5>3. Stream'[c] # <<>> => 0 + 1 \in 1 .. Len(Stream[c]) /\ Stream'[c][1] = Stream[c][0 + 1]
          BY <5>1, <5>2 DEF IsPart
        <5> QED
          BY <1>2, <5>3
      <4> QED
        BY <3>1, <4>1 DEF Begins
    <3> QED
      BY <1>1, <3>2, <3>3
  <2> QED
    BY <1>7, <2>1, <2>2
<1> QED
  BY <1>4, <1>5, <1>6, <1>7

\* Connections still to come after p are also still to come after o.
LEMMA LaterConns ==
  ASSUME NEW m \in Nat, NEW o \in Nat, NEW p \in Nat, o <= p, NEW c \in p + 1 .. m
  PROVE  c \in o + 1 .. m /\ c \in 1 .. m
OBVIOUS

\* Where the sender is after a step that makes no call and writes nothing.
LEMMA CalmSender ==
  ASSUME ChannelInv,
         \/ Compose \/ SendTimeout \/ SendFails \/ SendWithout \/ ClientReaderCloses
         \/ Reconnect \/ ReconnectFails \/ Hang \/ UNCHANGED chanVars
  PROVE  SenderInv'
<1> USE DEF sender, links, readers, auxVars, chanVars
<1>1. UNCHANGED <<sent, queue, carried, got>> /\ Len(sent') = Len(sent)
  BY DEF Compose, SendTimeout, SendFails, SendWithout, ClientReaderCloses, Reconnect,
         ReconnectFails, Hang
<1>2. Lengths' = Lengths /\ This' = This
  BY <1>1, SameCalls
<1>3. PcInv /\ UnusedInv /\ OrderInv /\ ChannelTypeOK
  BY DEF ChannelInv, SenderInv
<1>4. MaxConns \in Nat /\ opened \in Nat /\ opened' \in Nat /\ opened <= opened'
  <2>1. MaxConns \in Nat /\ opened \in Nat
    BY <1>3, ChannelAssumption DEF ChannelTypeOK, Conns
  <2>2. opened' \in {opened, opened + 1}
    BY DEF Compose, SendTimeout, SendFails, SendWithout, ClientReaderCloses, Reconnect,
           ReconnectFails, Hang
  <2> QED
    BY <2>1, <2>2
<1>5. PcInv'
  <2>1. CASE Compose
    BY <1>2, <1>3, <2>1 DEF PcInv, Compose
  <2>2. CASE SendTimeout
    BY <1>2, <1>3, <2>2 DEF PcInv, SendTimeout, AfterFailure
  <2>3. CASE SendFails
    BY <1>2, <1>3, <2>3 DEF PcInv, SendFails, AfterFailure
  <2>4. CASE SendWithout
    BY <1>2, <1>3, <2>4 DEF PcInv, SendWithout, AfterFailure
  <2>5. CASE ClientReaderCloses
    BY <1>2, <1>3, <2>5 DEF PcInv, ClientReaderCloses
  <2>6. CASE Reconnect
    <3>1. This > 0 /\ sndPos = 0
      BY <1>3, <2>6 DEF PcInv, Reconnect
    <3>2. This \in 1 .. This /\ Lengths[This] > 0
      BY <1>3, <3>1, FrameType
    <3> QED
      BY <1>2, <2>6, <3>1, <3>2 DEF PcInv, Reconnect
  <2>7. CASE ReconnectFails
    BY <1>2, <1>3, <2>7 DEF PcInv, ReconnectFails
  <2>8. CASE Hang
    BY <1>2, <1>3, <2>8 DEF PcInv, Hang
  <2>9. CASE UNCHANGED chanVars
    BY <1>2, <1>3, <2>9 DEF PcInv
  <2> QED
    BY <2>1, <2>2, <2>3, <2>4, <2>5, <2>6, <2>7, <2>8, <2>9
<1>6. UnusedInv'
  <2>1. ASSUME NEW c \in opened' + 1 .. MaxConns
        PROVE  /\ c \in Conns
               /\ wire[c] = <<>> /\ got[c] = <<>> /\ carried[c] = <<>>
               /\ \A m \in 1 .. Len(queue) : queue[m].conn # c
    <3>1. c \in opened + 1 .. MaxConns /\ c \in 1 .. MaxConns
      BY <1>4, LaterConns
    <3> QED
      BY <1>3, <3>1 DEF UnusedInv, Conns
  <2>2. ASSUME NEW c \in opened' + 1 .. MaxConns PROVE wire'[c] = <<>>
    <3>2. c \in Conns /\ wire[c] = <<>> /\ wire \in [Conns -> Seq(Byte)]
      BY <1>3, <2>1 DEF ChannelTypeOK
    <3>3. wire' = wire \/ wire' = [wire EXCEPT ![sock] = <<>>]
      BY DEF Compose, SendTimeout, SendFails, SendWithout, ClientReaderCloses, Reconnect,
             ReconnectFails, Hang
    <3> QED
      BY <3>2, <3>3
  <2> QED
    BY <1>1, <2>1, <2>2 DEF UnusedInv
<1>7. OrderInv'
  <2>1. CASE Reconnect
    <3>1. /\ sock' \in opened + 1 .. MaxConns /\ sndPos' = 0
      BY <1>3, <1>4, <2>1, ChannelAssumption DEF Reconnect, PcInv
    <3>2. carried'[sock'] = <<>>
      BY <1>1, <1>3, <3>1 DEF UnusedInv
    <3>3. 1 .. Len(carried'[sock']) = {}
      BY <3>2
    <3> QED
      BY <1>1, <1>3, <3>1, <3>3 DEF OrderInv
  <2>2. CASE ~ Reconnect
    <3>1. sock' # 0 => sock' = sock
      BY <2>2 DEF Compose, SendTimeout, SendFails, SendWithout, ClientReaderCloses,
                  ReconnectFails, Hang
    <3>2. sock' # 0 /\ sndPc' # "idle" => sndPc # "idle" /\ sndPos' = sndPos
      BY <1>3, <2>2 DEF Compose, SendTimeout, SendFails, SendWithout, ClientReaderCloses,
                  ReconnectFails, Hang, PcInv
    <3>3. sock' # 0 /\ sndPos' > 0 => sndPos > 0
      BY <1>3, <2>2 DEF Compose, SendTimeout, SendFails, SendWithout, ClientReaderCloses,
                  ReconnectFails, Hang, PcInv
    <3> QED
      BY <1>1, <1>2, <1>3, <3>1, <3>2, <3>3 DEF OrderInv
  <2> QED
    BY <2>1, <2>2
<1> QED
  BY <1>5, <1>6, <1>7 DEF SenderInv

\* The streams after such a step.
LEMMA CalmStreams ==
  ASSUME ChannelInv, ChannelTypeOK',
         \/ Compose \/ SendTimeout \/ SendFails \/ SendWithout \/ ClientReaderCloses
         \/ Reconnect \/ ReconnectFails \/ Hang \/ UNCHANGED chanVars
  PROVE  ChannelInv'
<1> USE DEF sender, links, readers, auxVars, chanVars
<1>1. UNCHANGED <<sent, queue, carried, got, want>> /\ torn \subseteq torn'
      /\ (sndPc' # "idle" => sndPc # "idle")
  <2>1. UNCHANGED <<sent, queue, carried, got, want>>
    BY DEF Compose, SendTimeout, SendFails, SendWithout, ClientReaderCloses, Reconnect,
           ReconnectFails, Hang
  <2>2. torn \subseteq torn'
    BY DEF Compose, SendTimeout, SendFails, SendWithout, ClientReaderCloses, Reconnect,
           ReconnectFails, Hang
  <2>3. sndPc' # "idle" => sndPc # "idle"
    BY DEF Compose, SendTimeout, SendFails, SendWithout, ClientReaderCloses, Reconnect,
           ReconnectFails, Hang
  <2> QED
    BY <2>1, <2>2, <2>3
<1>2. Lengths' = Lengths /\ This' = This /\ Delivered' = Delivered
  BY <1>1, SameCalls, SameQueue
<1>3. ChannelTypeOK /\ PcInv /\ UnusedInv /\ StreamInv
  BY DEF ChannelInv, SenderInv
<1>4. wire' = wire \/ (SendFails /\ wire' = [wire EXCEPT ![sock] = <<>>])
  BY DEF Compose, SendTimeout, SendFails, SendWithout, ClientReaderCloses, Reconnect,
         ReconnectFails, Hang
<1>5. ASSUME NEW c \in Conns
      PROVE  /\ Stream'[c] = Stream[c] \/ (sock' = 0 /\ Stream'[c] = got[c])
             /\ IsPart(Stream'[c], Stream[c], 0)
  <2>1. /\ got[c] \in Seq(Byte) /\ wire[c] \in Seq(Byte) /\ Stream[c] \in Seq(Byte)
        /\ Stream[c] = got[c] \o wire[c] /\ Stream'[c] = got[c] \o wire'[c]
    BY <1>1, <1>3, StreamType, NextStreamType
  <2>2. wire'[c] = wire[c] \/ (sock' = 0 /\ wire'[c] = <<>>)
    BY <1>3, <1>4 DEF ChannelTypeOK, SendFails
  <2>3. got[c] \o <<>> = got[c]
    BY <2>1
  <2>4. Stream'[c] = Stream[c] \/ (sock' = 0 /\ Stream'[c] = got[c])
    BY <2>1, <2>2, <2>3
  <2>5. IsPart(Stream[c], Stream[c], 0) /\ IsPart(got[c], Stream[c], 0)
    BY <2>1, FirstPart
  <2> QED
    BY <2>4, <2>5
<1>6. /\ BytesInv' /\ OnceInv' /\ FrameInv'
      /\ \A c \in Conns \ torn' :
           reader[c] \in {"header", "body"} \/ Stream'[c] = <<>> =>
             /\ Begins(Stream'[c], carried'[c], Delivered'[c])
             /\ Runs(Stream'[c], Lengths')
             /\ Joins(Stream'[c], carried'[c], Lengths')
  BY <1>1, <1>5, CalmStep
<1>7. ASSUME NEW c \in Conns \ torn', reader'[c] \in {"header", "body"}
      PROVE  /\ Begins(Stream'[c], carried'[c], Delivered'[c])
             /\ Runs(Stream'[c], Lengths')
             /\ Joins(Stream'[c], carried'[c], Lengths')
             /\ c = sock' => Ends(Stream'[c], carried'[c], Delivered'[c], Lengths', sndPos')
             /\ Waits(reader'[c], got'[c], want'[c], Lengths')
  <2>1. CASE Reconnect /\ c = opened + 1
    <3>1. c \in opened + 1 .. MaxConns /\ sndPos' = 0 /\ reader'[c] = "header"
      BY <1>3, <2>1, ChannelAssumption DEF Reconnect, PcInv, ChannelTypeOK, Conns
    <3>2. /\ got[c] = <<>> /\ wire[c] = <<>> /\ carried[c] = <<>>
          /\ \A m \in 1 .. Len(queue) : queue[m].conn # c
      BY <1>3, <3>1 DEF UnusedInv
    <3>3. Stream'[c] = <<>>
      <4>1. wire' = wire
        BY <2>1 DEF Reconnect
      <4>2. Stream'[c] = got[c] \o wire[c]
        BY <1>1, <4>1, NextStreamType
      <4> QED
        BY <3>2, <4>2
    <3>4. Delivered'[c] = 0
      <4>1. {j \in 1 .. Len(queue) : queue[j].conn = c} = {}
        BY <3>2
      <4>2. Delivered[c] = Cardinality({})
        BY <4>1 DEF Delivered, Handed
      <4> QED
        BY <1>2, <4>2, FS_EmptySet
    <3>5. Len(carried'[c]) = 0 /\ Len(got'[c]) = 0 /\ EndOfHeader > 0
      BY <1>1, <3>2, LayoutAssumption
    <3>6. Ends(Stream'[c], carried'[c], Delivered'[c], Lengths', sndPos')
      BY <3>1, <3>3, <3>4, <3>5 DEF Ends
    <3>7. Waits(reader'[c], got'[c], want'[c], Lengths')
      BY <3>1, <3>5 DEF Waits
    <3> QED
      BY <1>6, <3>3, <3>6, <3>7
  <2>2. CASE ~ (Reconnect /\ c = opened + 1)
    <3>1. reader'[c] = reader[c]
      BY <1>3, <2>2 DEF Compose, SendTimeout, SendFails, SendWithout, ClientReaderCloses,
                  Reconnect, ReconnectFails, Hang, ChannelTypeOK
    <3>2. /\ c = sock => Ends(Stream[c], carried[c], Delivered[c], Lengths, sndPos)
          /\ Waits(reader[c], got[c], want[c], Lengths)
      BY <1>1, <1>3, <1>7, <3>1 DEF StreamInv
    <3>3. c # 0
      BY <1>3 DEF Conns
    <3>4. c = sock' => c = sock /\ Stream'[c] = Stream[c]
      <4>1. c = sock' => c = sock
        BY <2>2, <3>3 DEF Compose, SendTimeout, SendFails, SendWithout, ClientReaderCloses,
                     Reconnect, ReconnectFails, Hang
      <4> QED
        BY <1>5, <3>3, <4>1
    <3>5. c = sock' => sndPos' = sndPos
      BY <1>3, <1>7, <2>2, <3>3 DEF Compose, SendTimeout, SendFails, SendWithout, ClientReaderCloses,
                     Reconnect, ReconnectFails, Hang, PcInv, ChannelTypeOK
    <3>6. c = sock' => Ends(Stream'[c], carried'[c], Delivered'[c], Lengths', sndPos')
      BY <1>1, <1>2, <3>2, <3>4, <3>5
    <3> QED
      BY <1>1, <1>2, <1>6, <1>7, <3>1, <3>2, <3>6
  <2> QED
    BY <2>1, <2>2
<1>8. StreamInv'
  BY <1>7 DEF StreamInv
<1> QED
  BY <1>6, <1>8, CalmSender DEF ChannelInv

\* A reader's step that hands over nothing: it takes bytes from the wire, or
\* gives up.
LEMMA ReaderCalm ==
  ASSUME ChannelInv, ChannelTypeOK', NEW c \in Conns,
         UNCHANGED <<sent, sndPc, sndPos, sock, opened, carried, queue>>, torn \subseteq torn',
         \A d \in Conns : d # c => /\ wire'[d] = wire[d] /\ got'[d] = got[d]
                                   /\ reader'[d] = reader[d] /\ want'[d] = want[d],
         wire[c] = <<>> => wire'[c] = <<>> /\ (got'[c] = <<>> \/ got'[c] = got[c]),
         IsPart(Stream'[c], Stream[c], 0),
         \/ c \in torn' \/ reader'[c] \notin {"header", "body"}
         \/ /\ Stream'[c] = Stream[c] /\ reader[c] \in {"header", "body"}
            /\ c \notin torn => Waits(reader'[c], got'[c], want'[c], Lengths)
  PROVE  ChannelInv'
<1>1. Lengths' = Lengths /\ This' = This /\ Delivered' = Delivered
  BY SameCalls, SameQueue
<1>2. ChannelTypeOK /\ PcInv /\ UnusedInv /\ OrderInv /\ StreamInv
  BY DEF ChannelInv, SenderInv
<1>3. ASSUME NEW d \in Conns, d # c
      PROVE  Stream'[d] = Stream[d] /\ IsPart(Stream'[d], Stream[d], 0)
  <2>1. wire'[d] = wire[d] /\ got'[d] = got[d]
    BY <1>3
  <2>2. /\ Stream[d] = got[d] \o wire[d] /\ Stream'[d] = got'[d] \o wire'[d]
        /\ Stream[d] \in Seq(Byte)
    BY <1>2, StreamType, NextStreamType
  <2> QED
    BY <2>1, <2>2, FirstPart
<1>4. \A d \in Conns : IsPart(Stream'[d], Stream[d], 0)
  BY <1>3
<1>5. /\ BytesInv' /\ OnceInv' /\ FrameInv'
      /\ \A d \in Conns \ torn' :
           reader[d] \in {"header", "body"} \/ Stream'[d] = <<>> =>
             /\ Begins(Stream'[d], carried'[d], Delivered'[d])
             /\ Runs(Stream'[d], Lengths')
             /\ Joins(Stream'[d], carried'[d], Lengths')
  BY <1>4, CalmStep
<1>6. SenderInv'
  <2>1. PcInv'
    BY <1>1, <1>2 DEF PcInv
  <2>2. UnusedInv'
    <3>1. ASSUME NEW d \in opened + 1 .. MaxConns
          PROVE  wire'[d] = <<>> /\ got'[d] = <<>>
      <4>1. opened \in Nat /\ MaxConns \in Nat
        BY <1>2, ChannelAssumption DEF ChannelTypeOK, Conns
      <4>2. d \in Conns
        BY <4>1 DEF Conns
      <4>3. wire[d] = <<>> /\ got[d] = <<>>
        BY <1>2 DEF UnusedInv
      <4> QED
        BY <4>2, <4>3
    <3> QED
      BY <1>2, <3>1 DEF UnusedInv
  <2>3. OrderInv'
    BY <1>1, <1>2 DEF OrderInv
  <2> QED
    BY <2>1, <2>2, <2>3 DEF SenderInv
<1>7. ASSUME NEW d \in Conns \ torn', reader'[d] \in {"header", "body"}
      PROVE  /\ Begins(Stream'[d], carried'[d], Delivered'[d])
             /\ Runs(Stream'[d], Lengths')
             /\ Joins(Stream'[d], carried'[d], Lengths')
             /\ d = sock' => Ends(Stream'[d], carried'[d], Delivered'[d], Lengths', sndPos')
             /\ Waits(reader'[d], got'[d], want'[d], Lengths')
  <2>1. reader[d] \in {"header", "body"} /\ Stream'[d] = Stream[d] /\ d \notin torn
    BY <1>3, <1>7
  <2>2. /\ d = sock => Ends(Stream[d], carried[d], Delivered[d], Lengths, sndPos)
        /\ Waits(reader[d], got[d], want[d], Lengths)
    BY <1>2, <2>1 DEF StreamInv
  <2>3. Waits(reader'[d], got'[d], want'[d], Lengths')
    BY <1>1, <1>7, <2>1, <2>2
  <2> QED
    BY <1>1, <1>5, <2>1, <2>2, <2>3
<1>8. StreamInv'
  BY <1>7 DEF StreamInv
<1> QED
  BY <1>5, <1>6, <1>8 DEF ChannelInv

\* A reader's step that hands over a message.
LEMMA ReaderInserts ==
  ASSUME ChannelInv, ChannelTypeOK', NEW c \in Conns, NEW n \in 1 .. WireBytes,
         UNCHANGED <<sent, sndPc, sndPos, sock, opened, carried, torn>>,
         \A d \in Conns : d # c => want'[d] = want[d],
         reader[c] \in {"header", "body"}, Receives(c, n), Inserts(c, Read(c, n)),
         c \notin torn => Len(Read(c, n)) = Lengths[Stream[c][1][1]]
  PROVE  ChannelInv'
<1> DEFINE b == Read(c, n)
           s == Stream[c]
           t == Stream'[c]
           N == Len(queue)
<1>1. Lengths' = Lengths /\ This' = This
  BY SameCalls
<1>2. /\ ChannelTypeOK /\ PcInv /\ UnusedInv /\ OrderInv /\ StreamInv /\ OnceInv
      /\ BytesInv /\ FrameInv
  BY DEF ChannelInv, SenderInv
<1>3. /\ b \in Seq(Byte) /\ Len(b) \in Nat /\ Len(b) > 0 /\ wire'[c] \in Seq(Byte)
      /\ Splits(s, b, wire'[c], Len(b)) /\ IsPart(b, s, 0)
      /\ \A d \in Conns : d # c => wire'[d] = wire[d]
  BY <1>2, ReceivesPart
<1>4. t = wire'[c] /\ t \in Seq(Byte) /\ s \in Seq(Byte)
  <2>1. got'[c] = <<>>
    BY <1>2 DEF Inserts, ChannelTypeOK
  <2>2. t = got'[c] \o wire'[c]
    BY NextStreamType
  <2>3. <<>> \o wire'[c] = wire'[c]
    BY <1>3
  <2>4. s \in Seq(Byte)
    BY <1>2, StreamType
  <2> QED
    BY <1>3, <2>1, <2>2, <2>3, <2>4
<1>5. Splits(s, b, t, Len(b)) /\ IsPart(t, s, Len(b))
  BY <1>3, <1>4 DEF Splits
<1>6. ASSUME NEW d \in Conns, d # c
      PROVE  /\ Stream'[d] = Stream[d] /\ got'[d] = got[d] /\ reader'[d] = reader[d]
  <2>1. wire'[d] = wire[d] /\ got'[d] = got[d] /\ reader'[d] = reader[d]
    BY <1>2, <1>3, <1>6 DEF Inserts, ChannelTypeOK
  <2>2. Stream[d] = got[d] \o wire[d] /\ Stream'[d] = got'[d] \o wire'[d]
    BY <1>2, StreamType, NextStreamType
  <2> QED
    BY <2>1, <2>2
\* The queue.
<1>7. N \in Nat /\ queue' = Append(queue, [conn |-> c, bytes |-> b])
  BY <1>2 DEF Inserts, ChannelTypeOK
<1>8. Len(queue') = N + 1 /\ queue'[N + 1] = [conn |-> c, bytes |-> b]
  BY <1>2, <1>7 DEF ChannelTypeOK
<1>9. \A m \in 1 .. N : queue'[m] = queue[m]
  BY <1>2, <1>7 DEF ChannelTypeOK
<1>10. queue'[N + 1].conn = c /\ queue'[N + 1].bytes = b
  BY <1>8
<1> HIDE DEF b, s, t, N
<1>11. \A m \in 1 .. N + 1 : m \in 1 .. N \/ m = N + 1
  BY <1>7
\* The bytes.
<1>12. /\ Consists(b, Lengths) /\ Consists(t, Lengths) /\ Single(t, Lengths)
       /\ \A u : Apart(s, u, Lengths) => Apart(b, u, Lengths) /\ Apart(t, u, Lengths)
       /\ \A u : Apart(u, s, Lengths) => Apart(u, b, Lengths) /\ Apart(u, t, Lengths)
       /\ \A k : Lacks(s, k, Lengths) => Lacks(b, k, Lengths) /\ Lacks(t, k, Lengths)
       /\ Apart(t, b, Lengths)
  <2>1. Consists(s, Lengths) /\ Single(s, Lengths)
    BY <1>2 DEF BytesInv, OnceInv, s
  <2>2. Apart(t, b, Lengths)
    BY <1>3, <1>4, <1>5, <2>1, SplitApart
  <2>3. /\ Consists(b, Lengths)
        /\ \A u : Apart(s, u, Lengths) => Apart(b, u, Lengths)
        /\ \A u : Apart(u, s, Lengths) => Apart(u, b, Lengths)
        /\ \A k : Lacks(s, k, Lengths) => Lacks(b, k, Lengths)
    BY <1>3, <1>4, <2>1, PartOfStream
  <2>4. /\ Consists(t, Lengths) /\ Single(t, Lengths)
        /\ \A u : Apart(s, u, Lengths) => Apart(t, u, Lengths)
        /\ \A u : Apart(u, s, Lengths) => Apart(u, t, Lengths)
        /\ \A k : Lacks(s, k, Lengths) => Lacks(t, k, Lengths)
    BY <1>3, <1>4, <1>5, <2>1, PartOfStream
  <2> QED
    BY <2>2, <2>3, <2>4
<1>13. BytesInv'
  <2>1. ASSUME NEW d \in Conns PROVE Consists(Stream'[d], Lengths)
    BY <1>2, <1>6, <1>12 DEF BytesInv, t
  <2>2. ASSUME NEW m \in 1 .. N + 1 PROVE Consists(queue'[m].bytes, Lengths)
    BY <1>2, <1>9, <1>10, <1>11, <1>12 DEF BytesInv, N
  <2> QED
    BY <1>1, <1>8, <2>1, <2>2 DEF BytesInv
<1>14. OnceInv'
  <2>1. ASSUME NEW d \in Conns, NEW e \in Conns, d # e
        PROVE  Apart(Stream'[d], Stream'[e], Lengths)
    <3>1. Apart(Stream[d], Stream[e], Lengths)
      BY <1>2, <2>1 DEF OnceInv
    <3>2. CASE d = c
      BY <1>6, <1>12, <2>1, <3>1, <3>2 DEF s, t
    <3>3. CASE d # c /\ e = c
      BY <1>6, <1>12, <3>1, <3>3 DEF s, t
    <3>4. CASE d # c /\ e # c
      BY <1>6, <3>1, <3>4
    <3> QED
      BY <3>2, <3>3, <3>4
  <2>2. ASSUME NEW d \in Conns PROVE Single(Stream'[d], Lengths)
    BY <1>2, <1>6, <1>12 DEF OnceInv, t
  <2>3. ASSUME NEW d \in Conns, NEW m \in 1 .. N + 1
        PROVE  Apart(Stream'[d], queue'[m].bytes, Lengths)
    <3>1. CASE m \in 1 .. N
      <4>1. Apart(Stream[d], queue[m].bytes, Lengths)
        BY <1>2, <3>1 DEF OnceInv, N
      <4> QED
        BY <1>6, <1>9, <1>12, <3>1, <4>1 DEF s, t
    <3>2. CASE m = N + 1 /\ d # c
      <4>1. Apart(Stream[d], s, Lengths)
        BY <1>2, <3>2 DEF OnceInv, s
      <4> QED
        BY <1>6, <1>10, <1>12, <3>2, <4>1
    <3>3. CASE m = N + 1 /\ d = c
      BY <1>10, <1>12, <3>3 DEF t
    <3> QED
      BY <1>11, <3>1, <3>2, <3>3
  <2>4. ASSUME NEW l \in 1 .. N + 1, NEW m \in 1 .. N + 1, l # m
        PROVE  Apart(queue'[l].bytes, queue'[m].bytes, Lengths)
    <3>1. CASE l \in 1 .. N /\ m \in 1 .. N
      BY <1>2, <1>9, <2>4, <3>1 DEF OnceInv, N
    <3>2. ASSUME NEW i \in 1 .. N
          PROVE  Apart(b, queue'[i].bytes, Lengths) /\ Apart(queue'[i].bytes, b, Lengths)
      <4>1. Apart(s, queue[i].bytes, Lengths)
        BY <1>2, <3>2 DEF OnceInv, N, s
      <4>2. Apart(b, queue[i].bytes, Lengths)
        BY <1>12, <4>1
      <4> QED
        BY <1>9, <4>2, ApartBothWays
    <3> QED
      BY <1>10, <1>11, <2>4, <3>1, <3>2
  <2>5. ASSUME sndPc' # "idle"
        PROVE  /\ \A d \in Conns : Lacks(Stream'[d], This, Lengths)
               /\ \A m \in 1 .. N + 1 : Lacks(queue'[m].bytes, This, Lengths)
    <3>1. /\ \A d \in Conns : Lacks(Stream[d], This, Lengths)
          /\ \A m \in 1 .. N : Lacks(queue[m].bytes, This, Lengths)
      BY <1>2, <2>5 DEF OnceInv, N
    <3>2. ASSUME NEW d \in Conns PROVE Lacks(Stream'[d], This, Lengths)
      BY <1>6, <1>12, <3>1 DEF s, t
    <3>3. ASSUME NEW m \in 1 .. N + 1 PROVE Lacks(queue'[m].bytes, This, Lengths)
      <4>1. Lacks(b, This, Lengths)
        BY <1>12, <3>1 DEF s
      <4> QED
        BY <1>9, <1>10, <1>11, <3>1, <4>1
    <3> QED
      BY <3>2, <3>3
  <2> QED
    BY <1>1, <1>8, <2>1, <2>2, <2>3, <2>4, <2>5 DEF OnceInv
\* The sender.
<1>15. SenderInv'
  <2>1. PcInv' /\ OrderInv'
    BY <1>1, <1>2 DEF PcInv, OrderInv
  <2>2. UnusedInv'
    <3>1. ASSUME NEW d \in opened + 1 .. MaxConns
          PROVE  /\ wire'[d] = <<>> /\ got'[d] = <<>>
                 /\ \A m \in 1 .. N + 1 : queue'[m].conn # d
      <4>1. opened \in Nat /\ MaxConns \in Nat
        BY <1>2, ChannelAssumption DEF ChannelTypeOK, Conns
      <4>2. d \in Conns
        BY <4>1 DEF Conns
      <4>3. wire[d] = <<>> /\ got[d] = <<>> /\ \A m \in 1 .. N : queue[m].conn # d
        BY <1>2 DEF UnusedInv, N
      <4>4. d # c
        <5>1. Len(wire[c]) >= n /\ n > 0
          BY <1>2, ChannelAssumption DEF Receives
        <5>2. Len(<<>>) = 0
          OBVIOUS
        <5> QED
          BY <4>3, <5>1, <5>2
      <4> QED
        BY <1>3, <1>6, <1>9, <1>10, <1>11, <4>2, <4>3, <4>4
    <3> QED
      BY <1>2, <1>8, <3>1 DEF UnusedInv
  <2> QED
    BY <2>1, <2>2 DEF SenderInv
\* How many messages each connection has handed over.
<1>16. \A d \in Conns : /\ Delivered[d] \in Nat
                        /\ Delivered'[d] = Delivered[d] + IF d = c THEN 1 ELSE 0
  <2>1. SUFFICES ASSUME NEW d \in Conns
                 PROVE  /\ Delivered[d] \in Nat
                        /\ Delivered'[d] = Delivered[d] + IF d = c THEN 1 ELSE 0
    OBVIOUS
  <2>0. N \in Nat
    BY <1>7
  <2>2. Delivered[d] = Cardinality(Handed(queue, N, d))
    BY DEF Delivered, N
  <2>3. Delivered'[d] = Cardinality(Handed(queue', N + 1, d))
    BY <1>8 DEF Delivered
  <2>4. Cardinality(Handed(queue, N, d)) \in Nat
    BY <1>7, CountType DEF N
  <2>5. /\ queue'[N + 1].conn = d =>
             Cardinality(Handed(queue', N + 1, d)) = Cardinality(Handed(queue, N, d)) + 1
        /\ queue'[N + 1].conn # d =>
             Cardinality(Handed(queue', N + 1, d)) = Cardinality(Handed(queue, N, d))
    <3>1. Agree(queue, queue', N)
      BY <1>9 DEF Agree
    <3> QED
      BY <2>0, <3>1, CountNext
  <2> QED
    BY <1>10, <2>2, <2>3, <2>4, <2>5
<1>17. Places'[N + 1] = Delivered[c] + 1 /\ \A i \in 1 .. N : Places'[i] = Places[i]
  <2>1. \A i \in 1 .. N + 1 :
          Places'[i] = Cardinality({j \in 1 .. i : queue'[j].conn = queue'[i].conn})
    BY <1>8 DEF Places, Place
  <2>2. \A i \in 1 .. N : Places[i] = Cardinality({j \in 1 .. i : queue[j].conn = queue[i].conn})
    BY DEF Places, Place, N
  <2>3. ASSUME NEW i \in 1 .. N
        PROVE  {j \in 1 .. i : queue'[j].conn = queue'[i].conn}
                 = {j \in 1 .. i : queue[j].conn = queue[i].conn}
    <3>1. \A j \in 1 .. i : j \in 1 .. N
      BY <1>7
    <3> QED
      BY <1>9, <3>1
  <2>4. N + 1 \in 1 .. N + 1 /\ \A i \in 1 .. N : i \in 1 .. N + 1
    BY <1>7
  <2>5. Delivered'[c] = Cardinality({j \in 1 .. N + 1 : queue'[j].conn = c})
    BY <1>8 DEF Delivered, Handed
  <2>6. Places'[N + 1] = Delivered'[c]
    BY <1>10, <2>1, <2>4, <2>5
  <2>7. \A i \in 1 .. N : Places'[i] = Places[i]
    BY ZenonT(30), <2>1, <2>2, <2>3, <2>4
  <2> QED
    BY <1>16, <2>6, <2>7
\* The connection's own message and its stream.
<1>18. ASSUME c \notin torn
       PROVE  /\ Delivered[c] + 1 \in 1 .. Len(carried[c])
              /\ b = Whole(carried[c][Delivered[c] + 1], Lengths)
              /\ Begins(t, carried[c], Delivered[c] + 1)
              /\ Runs(t, Lengths) /\ Joins(t, carried[c], Lengths)
              /\ c = sock => Ends(t, carried[c], Delivered[c] + 1, Lengths, sndPos)
  <2> DEFINE q == carried[c]
             d == Delivered[c]
             n0 == Len(b)
  <2>1. /\ Begins(s, q, d) /\ Runs(s, Lengths) /\ Joins(s, q, Lengths)
        /\ c = sock => Ends(s, q, d, Lengths, sndPos)
    BY <1>2, <1>18 DEF StreamInv, s
  <2>2. This \in Nat /\ Lengths \in [1 .. This -> Nat]
    BY <1>2, FrameType
  <2>3. q \in Seq(1 .. This) /\ d \in Nat /\ Rising(q) /\ sndPos \in Nat
    BY <1>2, <1>16, StreamType DEF OrderInv, ChannelTypeOK
  <2>4. FirstHas(s, n0, Lengths)
    BY <1>18 DEF b, s, FirstHas
  <2>5. n0 \in Nat /\ n0 > 0 /\ Splits(s, b, t, n0)
    BY <1>3, <1>5 DEF b, s, t
  <2>6. b \in Seq(Byte) /\ s \in Seq(Byte) /\ t \in Seq(Byte)
    BY <1>3, <1>4 DEF b, s, t
  <2> HIDE DEF q, d, n0
  <2>7. /\ d + 1 \in 1 .. Len(q) /\ b = Whole(q[d + 1], Lengths)
        /\ Begins(t, q, d + 1) /\ Runs(t, Lengths) /\ Joins(t, q, Lengths)
        /\ Ends(s, q, d, Lengths, sndPos) /\ (sndPos > 0 => sndPos < Lengths[q[Len(q)]])
             => Ends(t, q, d + 1, Lengths, sndPos)
    <3>1. Begins(s, q, d) /\ Runs(s, Lengths) /\ Joins(s, q, Lengths)
      BY <2>1
    <3> HIDE DEF s, t, b
    <3> QED
      BY <2>2, <2>3, <2>4, <2>5, <2>6, <3>1, TakeKeepsFrame
  <2>9. c = sock /\ sndPos > 0 => sndPos < Lengths[q[Len(q)]]
    <3>1. SUFFICES ASSUME c = sock, sndPos > 0 PROVE sndPos < Lengths[q[Len(q)]]
      OBVIOUS
    <3>2. sock # 0
      BY <3>1 DEF Conns
    <3>3. q[Len(q)] = This /\ sndPc \in {"send", "resend"}
      BY <1>2, <3>1, <3>2 DEF OrderInv, PcInv, ChannelTypeOK, q
    <3> QED
      BY <1>2, <3>3 DEF PcInv
  <2>10. c = sock => Ends(t, q, d + 1, Lengths, sndPos)
    BY <2>1, <2>7, <2>9
  <2> QED
    BY <2>7, <2>10 DEF q, d
<1>19. FrameInv'
  <2>1. ASSUME NEW i \in 1 .. N + 1, queue'[i].conn \notin torn
        PROVE  /\ Places'[i] \in 1 .. Len(carried[queue'[i].conn])
               /\ queue'[i].bytes = Whole(carried[queue'[i].conn][Places'[i]], Lengths)
    <3>1. CASE i \in 1 .. N
      BY <1>2, <1>9, <1>17, <2>1, <3>1 DEF FrameInv, N
    <3>2. CASE i = N + 1
      BY <1>10, <1>17, <1>18, <2>1, <3>2
    <3> QED
      BY <1>11, <3>1, <3>2
  <2> QED
    BY <1>1, <1>8, <2>1 DEF FrameInv
<1>20. StreamInv'
  <2>1. ASSUME NEW d \in Conns \ torn, reader'[d] \in {"header", "body"}
        PROVE  /\ Begins(Stream'[d], carried[d], Delivered'[d])
               /\ Runs(Stream'[d], Lengths)
               /\ Joins(Stream'[d], carried[d], Lengths)
               /\ d = sock => Ends(Stream'[d], carried[d], Delivered'[d], Lengths, sndPos)
               /\ Waits(reader'[d], got'[d], want'[d], Lengths)
    <3>1. CASE d = c
      <4>1. reader'[c] = "header" /\ Len(got'[c]) = 0 /\ EndOfHeader > 0
        BY <1>2, LayoutAssumption DEF Inserts, ChannelTypeOK
      <4>2. Waits(reader'[c], got'[c], want'[c], Lengths)
        BY <4>1 DEF Waits
      <4> QED
        BY <1>16, <1>18, <2>1, <3>1, <4>2 DEF t
    <3>2. CASE d # c
      <4>1. Stream'[d] = Stream[d] /\ got'[d] = got[d] /\ reader'[d] = reader[d]
            /\ Delivered'[d] = Delivered[d] /\ want'[d] = want[d]
        BY <1>6, <1>16, <3>2
      <4>2. /\ Begins(Stream[d], carried[d], Delivered[d])
            /\ Runs(Stream[d], Lengths)
            /\ Joins(Stream[d], carried[d], Lengths)
            /\ d = sock => Ends(Stream[d], carried[d], Delivered[d], Lengths, sndPos)
            /\ Waits(reader[d], got[d], want[d], Lengths)
        BY <1>2, <2>1, <4>1 DEF StreamInv
      <4> QED
        BY <4>1, <4>2
    <3> QED
      BY <3>1, <3>2
  <2> QED
    BY <1>1, <2>1 DEF StreamInv
<1> QED
  BY <1>13, <1>14, <1>15, <1>19, <1>20 DEF ChannelInv

\* A header that is read in frame tells the length of the message behind it.
LEMMA HeaderTells ==
  ASSUME ChannelInv, NEW c \in Conns, c \notin torn, reader[c] = "header",
         NEW n \in 1 .. WireBytes, Receives(c, n), Len(Read(c, n)) = EndOfHeader
  PROVE  LET k == Stream[c][1][1]
         IN  k \in 1 .. This /\ LengthIn(Read(c, n)) = {sent[k].length}
<1> DEFINE b == Read(c, n)
           s == Stream[c]
           k == s[1][1]
           l == Lengths[k]
<1>1. ChannelTypeOK /\ StreamInv /\ BytesInv
  BY DEF ChannelInv
<1>2. b \in Seq(Byte) /\ Len(b) > 0 /\ IsPart(b, s, 0) /\ s \in Seq(Byte)
  BY <1>1, ReceivesPart, StreamType
<1>3. Begins(s, carried[c], Delivered[c]) /\ Runs(s, Lengths) /\ Consists(s, Lengths)
  BY <1>1 DEF StreamInv, BytesInv
<1>4. Len(b) = EndOfHeader /\ EndOfHeader \in Nat /\ EndOfHeader > 0
  BY LayoutAssumption
<1> HIDE DEF b, s
<1>5. \A i \in 1 .. EndOfHeader : i \in 1 .. Len(s) /\ b[i] = s[i]
  <2>1. \A i \in 1 .. EndOfHeader : 0 + i \in 1 .. Len(s) /\ b[i] = s[0 + i]
    BY <1>2, <1>4 DEF IsPart
  <2>2. \A i \in 1 .. EndOfHeader : 0 + i = i
    BY <1>4
  <2> QED
    BY <2>1, <2>2
<1>6. 1 \in 1 .. Len(s) /\ 1 \in 1 .. EndOfHeader
  BY <1>4, <1>5
<1>7. k \in 1 .. This
  BY <1>1, <1>3, <1>6, FrameType DEF Consists
<1>8. l \in Nat /\ l >= EndOfHeader /\ Frame(k) = [i \in 1 .. l |-> <<k, i>>]
  BY <1>1, <1>7, FrameType
<1>9. s[1] = <<k, 1>>
  <2>1. s # <<>>
    BY <1>2, <1>6
  <2> QED
    BY <1>3, <2>1 DEF Begins
<1> HIDE DEF k
<1>10. ASSUME NEW i \in 1 .. EndOfHeader PROVE b[i] = <<k, i>>
  <2> DEFINE e == i - 1
  <2>1. i \in 1 .. Len(s) /\ b[i] = s[i]
    BY <1>5
  <2>2. Len(s) \in Nat
    BY <1>2
  <2>3. e \in 0 .. Len(s) /\ 1 + e = i /\ 1 + e <= Len(s) /\ 1 + e <= l
    BY <1>4, <1>8, <2>1, <2>2
  <2> HIDE DEF e
  <2>4. s[1][2] + e <= Lengths[s[1][1]]
    BY <1>9, <2>3
  <2>5. s[1 + e] = <<s[1][1], s[1][2] + e>>
    BY <1>3, <1>6, <2>3, <2>4 DEF Runs
  <2> QED
    BY <1>9, <2>1, <2>3, <2>5
<1>11. b = SubSeq(Frame(k), 1, EndOfHeader)
  <2> DEFINE f == Frame(k)
             h == SubSeq(f, 1, EndOfHeader)
  <2>1. f \in Seq(Byte) /\ Len(f) = l
    <3>1. \A i \in 1 .. l : <<k, i>> \in Byte
      BY <1>1, <1>7, <1>8, FrameType DEF Byte
    <3>2. f \in [1 .. l -> Byte]
      BY <1>8, <3>1
    <3> QED
      BY <1>8, <3>2, SeqDef
  <2>2. \A i \in 1 .. l : f[i] = <<k, i>>
    BY <1>8
  <2> HIDE DEF f
  <2>3. 1 \in Nat \ {0} /\ EndOfHeader <= Len(f) /\ EndOfHeader - 1 + 1 = EndOfHeader
    BY <1>4, <1>8, <2>1
  <2>4. /\ h \in Seq(Byte)
        /\ Len(h) = IF 1 <= EndOfHeader THEN EndOfHeader - 1 + 1 ELSE 0
        /\ \A i \in 1 .. EndOfHeader - 1 + 1 : h[i] = f[1 + i - 1]
    BY <1>4, <2>1, <2>3, PieceType
  <2>5. h \in Seq(Byte) /\ Len(h) = EndOfHeader
    BY <1>4, <2>3, <2>4
  <2>6. \A i \in 1 .. EndOfHeader : 1 + i - 1 = i /\ i \in 1 .. l
    BY <1>4, <1>8
  <2>7. \A i \in 1 .. EndOfHeader : h[i] = <<k, i>>
    BY <2>2, <2>3, <2>4, <2>6
  <2> HIDE DEF h
  <2>8. b = h
    BY <1>2, <1>4, <1>10, <2>5, <2>7, SeqEqual
  <2> QED
    BY <2>8 DEF h, f
<1>12. b[1][1] = k
  BY <1>6, <1>10
<1>13. LengthIn(b) = {sent[k].length}
  BY <1>11, <1>12 DEF LengthIn
<1> QED
  BY <1>7, <1>13 DEF k, b, s

\* A step of a reader thread: RecvHeader, RecvBody, or giving up.
LEMMA ReaderStep ==
  ASSUME ChannelInv, NEW c \in Conns, Reader(c)
  PROVE  ChannelInv'
<1> USE DEF sender, links, readers, auxVars
<1>1. ChannelTypeOK /\ BytesInv /\ StreamInv
  BY DEF ChannelInv
<1>2. ChannelTypeOK'
  BY <1>1, TypeReader
<1>3. CASE \E n \in 1 .. WireBytes : RecvHeader(c, n)
  <2>1. PICK n \in 1 .. WireBytes : RecvHeader(c, n)
    BY <1>3
  <2> DEFINE b == Read(c, n)
             s == Stream[c]
  <2>2. /\ reader[c] = "header" /\ Receives(c, n) /\ Len(b) <= EndOfHeader
        /\ UNCHANGED <<sent, sndPc, sndPos, sock, opened, carried, torn>>
    BY <2>1 DEF RecvHeader, Read
  <2>3. /\ b \in Seq(Byte) /\ Len(b) \in Nat /\ Len(b) > 0 /\ IsPart(b, s, 0)
        /\ wire'[c] \in Seq(Byte) /\ b \o wire'[c] = s
        /\ \A d \in Conns : d # c => wire'[d] = wire[d]
    BY <1>1, <2>2, ReceivesPart
  <2>4. s \in Seq(Byte) /\ wire[c] # <<>>
    <3>1. Len(wire[c]) >= n /\ n > 0
      BY <2>2, ChannelAssumption DEF Receives
    <3>2. Len(wire[c]) > 0
      BY <3>1, <1>1, StreamType
    <3>3. Len(<<>>) = 0
      OBVIOUS
    <3>4. wire[c] # <<>>
      BY <3>2, <3>3
    <3>5. s \in Seq(Byte)
      BY <1>1, StreamType
    <3> QED
      BY <3>4, <3>5
  <2>5. CASE Len(b) < EndOfHeader
    <3>1. got' = [got EXCEPT ![c] = b] /\ UNCHANGED <<reader, want, queue>>
      BY <2>1, <2>5 DEF RecvHeader, Read
    <3>2. /\ got'[c] = b
          /\ \A d \in Conns : d # c => /\ wire'[d] = wire[d] /\ got'[d] = got[d]
                                       /\ reader'[d] = reader[d] /\ want'[d] = want[d]
      BY <1>1, <2>3, <3>1 DEF ChannelTypeOK
    <3>3. Stream'[c] = s
      BY <1>2, <2>3, <3>2, NextStreamType
    <3>4. IsPart(Stream'[c], s, 0)
      BY <2>4, <3>3, FirstPart
    <3>5. Waits(reader'[c], got'[c], want'[c], Lengths)
      BY <2>2, <2>5, <3>1, <3>2 DEF Waits
    <3> QED
      BY <1>2, <2>2, <2>4, <3>1, <3>2, <3>3, <3>4, <3>5, ReaderCalm
  <2>6. CASE ~ (Len(b) < EndOfHeader)
    <3>1. PICK length \in LengthIn(b) :
            /\ want' = [want EXCEPT ![c] = EndOfHeader + length]
            /\ IF length = 0 THEN Inserts(c, b)
               ELSE /\ got' = [got EXCEPT ![c] = b]
                    /\ reader' = [reader EXCEPT ![c] = "body"]
                    /\ UNCHANGED queue
      BY <2>1, <2>6 DEF RecvHeader, Read
    <3>2. Len(b) = EndOfHeader
      BY <2>2, <2>3, <2>6, LayoutAssumption
    <3>3. c \notin torn => /\ s[1][1] \in 1 .. This
                           /\ Lengths[s[1][1]] = EndOfHeader + length
      <4>1. SUFFICES ASSUME c \notin torn
                     PROVE  s[1][1] \in 1 .. This /\ Lengths[s[1][1]] = EndOfHeader + length
        OBVIOUS
      <4>2. s[1][1] \in 1 .. This /\ LengthIn(b) = {sent[s[1][1]].length}
        BY <2>2, <3>2, <4>1, HeaderTells
      <4>3. length = sent[s[1][1]].length
        BY <3>1, <4>2
      <4> QED
        BY <1>1, <4>2, <4>3, FrameType
    <3>4. want'[c] = EndOfHeader + length /\ \A d \in Conns : d # c => want'[d] = want[d]
      BY <1>1, <3>1 DEF ChannelTypeOK
    <3>5. CASE length = 0
      <4>1. Inserts(c, b)
        BY <3>1, <3>5
      <4>2. c \notin torn => Len(b) = Lengths[s[1][1]]
        BY <3>2, <3>3, <3>5, LayoutAssumption
      <4> QED
        BY <1>2, <2>2, <3>4, <4>1, <4>2, ReaderInserts
    <3>6. CASE length # 0
      <4>1. /\ got' = [got EXCEPT ![c] = b] /\ reader' = [reader EXCEPT ![c] = "body"]
            /\ UNCHANGED queue
        BY <3>1, <3>6
      <4>2. /\ got'[c] = b /\ reader'[c] = "body"
            /\ \A d \in Conns : d # c => /\ wire'[d] = wire[d] /\ got'[d] = got[d]
                                         /\ reader'[d] = reader[d] /\ want'[d] = want[d]
        BY <1>1, <2>3, <3>4, <4>1 DEF ChannelTypeOK
      <4>3. Stream'[c] = s
        BY <1>2, <2>3, <4>2, NextStreamType
      <4>4. IsPart(Stream'[c], s, 0)
        BY <2>4, <4>3, FirstPart
      <4>5. c \notin torn => Waits(reader'[c], got'[c], want'[c], Lengths)
        <5>1. SUFFICES ASSUME c \notin torn PROVE Waits(reader'[c], got'[c], want'[c], Lengths)
          OBVIOUS
        <5>2. b # <<>> /\ b[1] = s[1]
          <6>1. 1 \in 1 .. Len(b) /\ 0 + 1 = 1
            BY <2>3
          <6>2. b[1] = s[0 + 1]
            BY <2>3, <6>1 DEF IsPart
          <6> QED
            BY <2>3, <6>1, <6>2
        <5>3. length \in Nat
          <6>1. s[1][1] \in 1 .. This /\ LengthIn(b) = {sent[s[1][1]].length}
            BY <2>2, <3>2, <5>1, HeaderTells
          <6> QED
            BY <1>1, <3>1, <6>1, FrameType
        <5>4. Len(b) < want'[c] /\ want'[c] = Lengths[b[1][1]]
          BY <3>2, <3>3, <3>4, <3>6, <5>1, <5>2, <5>3, LayoutAssumption
        <5> QED
          BY <4>2, <5>2, <5>4 DEF Waits
      <4> QED
        BY <1>2, <2>2, <2>4, <4>1, <4>2, <4>3, <4>4, <4>5, ReaderCalm
    <3> QED
      BY <3>5, <3>6
  <2> QED
    BY <2>5, <2>6
<1>4. CASE \E n \in 1 .. WireBytes : RecvBody(c, n)
  <2>1. PICK n \in 1 .. WireBytes : RecvBody(c, n)
    BY <1>4
  <2> DEFINE b == Read(c, n)
             s == Stream[c]
  <2>2. /\ reader[c] = "body" /\ Receives(c, n) /\ Len(b) <= want[c]
        /\ UNCHANGED <<sent, sndPc, sndPos, sock, opened, carried, torn, want>>
    BY <2>1 DEF RecvBody, Read
  <2>3. /\ b \in Seq(Byte) /\ Len(b) \in Nat /\ Len(b) > 0 /\ IsPart(b, s, 0)
        /\ wire'[c] \in Seq(Byte) /\ b \o wire'[c] = s
        /\ \A d \in Conns : d # c => wire'[d] = wire[d]
    BY <1>1, <2>2, ReceivesPart
  <2>4. s \in Seq(Byte) /\ wire[c] # <<>>
    <3>1. Len(wire[c]) >= n /\ n > 0
      BY <2>2, ChannelAssumption DEF Receives
    <3>2. Len(wire[c]) > 0
      BY <3>1, <1>1, StreamType
    <3>3. Len(<<>>) = 0
      OBVIOUS
    <3>4. wire[c] # <<>>
      BY <3>2, <3>3
    <3>5. s \in Seq(Byte)
      BY <1>1, StreamType
    <3> QED
      BY <3>4, <3>5
  <2>5. b # <<>> /\ b[1] = s[1]
    <3>1. 1 \in 1 .. Len(b) /\ 0 + 1 = 1
      BY <2>3
    <3>2. b[1] = s[0 + 1]
      BY <2>3, <3>1 DEF IsPart
    <3> QED
      BY <2>3, <3>1, <3>2
  <2>6. c \notin torn => want[c] = Lengths[s[1][1]]
    <3>1. SUFFICES ASSUME c \notin torn PROVE want[c] = Lengths[s[1][1]]
      OBVIOUS
    <3>2. got[c] # <<>> /\ want[c] = Lengths[got[c][1][1]]
      BY <1>1, <2>2, <3>1 DEF StreamInv, Waits
    <3>3. s[1] = got[c][1]
      <4>1. got[c] \in Seq(Byte) /\ wire[c] \in Seq(Byte) /\ s = got[c] \o wire[c]
        BY <1>1, StreamType
      <4>2. 1 \in 1 .. Len(got[c])
        BY <3>2, <4>1
      <4>3. \A i \in 1 .. Len(got[c]) : (got[c] \o wire[c])[i] = got[c][i]
        BY <4>1, JoinType
      <4>4. (got[c] \o wire[c])[1] = got[c][1]
        BY <4>2, <4>3
      <4> QED
        BY <4>1, <4>4
    <3> QED
      BY <3>2, <3>3
  <2>7. CASE Len(b) < want[c]
    <3>1. got' = [got EXCEPT ![c] = b] /\ UNCHANGED <<reader, queue>>
      BY <2>1, <2>7 DEF RecvBody, Read
    <3>2. /\ got'[c] = b
          /\ \A d \in Conns : d # c => /\ wire'[d] = wire[d] /\ got'[d] = got[d]
                                       /\ reader'[d] = reader[d] /\ want'[d] = want[d]
      BY <1>1, <2>2, <2>3, <3>1 DEF ChannelTypeOK
    <3>3. Stream'[c] = s
      BY <1>2, <2>3, <3>2, NextStreamType
    <3>4. IsPart(Stream'[c], s, 0)
      BY <2>4, <3>3, FirstPart
    <3>5. c \notin torn => Waits(reader'[c], got'[c], want'[c], Lengths)
      BY <2>2, <2>5, <2>6, <2>7, <3>1, <3>2 DEF Waits
    <3> QED
      BY <1>2, <2>2, <2>4, <3>1, <3>2, <3>3, <3>4, <3>5, ReaderCalm
  <2>8. CASE ~ (Len(b) < want[c])
    <3>1. Inserts(c, b)
      BY <2>1, <2>8 DEF RecvBody, Read
    <3>2. want[c] \in Nat
      BY <1>1 DEF ChannelTypeOK
    <3>3. Len(b) = want[c]
      BY <2>2, <2>3, <2>8, <3>2
    <3>4. c \notin torn => Len(b) = Lengths[s[1][1]]
      BY <2>6, <3>3
    <3> QED
      BY <1>2, <2>2, <3>1, <3>4, ReaderInserts
  <2> QED
    BY <2>7, <2>8
<1>5. CASE HeaderTimeout(c) \/ ReaderCloses(c)
  <2>1. /\ UNCHANGED <<sent, sndPc, sndPos, sock, opened, carried, queue, wire, want>>
        /\ torn \subseteq torn' /\ got' = [got EXCEPT ![c] = <<>>] /\ wire[c] = <<>>
    BY <1>5 DEF HeaderTimeout, ReaderCloses
  <2>2. c \in torn' \/ reader'[c] \notin {"header", "body"}
    BY <1>1, <1>5 DEF HeaderTimeout, ReaderCloses, ChannelTypeOK
  <2>3. \A d \in Conns : d # c => reader'[d] = reader[d]
    BY <1>1, <1>5 DEF HeaderTimeout, ReaderCloses, ChannelTypeOK
  <2>4. /\ got'[c] = <<>>
        /\ \A d \in Conns : d # c => /\ wire'[d] = wire[d] /\ got'[d] = got[d]
                                     /\ reader'[d] = reader[d] /\ want'[d] = want[d]
    BY <1>1, <2>1, <2>3 DEF ChannelTypeOK
  <2>5. Stream'[c] = <<>>
    <3>1. Stream'[c] = <<>> \o <<>>
      BY <1>2, <2>1, <2>4, NextStreamType
    <3> QED
      BY <3>1
  <2>6. IsPart(Stream'[c], Stream[c], 0)
    BY <2>5 DEF IsPart
  <2> QED
    BY <1>2, <2>1, <2>2, <2>4, <2>6, ReaderCalm
<1> QED
  BY <1>3, <1>4, <1>5 DEF Reader

\* Concatenation is associative.
LEMMA JoinAgain ==
  ASSUME NEW s \in Seq(Byte), NEW t \in Seq(Byte), NEW u \in Seq(Byte)
  PROVE  (s \o t) \o u = s \o (t \o u)
OBVIOUS

\* What is appended is the last one.
LEMMA LastAppended ==
  ASSUME NEW S, NEW q \in Seq(S), NEW k \in S
  PROVE  Append(q, k) # <<>> /\ Append(q, k)[Len(Append(q, k))] = k
BY AppendProperties

\* A later message behind a rising sequence keeps it rising.
LEMMA RisingNext ==
  ASSUME NEW K \in Nat, NEW q \in Seq(1 .. K), NEW k \in 1 .. K, Rising(q),
         \A i \in 1 .. Len(q) : q[i] < k
  PROVE  Rising(Append(q, k))
<1>1. /\ Len(Append(q, k)) = Len(q) + 1 /\ Len(q) \in Nat /\ Append(q, k)[Len(q) + 1] = k
      /\ \A i \in 1 .. Len(q) : Append(q, k)[i] = q[i]
  OBVIOUS
<1> DEFINE r == Append(q, k)
           N == Len(q)
<1> HIDE DEF r, N
<1>2. SUFFICES ASSUME NEW i \in 1 .. N + 1, NEW j \in 1 .. N + 1, i < j PROVE r[i] < r[j]
  BY <1>1 DEF Rising, r, N
<1>3. N \in Nat /\ i \in 1 .. N /\ r[i] = q[i]
  BY <1>1, <1>2 DEF r, N
<1>4. CASE j \in 1 .. N
  <2>1. q[i] < q[j]
    BY <1>2, <1>3, <1>4 DEF Rising, N
  <2> QED
    BY <1>1, <1>3, <1>4, <2>1 DEF r, N
<1>5. CASE j = N + 1
  BY <1>1, <1>3, <1>5 DEF r, N
<1> QED
  BY <1>3, <1>4, <1>5

\* A write to a connection.
LEMMA SendPartStep ==
  ASSUME ChannelInv, ChannelTypeOK', NEW n \in 1 .. WireBytes, SendPart(n), NEW c, c = sock
  PROVE  ChannelInv'
<1> DEFINE k == This
           a == sndPos
           part == SubSeq(Frame(k), a + 1, a + n)
           l == Lengths[k]
<1>1. /\ ChannelTypeOK /\ BytesInv /\ PcInv /\ UnusedInv /\ OrderInv /\ StreamInv /\ OnceInv
      /\ FrameInv
  BY DEF ChannelInv, SenderInv
<1>2. /\ UNCHANGED <<sent, sock, opened, got, reader, want, queue, torn>>
      /\ sndPc # "idle" /\ sndPc \in {"send", "resend"}
      /\ c # 0 /\ c = opened /\ k > 0
  BY <1>1 DEF SendPart, links, readers, PcInv
<1>3. /\ k \in Nat /\ k \in 1 .. k /\ a \in Nat /\ n \in Nat /\ n > 0 /\ c \in Conns
      /\ Lengths \in [1 .. k -> Nat] /\ l = FrameLength(k) /\ l > 0 /\ l \in Nat
  <2>1. This \in Nat /\ This > 0
    BY <1>1, <1>2, FrameType
  <2>2. This \in 1 .. This
    BY <2>1
  <2>3. WireBytes \in Nat /\ n \in Nat /\ n > 0
    BY ChannelAssumption
  <2>4. sndPos \in Nat /\ c \in Conns
    BY <1>1, <1>2 DEF ChannelTypeOK
  <2>5. Lengths \in [1 .. This -> Nat] /\ l = FrameLength(This) /\ l > 0
    BY <1>1, <2>2, FrameType
  <2> QED
    BY <2>1, <2>2, <2>3, <2>4, <2>5
<1>4. a + n <= l /\ a + n \in Nat
  BY <1>3 DEF SendPart
<1>5. Lengths' = Lengths /\ This' = This /\ Delivered' = Delivered /\ Places' = Places
  BY <1>2, SameCalls, SameQueue
<1>6. IsPiece(part, k, a, n) /\ part \in Seq(Byte)
  BY <1>1, <1>2, <1>4, PartType DEF IsPiece
<1>7. wire' = [wire EXCEPT ![c] = @ \o part]
  BY DEF SendPart
<1>8. Stream'[c] = Stream[c] \o part /\ Stream[c] \in Seq(Byte)
  <2>1. /\ got[c] \in Seq(Byte) /\ wire[c] \in Seq(Byte) /\ Stream[c] \in Seq(Byte)
        /\ Stream[c] = got[c] \o wire[c] /\ Stream'[c] = got[c] \o wire'[c]
    BY <1>1, <1>2, <1>3, StreamType, NextStreamType
  <2>2. wire'[c] = wire[c] \o part
    BY <1>1, <1>3, <1>7 DEF ChannelTypeOK
  <2> HIDE DEF part
  <2>3. (got[c] \o wire[c]) \o part = got[c] \o (wire[c] \o part)
    BY ZenonT(30), <1>6, <2>1, JoinAgain
  <2> QED
    BY <2>1, <2>2, <2>3
<1> HIDE DEF part, l
<1>9. \A d \in Conns : d # c => wire'[d] = wire[d] /\ carried'[d] = carried[d]
  <2>1. \A d \in Conns : d # c => wire'[d] = wire[d]
    BY <1>1, <1>7 DEF ChannelTypeOK
  <2>2. carried' = carried \/ carried' = [carried EXCEPT ![c] = Append(@, This)]
    BY DEF SendPart
  <2>3. \A d \in Conns : d # c => carried'[d] = carried[d]
    BY <1>1, <2>2 DEF ChannelTypeOK
  <2> QED
    BY <2>1, <2>3
<1>10. \A d \in Conns : Stream[d] \in Seq(Byte) /\ (d # c => Stream'[d] = Stream[d])
  <2>1. ASSUME NEW d \in Conns PROVE Stream[d] \in Seq(Byte) /\ (d # c => Stream'[d] = Stream[d])
    <3>1. /\ Stream[d] \in Seq(Byte) /\ Stream[d] = got[d] \o wire[d]
          /\ Stream'[d] = got[d] \o wire'[d]
      BY <1>1, <1>2, StreamType, NextStreamType
    <3> QED
      BY <1>9, <3>1
  <2> QED
    BY <2>1
<1>11. /\ carried[c] \in Seq(1 .. k) /\ carried'[c] \in Seq(1 .. k)
       /\ Carries(carried[c], carried'[c], k, a)
  <2>1. carried[c] \in Seq(1 .. k) /\ carried'[c] \in Seq(1 .. k)
    BY <1>1, <1>3, <1>5, StreamType, NextStreamType
  <2>2. CASE a = 0
    <3>1. carried' = [carried EXCEPT ![c] = Append(@, This)]
      BY <2>2 DEF SendPart
    <3>2. carried'[c] = Append(carried[c], k)
      BY <1>1, <1>3, <3>1 DEF ChannelTypeOK
    <3> QED
      BY <2>1, <2>2, <3>2 DEF Carries
  <2>3. CASE a # 0
    <3>1. carried' = carried
      BY <2>3 DEF SendPart
    <3>2. carried[c] # <<>> /\ carried[c][Len(carried[c])] = k
      BY <1>1, <1>2, <1>3, <2>3 DEF OrderInv
    <3> QED
      BY <2>1, <2>3, <3>1, <3>2 DEF Carries
  <2> QED
    BY <2>2, <2>3
<1>12. /\ sndPos' = IF a + n = l THEN 0 ELSE a + n
       /\ sndPc' = IF a + n = l THEN "idle" ELSE sndPc
  BY <1>3 DEF SendPart
<1>13. BytesInv'
  <2>1. ASSUME NEW d \in Conns PROVE Consists(Stream'[d], Lengths)
    <3>1. Consists(Stream[d], Lengths)
      BY <1>1 DEF BytesInv
    <3>2. Lacks(Stream[c], k, Lengths)
      BY <1>1, <1>2, <1>3 DEF OnceInv
    <3>3. CASE d = c
      <4>1. Consists(Stream[c] \o part, Lengths)
        BY <1>3, <1>4, <1>6, <1>8, <3>1, <3>2, <3>3, WriteOnce DEF l
      <4> QED
        BY <1>8, <3>3, <4>1
    <3> QED
      BY <1>10, <3>1, <3>3
  <2> QED
    BY <1>1, <1>2, <1>5, <2>1 DEF BytesInv
<1>14. PcInv'
  <2>1. CASE a + n = l
    BY <1>2, <1>5, <1>12, <2>1 DEF PcInv
  <2>2. CASE a + n # l
    <3>1. sndPc' = sndPc /\ sndPos' = a + n /\ a + n < l
      BY <1>3, <1>4, <1>12, <2>2
    <3> QED
      BY <1>2, <1>5, <3>1 DEF PcInv, l
  <2> QED
    BY <2>1, <2>2
<1>15. UnusedInv'
  <2>1. ASSUME NEW d \in opened + 1 .. MaxConns
        PROVE  wire'[d] = <<>> /\ carried'[d] = <<>>
    <3>1. opened \in Nat /\ MaxConns \in Nat
      BY <1>1, ChannelAssumption DEF ChannelTypeOK, Conns
    <3>2. d \in Conns /\ d # c
      BY <1>2, <3>1 DEF Conns
    <3>3. wire[d] = <<>> /\ carried[d] = <<>>
      BY <1>1 DEF UnusedInv
    <3> QED
      BY <1>9, <3>2, <3>3
  <2> QED
    BY <1>1, <1>2, <2>1 DEF UnusedInv
<1>16. OrderInv'
  <2>1. ASSUME NEW d \in Conns PROVE Rising(carried'[d])
    <3>1. Rising(carried[d])
      BY <1>1 DEF OrderInv
    <3>2. CASE d = c /\ a = 0
      <4>1. \A i \in 1 .. Len(carried[c]) : carried[c][i] < k
        BY <1>1, <1>2, <3>2 DEF OrderInv
      <4>2. carried'[c] = Append(carried[c], k)
        BY <1>11, <3>2 DEF Carries
      <4> QED
        BY <1>3, <1>11, <3>1, <3>2, <4>1, <4>2, RisingNext
    <3>3. CASE d # c \/ a # 0
      BY <1>9, <1>11, <3>1, <3>3 DEF Carries
    <3> QED
      BY <3>2, <3>3
  <2>2. sndPc' # "idle" => sndPos' > 0
    BY <1>3, <1>12
  <2>3. carried'[c] # <<>> /\ carried'[c][Len(carried'[c])] = k
    <3>1. CASE a = 0
      <4>1. carried'[c] = Append(carried[c], k)
        BY <1>11, <3>1 DEF Carries
      <4>2. Append(carried[c], k) # <<>> /\ Append(carried[c], k)[Len(Append(carried[c], k))] = k
        <5>1. carried[c] \in Seq(1 .. k) /\ k \in 1 .. k
          BY <1>3, <1>11
        <5> HIDE DEF k
        <5> QED
          BY <5>1, LastAppended
      <4> QED
        BY <4>1, <4>2
    <3>2. CASE a # 0
      BY <1>11, <3>2 DEF Carries
    <3> QED
      BY <3>1, <3>2
  <2> QED
    BY <1>2, <1>3, <1>4, <1>5, <1>12, <2>1, <2>2, <2>3 DEF OrderInv
<1>17. StreamInv'
  <2>1. ASSUME NEW d \in Conns \ torn', reader'[d] \in {"header", "body"}
        PROVE  /\ Begins(Stream'[d], carried'[d], Delivered'[d])
               /\ Runs(Stream'[d], Lengths')
               /\ Joins(Stream'[d], carried'[d], Lengths')
               /\ d = sock' => Ends(Stream'[d], carried'[d], Delivered'[d], Lengths', sndPos')
               /\ Waits(reader'[d], got'[d], want'[d], Lengths')
    <3>1. /\ Begins(Stream[d], carried[d], Delivered[d])
          /\ Runs(Stream[d], Lengths)
          /\ Joins(Stream[d], carried[d], Lengths)
          /\ d = sock => Ends(Stream[d], carried[d], Delivered[d], Lengths, sndPos)
          /\ Waits(reader[d], got[d], want[d], Lengths)
      BY <1>1, <1>2, <2>1 DEF StreamInv
    <3>2. CASE d = c
      <4>1. Consists(Stream[c], Lengths)
        BY <1>1, <1>3 DEF BytesInv
      <4>2. Delivered[c] \in Nat
        <5>1. Len(queue) \in Nat
          BY <1>1 DEF ChannelTypeOK
        <5> QED
          BY <1>3, <5>1, CountType DEF Delivered
      <4>3. /\ Begins(Stream[c] \o part, carried'[c], Delivered[c])
            /\ Runs(Stream[c] \o part, Lengths)
            /\ Joins(Stream[c] \o part, carried'[c], Lengths)
            /\ Ends(Stream[c] \o part, carried'[c], Delivered[c], Lengths,
                    After(a + n, Lengths[k]))
        BY ZenonT(30), <1>3, <1>4, <1>6, <1>8, <1>11, <3>1, <3>2, <4>1, <4>2, WriteKeepsFrame DEF l
      <4>4. sndPos' = After(a + n, Lengths[k])
        BY <1>12 DEF After, l
      <4> QED
        BY <1>2, <1>5, <1>8, <3>1, <3>2, <4>3, <4>4
    <3>3. CASE d # c
      BY <1>2, <1>5, <1>9, <1>10, <2>1, <3>1, <3>3
    <3> QED
      BY <3>2, <3>3
  <2> QED
    BY <2>1 DEF StreamInv
<1>18. OnceInv'
  <2>1. /\ \A d \in Conns : Lacks(Stream[d], k, Lengths)
        /\ \A m \in 1 .. Len(queue) : Lacks(queue[m].bytes, k, Lengths)
    BY <1>1, <1>2 DEF OnceInv
  <2>2. ASSUME NEW u, Apart(Stream[c], u, Lengths), Lacks(u, k, Lengths)
        PROVE  Apart(Stream'[c], u, Lengths)
    <3>1. Lacks(Stream[c], k, Lengths)
      BY <1>3, <2>1
    <3> QED
      BY <1>3, <1>4, <1>6, <1>8, <2>2, <3>1, WriteOnce DEF l
  <2>3. ASSUME NEW u, Apart(u, Stream[c], Lengths), Lacks(u, k, Lengths)
        PROVE  Apart(u, Stream'[c], Lengths)
    <3>1. Lacks(Stream[c], k, Lengths)
      BY <1>3, <2>1
    <3> QED
      BY <1>3, <1>4, <1>6, <1>8, <2>3, <3>1, WriteOnce DEF l
  <2>4. ASSUME NEW d \in Conns, NEW e \in Conns, d # e
        PROVE  Apart(Stream'[d], Stream'[e], Lengths)
    <3>1. /\ Apart(Stream[d], Stream[e], Lengths)
          /\ Lacks(Stream[d], k, Lengths) /\ Lacks(Stream[e], k, Lengths)
      BY <1>1, <2>1, <2>4 DEF OnceInv
    <3>2. CASE d = c
      BY <1>10, <2>2, <2>4, <3>1, <3>2
    <3>3. CASE e = c
      BY <1>10, <2>3, <2>4, <3>1, <3>3
    <3>4. CASE d # c /\ e # c
      BY <1>10, <3>1, <3>4
    <3> QED
      BY <3>2, <3>3, <3>4
  <2>5. ASSUME NEW d \in Conns
        PROVE  /\ Single(Stream'[d], Lengths)
               /\ \A m \in 1 .. Len(queue) : Apart(Stream'[d], queue[m].bytes, Lengths)
    <3>1. /\ Single(Stream[d], Lengths)
          /\ \A m \in 1 .. Len(queue) : Apart(Stream[d], queue[m].bytes, Lengths)
      BY <1>1 DEF OnceInv
    <3>2. CASE d = c
      <4>1. Single(Stream'[c], Lengths)
        BY <1>3, <1>4, <1>6, <1>8, <2>1, <3>1, <3>2, WriteOnce DEF l
      <4>2. \A m \in 1 .. Len(queue) : Apart(Stream'[c], queue[m].bytes, Lengths)
        BY <2>1, <2>2, <3>1, <3>2
      <4> QED
        BY <3>2, <4>1, <4>2
    <3>3. CASE d # c
      BY <1>10, <3>1, <3>3
    <3> QED
      BY <3>2, <3>3
  <2>6. ASSUME sndPc' # "idle", NEW d \in Conns PROVE Lacks(Stream'[d], k, Lengths)
    <3>1. a + n < Lengths[k]
      BY <1>3, <1>4, <1>12, <2>6 DEF l
    <3>2. CASE d = c
      BY <1>3, <1>4, <1>6, <1>8, <2>1, <3>1, <3>2, WriteOnce DEF l
    <3>3. CASE d # c
      BY <1>10, <2>1, <3>3
    <3> QED
      BY <3>2, <3>3
  <2>7. \A m, i \in 1 .. Len(queue) : m # i => Apart(queue[m].bytes, queue[i].bytes, Lengths)
    BY <1>1 DEF OnceInv
  <2> QED
    BY <1>2, <1>5, <2>1, <2>4, <2>5, <2>6, <2>7 DEF OnceInv
<1>19. FrameInv'
  <2>1. \A d \in Conns : Starts(carried[d], carried'[d])
    <3>1. ASSUME NEW d \in Conns PROVE Starts(carried[d], carried'[d])
      <4>1. carried[d] \in Seq(1 .. k)
        BY <1>1, StreamType
      <4>2. CASE carried'[d] = carried[d]
        BY <4>1, <4>2 DEF Starts, Agree
      <4>3. CASE carried'[d] = Append(carried[d], k)
        BY <1>3, <4>1, <4>3 DEF Starts, Agree
      <4> QED
        BY <1>9, <1>11, <4>2, <4>3 DEF Carries
    <3> QED
      BY <3>1
  <2>2. \A i \in 1 .. This : Lengths'[i] = Lengths[i]
    BY <1>5
  <2> QED
    BY <1>1, <1>2, <2>1, <2>2, FrameKept
<1> QED
  BY <1>13, <1>14, <1>15, <1>16, <1>17, <1>18, <1>19 DEF ChannelInv, SenderInv

\* What is said of a stream stays true when there is another message.
LEMMA StreamMore ==
  ASSUME NEW s \in Seq(Byte), NEW L, NEW M, Extends(L, M), Consists(s, L)
  PROVE  /\ Consists(s, M)
         /\ Runs(s, L) => Runs(s, M)
         /\ \A q : Joins(s, q, L) => Joins(s, q, M)
         /\ \A u : Apart(s, u, L) => Apart(s, u, M)
         /\ Single(s, L) => Single(s, M)
         /\ \A k : k \notin DOMAIN L => Lacks(s, k, M)
<1>1. \A i \in 1 .. Len(s) : s[i][1] \in DOMAIN L /\ s[i][1] \in DOMAIN M /\ M[s[i][1]] = L[s[i][1]]
  BY DEF Consists, Extends
<1>2. Consists(s, M)
  BY <1>1 DEF Consists
<1>3. Runs(s, L) => Runs(s, M)
  BY <1>1 DEF Runs
<1>4. ASSUME NEW q, Joins(s, q, L) PROVE Joins(s, q, M)
  <2>1. \A i \in 1 .. Len(s) - 1 : i \in 1 .. Len(s)
    OBVIOUS
  <2> QED
    BY <1>1, <1>4, <2>1 DEF Joins
<1>5. ASSUME NEW u, Apart(s, u, L) PROVE Apart(s, u, M)
  BY <1>1, <1>5 DEF Apart
<1>6. Single(s, L) => Single(s, M)
  BY <1>1 DEF Single
<1>7. ASSUME NEW k, k \notin DOMAIN L PROVE Lacks(s, k, M)
  <2>1. ASSUME NEW i \in 1 .. Len(s), s[i] = <<k, M[k]>> PROVE FALSE
    <3>1. s[i][1] = k
      BY <2>1
    <3> QED
      BY <1>1, <1>7, <3>1
  <2> QED
    BY <2>1 DEF Lacks
<1> QED
  BY <1>2, <1>3, <1>4, <1>5, <1>6, <1>7

\* So does what is said of its end.
LEMMA EndsMore ==
  ASSUME NEW s, NEW q, NEW d, NEW L, NEW M, NEW p, Extends(L, M),
         s # <<>> => q[Len(q)] \in DOMAIN L, Ends(s, q, d, L, p)
  PROVE  Ends(s, q, d, M, p)
BY DEF Ends, Extends

\* And what is said of its reader.
LEMMA WaitsMore ==
  ASSUME NEW r, NEW g \in Seq(Byte), NEW w, NEW L, NEW M, Extends(L, M), Consists(g, L),
         Waits(r, g, w, L)
  PROVE  Waits(r, g, w, M)
<1>1. g # <<>> => M[g[1][1]] = L[g[1][1]]
  <2>1. g # <<>> => 1 \in 1 .. Len(g)
    OBVIOUS
  <2> QED
    BY <2>1 DEF Consists, Extends
<1> QED
  BY <1>1 DEF Waits

\* VNSendMsg is called: there is a message of which nothing is under way.
LEMMA BeginSendStep ==
  ASSUME ChannelInv, ChannelTypeOK', BeginSend
  PROVE  ChannelInv'
<1>1. /\ ChannelTypeOK /\ BytesInv /\ PcInv /\ UnusedInv /\ OrderInv /\ StreamInv /\ OnceInv
      /\ FrameInv
  BY DEF ChannelInv, SenderInv
<1>2. /\ UNCHANGED <<sock, opened, wire, got, reader, want, queue, carried, torn>>
      /\ sndPos = 0 /\ sndPos' = 0 /\ sndPc' = "send"
  BY <1>1 DEF BeginSend, links, readers, auxVars, PcInv
<1>3. Delivered' = Delivered /\ Places' = Places
  BY <1>2, SameQueue
<1>4. Stream' = Stream
  BY <1>2 DEF Stream
<1>5. This \in Nat /\ This' = This + 1
  <2>1. sent \in Seq(NetMsg) /\ snd_msg \in NetMsg
    BY <1>1 DEF ChannelTypeOK, WellFormed
  <2> QED
    BY <2>1 DEF BeginSend, This
<1>6. Lengths \in [1 .. This -> Nat] /\ DOMAIN Lengths = 1 .. This
  BY <1>1, FrameType
<1>7. Extends(Lengths, Lengths')
  <2>1. sent \in Seq(NetMsg) /\ snd_msg \in NetMsg
    BY <1>1 DEF ChannelTypeOK, WellFormed
  <2>2. \A k \in 1 .. This : sent'[k] = sent[k]
    BY <2>1 DEF BeginSend, This
  <2>3. \A k \in 1 .. This : k \in 1 .. This'
    BY <1>5
  <2>4. \A k \in 1 .. This : Lengths'[k] = Lengths[k]
    BY <2>2, <2>3 DEF Lengths, FrameLength
  <2>5. DOMAIN Lengths' = 1 .. This'
    BY DEF Lengths
  <2> QED
    BY <1>6, <2>3, <2>4, <2>5 DEF Extends
<1>8. This' \in 1 .. This' /\ This' > 0 /\ Lengths'[This'] > 0 /\ This' \notin DOMAIN Lengths
  <2>1. This' \in 1 .. This' /\ This' > 0 /\ This' \notin DOMAIN Lengths
    BY <1>5, <1>6
  <2>2. WellFormed(sent'[This'])
    BY <2>1 DEF ChannelTypeOK
  <2>3. sent'[This'].length \in Nat
    BY <2>2 DEF WellFormed, NetMsg
  <2>4. Lengths'[This'] = EndOfHeader + sent'[This'].length
    BY <2>1 DEF Lengths, FrameLength
  <2>5. EndOfHeader \in Nat /\ EndOfHeader > 0
    BY LayoutAssumption
  <2>6. EndOfHeader + sent'[This'].length > 0
    BY <2>3, <2>5
  <2> QED
    BY <2>1, <2>4, <2>6
<1>9. \A c \in Conns : /\ Stream[c] \in Seq(Byte) /\ got[c] \in Seq(Byte)
                       /\ carried[c] \in Seq(1 .. This) /\ Consists(Stream[c], Lengths)
                       /\ Consists(got[c], Lengths)
  <2>1. ASSUME NEW c \in Conns PROVE Consists(got[c], Lengths)
    <3>1. /\ got[c] \in Seq(Byte) /\ wire[c] \in Seq(Byte) /\ Stream[c] = got[c] \o wire[c]
          /\ Stream[c] \in Seq(Byte) /\ Consists(Stream[c], Lengths)
      BY <1>1, StreamType DEF BytesInv
    <3>2. IsPart(got[c], Stream[c], 0)
      BY <3>1, FirstPart
    <3> QED
      BY <3>1, <3>2, PartOfStream
  <2> QED
    BY <1>1, <2>1, StreamType DEF BytesInv
<1>10. \A m \in 1 .. Len(queue) : queue[m].bytes \in Seq(Byte) /\ Consists(queue[m].bytes, Lengths)
  <2>1. ASSUME NEW m \in 1 .. Len(queue) PROVE queue[m].bytes \in Seq(Byte)
    <3>1. queue[m] \in [conn : Conns, bytes : Seq(Byte)]
      BY <1>1, ElementOfSeq DEF ChannelTypeOK
    <3> QED
      BY <3>1
  <2> QED
    BY <1>1, <2>1 DEF BytesInv
<1> HIDE DEF ChannelInv
<1>11. BytesInv'
  BY <1>2, <1>4, <1>7, <1>9, <1>10, StreamMore DEF BytesInv
<1>12. PcInv'
  BY <1>1, <1>2, <1>8 DEF PcInv
<1>13. UnusedInv'
  BY <1>1, <1>2 DEF UnusedInv
<1>14. OrderInv'
  <2>1. sock # 0 => \A i \in 1 .. Len(carried[sock]) : carried[sock][i] < This'
    <3>1. SUFFICES ASSUME sock # 0, NEW i \in 1 .. Len(carried[sock])
                   PROVE  carried[sock][i] < This'
      OBVIOUS
    <3>2. carried[sock] \in Seq(1 .. This)
      <4>1. sock \in Conns
        BY <1>1, <3>1 DEF PcInv, ChannelTypeOK
      <4> QED
        BY <1>9, <4>1
    <3>3. carried[sock][i] \in 1 .. This
      BY <3>1, <3>2, ElementOfSeq
    <3> QED
      BY <1>5, <3>3
  <2> QED
    BY <1>1, <1>2, <2>1 DEF OrderInv
<1>15. StreamInv'
  <2>1. ASSUME NEW c \in Conns \ torn', reader'[c] \in {"header", "body"}
        PROVE  /\ Begins(Stream'[c], carried'[c], Delivered'[c])
               /\ Runs(Stream'[c], Lengths')
               /\ Joins(Stream'[c], carried'[c], Lengths')
               /\ c = sock' => Ends(Stream'[c], carried'[c], Delivered'[c], Lengths', sndPos')
               /\ Waits(reader'[c], got'[c], want'[c], Lengths')
    <3>1. /\ Begins(Stream[c], carried[c], Delivered[c])
          /\ Runs(Stream[c], Lengths)
          /\ Joins(Stream[c], carried[c], Lengths)
          /\ c = sock => Ends(Stream[c], carried[c], Delivered[c], Lengths, sndPos)
          /\ Waits(reader[c], got[c], want[c], Lengths)
      BY <1>1, <1>2, <2>1 DEF StreamInv
    <3>2. Runs(Stream[c], Lengths') /\ Joins(Stream[c], carried[c], Lengths')
      BY <1>7, <1>9, <3>1, StreamMore
    <3>3. Stream[c] # <<>> => carried[c][Len(carried[c])] \in DOMAIN Lengths
      <4>1. SUFFICES ASSUME Stream[c] # <<>> PROVE carried[c][Len(carried[c])] \in 1 .. This
        BY <1>6
      <4>2. Delivered[c] < Len(carried[c])
        BY <3>1, <4>1 DEF Begins
      <4>3. Delivered[c] \in Nat
        <5>1. Len(queue) \in Nat
          BY <1>1 DEF ChannelTypeOK
        <5> QED
          BY <5>1, CountType DEF Delivered
      <4>4. carried[c] \in Seq(1 .. This) /\ Len(carried[c]) \in Nat
        BY <1>9
      <4>5. Len(carried[c]) \in 1 .. Len(carried[c])
        BY <4>2, <4>3, <4>4
      <4> QED
        BY <4>4, <4>5, ElementOfSeq
    <3>4. c = sock => Ends(Stream[c], carried[c], Delivered[c], Lengths', sndPos)
      BY <1>7, <3>1, <3>3, EndsMore
    <3>5. Waits(reader[c], got[c], want[c], Lengths')
      BY <1>7, <1>9, <3>1, WaitsMore
    <3> QED
      BY <1>2, <1>3, <1>4, <3>1, <3>2, <3>4, <3>5
  <2> QED
    BY <2>1 DEF StreamInv
<1>16. OnceInv'
  <2>1. /\ \A c, d \in Conns : c # d => Apart(Stream[c], Stream[d], Lengths')
        /\ \A c \in Conns : Single(Stream[c], Lengths')
        /\ \A c \in Conns, m \in 1 .. Len(queue) : Apart(Stream[c], queue[m].bytes, Lengths')
    BY <1>1, <1>7, <1>9, StreamMore DEF OnceInv
  <2>2. \A m, n \in 1 .. Len(queue) : m # n => Apart(queue[m].bytes, queue[n].bytes, Lengths')
    BY <1>1, <1>7, <1>10, StreamMore DEF OnceInv
  <2>3. /\ \A c \in Conns : Lacks(Stream[c], This', Lengths')
        /\ \A m \in 1 .. Len(queue) : Lacks(queue[m].bytes, This', Lengths')
    BY <1>7, <1>8, <1>9, <1>10, StreamMore
  <2> QED
    BY <1>2, <1>4, <2>1, <2>2, <2>3 DEF OnceInv
<1>17. FrameInv'
  <2>1. \A c \in Conns : Starts(carried[c], carried'[c])
    <3>1. \A c \in Conns : Len(carried[c]) \in Nat
      BY <1>9
    <3> QED
      BY <1>2, <3>1 DEF Starts, Agree
  <2>2. \A k \in 1 .. This : Lengths'[k] = Lengths[k]
    BY <1>6, <1>7 DEF Extends
  <2> QED
    BY <1>1, <1>2, <2>1, <2>2, FrameKept
<1> QED
  BY <1>11, <1>12, <1>13, <1>14, <1>15, <1>16, <1>17 DEF ChannelInv, SenderInv

\* The first connection, which carries nothing yet.
LEMMA InitHolds ==
  ASSUME ChannelInit PROVE ChannelInv
<1>1. ChannelTypeOK
  BY TypeInit
<1>2. /\ sent = <<>> /\ sndPc = "idle" /\ sndPos = 0 /\ sock = 1 /\ opened = 1
      /\ queue = <<>> /\ Len(queue) = 0 /\ 1 .. Len(queue) = {}
      /\ \A c \in Conns : /\ wire[c] = <<>> /\ got[c] = <<>> /\ carried[c] = <<>>
                          /\ Len(got[c]) = 0 /\ Len(carried[c]) = 0
  BY DEF ChannelInit
<1>3. \A c \in Conns : Stream[c] = <<>>
  <2>1. <<>> \o <<>> = <<>>
    OBVIOUS
  <2> QED
    BY <1>1, <1>2, <2>1, StreamType
<1>4. \A c \in Conns : Delivered[c] = 0
  <2>1. ASSUME NEW c \in Conns PROVE Delivered[c] = 0
    <3>1. Handed(queue, Len(queue), c) = {}
      BY <1>2 DEF Handed
    <3> QED
      BY <3>1, FS_EmptySet DEF Delivered
  <2> QED
    BY <2>1
<1>5. BytesInv
  BY <1>2, <1>3 DEF BytesInv, Consists
<1>6. SenderInv
  <2>1. PcInv
    BY <1>2 DEF PcInv
  <2>2. UnusedInv
    <3>1. opened + 1 .. MaxConns \subseteq Conns
      BY <1>2, ChannelAssumption DEF Conns
    <3> QED
      BY <1>2, <3>1 DEF UnusedInv
  <2>3. OrderInv
    BY <1>2 DEF OrderInv, Rising
  <2> QED
    BY <2>1, <2>2, <2>3 DEF SenderInv
<1>7. StreamInv
  <2>1. ASSUME NEW c \in Conns
        PROVE  /\ Begins(Stream[c], carried[c], Delivered[c]) /\ Runs(Stream[c], Lengths)
               /\ Joins(Stream[c], carried[c], Lengths)
               /\ Ends(Stream[c], carried[c], Delivered[c], Lengths, sndPos)
    BY <1>2, <1>3, <1>4 DEF Begins, Runs, Joins, Ends
  <2>2. ASSUME NEW c \in Conns PROVE Waits(reader[c], got[c], want[c], Lengths)
    <3>1. reader[c] # "body"
      BY DEF ChannelInit
    <3> QED
      BY <1>2, <3>1, LayoutAssumption DEF Waits
  <2> QED
    BY <2>1, <2>2 DEF StreamInv
<1>8. OnceInv
  BY <1>2, <1>3 DEF OnceInv, Apart, Single
<1>9. FrameInv
  BY <1>2 DEF FrameInv
<1> QED
  BY <1>1, <1>5, <1>6, <1>7, <1>8, <1>9 DEF ChannelInv

\* Whatever step is taken.
LEMMA StepHolds ==
  ASSUME ChannelInv, [ChannelNext]_chanVars PROVE ChannelInv'
<1>1. ChannelTypeOK /\ BytesInv /\ (sndPc # "idle" => This > 0)
  BY DEF ChannelInv, SenderInv, PcInv
<1>2. CASE Compose
  BY <1>1, <1>2, TypeSender, CalmStreams
<1>3. CASE Writes
  <2>1. ChannelTypeOK'
    BY <1>1, <1>3, TypeSender
  <2>2. PICK n \in 1 .. WireBytes : SendPart(n)
    BY <1>3 DEF Writes
  <2> QED
    BY <2>1, <2>2, SendPartStep
<1>4. CASE BeginSend
  BY <1>1, <1>4, TypeQuiet, BeginSendStep
<1>5. CASE \/ SendTimeout \/ SendFails \/ SendWithout \/ ClientReaderCloses
           \/ Reconnect \/ ReconnectFails \/ Hang \/ UNCHANGED chanVars
  BY <1>1, <1>5, TypeQuiet, CalmStreams
<1>6. CASE \E c \in Conns : Reader(c)
  BY <1>6, ReaderStep
<1> QED
  BY <1>2, <1>3, <1>4, <1>5, <1>6 DEF ChannelNext, Sender

\* FrameInv is InFrame with the lengths and the places as functions.
LEMMA FrameInvGivesInFrame ==
  ASSUME ChannelTypeOK, FrameInv PROVE InFrame
<1>1. SUFFICES ASSUME NEW i \in 1 .. Len(queue), queue[i].conn \notin torn
               PROVE  /\ Place(i) <= Len(carried[queue[i].conn])
                      /\ queue[i].bytes = Frame(carried[queue[i].conn][Place(i)])
  BY DEF InFrame
<1> DEFINE c == queue[i].conn
           p == Place(i)
           k == carried[c][p]
<1>2. p \in 1 .. Len(carried[c]) /\ queue[i].bytes = Whole(k, Lengths)
  BY <1>1 DEF FrameInv, Places
<1>3. c \in Conns
  <2>1. queue[i] \in [conn : Conns, bytes : Seq(Byte)]
    BY ElementOfSeq DEF ChannelTypeOK
  <2> QED
    BY <2>1
<1>4. carried[c] \in Seq(1 .. This) /\ Len(carried[c]) \in Nat
  <2>1. carried[c] \in Seq(1 .. This)
    BY <1>3, StreamType
  <2> HIDE DEF c
  <2> QED
    BY <2>1
<1>5. k \in 1 .. This
  BY <1>2, <1>4, ElementOfSeq
<1>6. Whole(k, Lengths) = Frame(k)
  BY <1>5, FrameType DEF Whole
<1> QED
  BY <1>2, <1>4, <1>6

\* Two messages in the queue that are the same one share its last byte.
LEMMA OnceInvGivesNeverTwice ==
  ASSUME ChannelTypeOK, OnceInv PROVE NeverTwice
<1>1. SUFFICES ASSUME NEW i \in 1 .. Len(queue), NEW j \in 1 .. Len(queue), NEW k \in 1 .. This,
                      queue[i].bytes = Frame(k), queue[j].bytes = Frame(k), i # j
               PROVE  FALSE
  BY DEF NeverTwice
<1> DEFINE l == Lengths[k]
<1>2. l \in Nat /\ l > 0 /\ Frame(k) = [m \in 1 .. l |-> <<k, m>>]
  BY FrameType
<1> HIDE DEF l
<1>3. Frame(k) \in Seq(Byte) /\ Len(Frame(k)) = l /\ Frame(k)[l] = <<k, l>> /\ l \in 1 .. l
  <2>1. k \in Nat
    BY FrameType
  <2>2. \A m \in 1 .. l : <<k, m>> \in Byte
    BY <1>2, <2>1 DEF Byte
  <2> QED
    BY <1>2, <2>2
<1>4. Apart(Frame(k), Frame(k), Lengths)
  BY <1>1 DEF OnceInv
<1>5. Frame(k)[l][2] = Lengths[Frame(k)[l][1]]
  BY <1>3 DEF l
<1> QED
  BY <1>3, <1>4, <1>5 DEF Apart

-----------------------------------------------------------------------------

\* The invariant, of every behaviour.
THEOREM ChannelInvariant == ChannelSpec => []ChannelInv
<1>1. ChannelInit => ChannelInv
  BY InitHolds
<1>2. ChannelInv /\ [ChannelNext]_chanVars => ChannelInv'
  BY StepHolds
<1> QED
  BY <1>1, <1>2, PTL DEF ChannelSpec

\* Every variable keeps its type, and the caller's message and all that were
\* sent stay well formed, whatever is added to them and however the
\* connections fail (AddParam, SendMsgCore, RecvMsg).
THEOREM ChannelTypeCorrect == ChannelSpec => []ChannelTypeOK
<1>1. ChannelInv => ChannelTypeOK
  BY DEF ChannelInv
<1> QED
  BY <1>1, ChannelInvariant, PTL

\* On a connection that no timeout has torn, the reader hands over what was
\* written to it: whole messages, in their order, none left out (SendMsgCore,
\* RecvHeader, RecvBody).
THEOREM ChannelInFrame == ChannelSpec => []InFrame
<1>1. ChannelInv => InFrame
  BY FrameInvGivesInFrame DEF ChannelInv
<1> QED
  BY <1>1, ChannelInvariant, PTL

\* No message is handed over twice, although VNSendMsg sends one again over
\* the next connection.
THEOREM ChannelNeverTwice == ChannelSpec => []NeverTwice
<1>1. ChannelInv => NeverTwice
  BY OnceInvGivesNeverTwice DEF ChannelInv
<1> QED
  BY <1>1, ChannelInvariant, PTL

=============================================================================
