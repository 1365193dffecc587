----------------------------- MODULE VNChannel -----------------------------
(***************************************************************************)
(* Messages over TCP: what VNSendMsg does to one send channel, and what     *)
(* the server's reader threads make of the bytes.  CVNChannel writes a      *)
(* message as a header, which tells the length of the rest, and the rest;   *)
(* both ends work in pieces, as select lets them, and give up at different  *)
(* points: SendMsgCore and RecvHeader time out and keep the connection,     *)
(* RecvBody and every error close it.  A send that fails opens the next     *)
(* connection, whose reader runs while that of the last is still reading.   *)
(*                                                                         *)
(* A byte is named by the message it belongs to and its place in it, so    *)
(* that a reader out of frame can be told from one that is not.             *)
(***************************************************************************)
EXTENDS VNNetMsg, FiniteSets, SequencesExt

CONSTANTS
  WireBytes,     \* bytes that a connection buffers
  MaxConns,      \* bound: connections opened, the first one included
  MaxMessages,   \* bound: calls of VNSendMsg
  MaxParams,     \* bound: parameters the caller gives its message
  MaxFaults,     \* bound: sends that fail although the server reads
  StrayLengths   \* lengths read from a header that is none

ASSUME ChannelAssumption ==
  /\ WireBytes \in Nat \ {0} /\ MaxConns \in Nat \ {0}
  /\ {MaxMessages, MaxParams, MaxFaults} \subseteq Nat
  /\ StrayLengths \subseteq Nat

Conns == 1 .. MaxConns

VARIABLES
  snd_msg,   \* the caller's message, which it sends again and again
  sent,      \* per call of VNSendMsg: the message it was given
  sndPc,     \* "idle", or where VNSendMsg is
  sndPos,    \* SendMsgCore's `pos'
  sock,      \* m_Socket of the send channel: a connection, or 0
  opened,    \* connections opened so far
  closed,    \* connections closed at the client's end
  wire,      \* per connection: bytes under way
  reader,    \* per connection: what its reader thread waits for
  got,       \* per connection: what it has read of the current message
  want,      \* per connection: how many bytes that message has
  queue,     \* messages the readers have put into the queue, with their origin
  faults,
  hung,      \* the server's machine has stopped
  carried,   \* auxiliary: per connection, the calls that began to write to it
  torn       \* auxiliary: a timeout has left part of a message behind

sender   == <<snd_msg, sent, sndPc, sndPos>>
links    == <<sock, opened, closed>>
readers  == <<reader, got, want>>
chanVars == <<sender, links, wire, readers, queue, faults, hung, carried,
              torn>>
auxVars  == <<carried, torn>>

This == Len(sent)
FrameLength(k) == EndOfHeader + sent[k].length
Frame(k) == [i \in 1 .. FrameLength(k) |-> <<k, i>>]

-----------------------------------------------------------------------------
(* The sender.                                                             *)

\* The caller adds a parameter.
Compose ==
  /\ sndPc = "idle" /\ Len(snd_msg.params) < MaxParams
  /\ \E id \in 0 .. 1, d \in Data : snd_msg' = AddParam(snd_msg, id, d)
  /\ UNCHANGED <<sent, sndPc, sndPos, links, wire, readers, queue, faults, hung,
                 auxVars>>

\* VNSendMsg is called.
BeginSend ==
  /\ sndPc = "idle" /\ Len(sent) < MaxMessages
  /\ sent' = Append(sent, snd_msg)
  /\ sndPc' = "send" /\ sndPos' = 0
  /\ UNCHANGED <<snd_msg, links, wire, readers, queue, faults, hung, auxVars>>

\* Mutant: the loop goes on when everything has been written.
SendPartAndOn(n) ==
  /\ sndPc \in {"send", "resend"} /\ sock # 0
  /\ sndPos + n <= FrameLength(This) /\ Len(wire[sock]) + n <= WireBytes
  /\ wire' = [wire EXCEPT ![sock] = @ \o SubSeq(Frame(This), sndPos + 1, sndPos + n)]
  /\ carried' = IF sndPos = 0 THEN [carried EXCEPT ![sock] = Append(@, This)]
                              ELSE carried
  /\ sndPos' = sndPos + n
  /\ UNCHANGED <<snd_msg, sent, sndPc, links, readers, queue, faults, hung, torn>>

\* SendMsgCore: select allows writing, and send takes n bytes.  A connection
\* that the server has closed may take them too.
SendPart(n) ==
  /\ sndPc \in {"send", "resend"} /\ sock # 0
  /\ sndPos + n <= FrameLength(This) /\ Len(wire[sock]) + n <= WireBytes
  /\ wire' = [wire EXCEPT ![sock] = @ \o SubSeq(Frame(This), sndPos + 1, sndPos + n)]
  /\ carried' = IF sndPos = 0 THEN [carried EXCEPT ![sock] = Append(@, This)]
                              ELSE carried
  /\ IF sndPos + n = FrameLength(This) THEN sndPc' = "idle" /\ sndPos' = 0
                                       ELSE sndPos' = sndPos + n /\ UNCHANGED sndPc
  /\ UNCHANGED <<snd_msg, sent, links, readers, queue, faults, hung, torn>>

\* Mutant: select has no timeout.
SendTimeoutNever == sndPc \in {"send", "resend"} /\ UNCHANGED chanVars

\* The buffer stays full for a second: RS_Timeout.  The channel is kept, with
\* whatever part of the message it has taken.
SendTimeout ==
  /\ sndPc \in {"send", "resend"} /\ sock # 0
  /\ Len(wire[sock]) = WireBytes
  /\ torn' = IF sndPos > 0 THEN torn \union {sock} ELSE torn
  /\ sndPc' = "idle" /\ sndPos' = 0
  /\ UNCHANGED <<snd_msg, sent, links, wire, readers, queue, faults, hung,
                 carried>>

\* After a failed SendMsg: VNSendMsg reconnects once.
AfterFailure == IF sndPc = "send" THEN "reconnect" ELSE "idle"

\* Mutant: the socket of a failed send is kept.
SendFailsOpen ==
  /\ sndPc \in {"send", "resend"} /\ sock # 0
  /\ \/ reader[sock] = "gone" /\ UNCHANGED faults
     \/ faults < MaxFaults /\ faults' = faults + 1
  /\ sndPc' = "idle" /\ sndPos' = 0
  /\ UNCHANGED <<snd_msg, sent, links, wire, readers, queue, hung, auxVars>>

\* select or send fails, because the server has closed the connection or
\* because it broke: SendMsg closes the socket.  A broken connection may lose
\* what it has under way.
SendFails ==
  /\ sndPc \in {"send", "resend"} /\ sock # 0
  /\ \/ reader[sock] = "gone" /\ UNCHANGED <<faults, wire>>
     \/ /\ faults < MaxFaults /\ faults' = faults + 1
        /\ wire' \in {wire, [wire EXCEPT ![sock] = <<>>]}
  /\ sock' = 0 /\ closed' = closed \union {sock}
  /\ sndPc' = AfterFailure /\ sndPos' = 0
  /\ UNCHANGED <<snd_msg, sent, opened, readers, queue, hung, auxVars>>

\* SendMsg finds no socket, or loses it while it writes.
SendWithout ==
  /\ sndPc \in {"send", "resend"} /\ sock = 0
  /\ sndPc' = AfterFailure /\ sndPos' = 0
  /\ UNCHANGED <<snd_msg, sent, links, wire, readers, queue, faults, hung,
                 auxVars>>

\* The client's own reader thread sees that the server has closed the
\* connection, and closes the socket under the sender.
ClientReaderCloses ==
  /\ sock # 0 /\ reader[sock] = "gone"
  /\ sock' = 0 /\ closed' = closed \union {sock}
  /\ UNCHANGED <<sender, opened, wire, readers, queue, faults, hung, auxVars>>

\* ChannelConnect gets a connection, and the server's Control message over it.
\* Without that one the connection stays but VNSendMsg fails.
Reconnect ==
  /\ sndPc = "reconnect" /\ opened < MaxConns /\ ~ hung
  /\ opened' = opened + 1 /\ sock' = opened + 1
  /\ reader' = [reader EXCEPT ![opened + 1] = "header"]
  /\ sndPc' \in {"resend", "idle"}
  /\ UNCHANGED <<snd_msg, sent, sndPos, closed, wire, got, want, queue, faults,
                 hung, auxVars>>

\* ChannelConnect gets no connection.
ReconnectFails ==
  /\ sndPc = "reconnect"
  /\ sndPc' = "idle"
  /\ UNCHANGED <<snd_msg, sent, sndPos, links, wire, readers, queue, faults,
                 hung, auxVars>>

Writes == \E n \in 1 .. WireBytes : SendPart(n)

Sender == Writes \/ SendTimeout \/ SendFails \/ SendWithout
          \/ Reconnect \/ ReconnectFails

-----------------------------------------------------------------------------
(* The reader thread of a connection at the server.                        *)

\* The next n bytes of c have been received.
Receives(c, n) ==
  /\ n <= Len(wire[c])
  /\ wire' = [wire EXCEPT ![c] = SubSeq(@, n + 1, Len(@))]

\* Mutant: insertMsg refuses the message, which is deleted.
InsertsNothing(c, bytes) ==
  /\ got' = [got EXCEPT ![c] = <<>>]
  /\ reader' = [reader EXCEPT ![c] = "header"]
  /\ UNCHANGED queue

\* A message is complete: into the queue, and on to the next header.
Inserts(c, bytes) ==
  /\ queue' = Append(queue, [conn |-> c, bytes |-> bytes])
  /\ got' = [got EXCEPT ![c] = <<>>]
  /\ reader' = [reader EXCEPT ![c] = "header"]

\* The lengths that the bytes of a header can be read as.
LengthIn(header) ==
  LET k == header[1][1]
  IN  IF header = SubSeq(Frame(k), 1, EndOfHeader) THEN {sent[k].length}
                                                   ELSE StrayLengths

\* RecvHeader: more of a header, or all of it.
RecvHeader(c, n) ==
  LET bytes == got[c] \o SubSeq(wire[c], 1, n)
  IN  /\ reader[c] = "header"
      /\ Receives(c, n) /\ Len(bytes) <= EndOfHeader
      /\ IF Len(bytes) < EndOfHeader
         THEN got' = [got EXCEPT ![c] = bytes] /\ UNCHANGED <<reader, want, queue>>
         ELSE \E length \in LengthIn(bytes) :
                /\ want' = [want EXCEPT ![c] = EndOfHeader + length]
                /\ IF length = 0 THEN Inserts(c, bytes)
                   ELSE /\ got' = [got EXCEPT ![c] = bytes]
                        /\ reader' = [reader EXCEPT ![c] = "body"]
                        /\ UNCHANGED queue
      /\ UNCHANGED <<sender, links, faults, hung, auxVars>>

\* RecvHeader waits 10 ms: RS_Timeout.  RecvMsg keeps the connection and
\* drops the part of a header that it has.
HeaderTimeout(c) ==
  /\ reader[c] = "header" /\ got[c] # <<>> /\ wire[c] = <<>> /\ c \notin closed
  /\ got' = [got EXCEPT ![c] = <<>>]
  /\ torn' = torn \union {c}
  /\ UNCHANGED <<sender, links, wire, reader, want, queue, faults, hung, carried>>

\* RecvBody: more of the rest, or all of it.
RecvBody(c, n) ==
  LET bytes == got[c] \o SubSeq(wire[c], 1, n)
  IN  /\ reader[c] = "body"
      /\ Receives(c, n) /\ Len(bytes) <= want[c]
      /\ IF Len(bytes) < want[c]
         THEN got' = [got EXCEPT ![c] = bytes] /\ UNCHANGED <<reader, queue>>
         ELSE Inserts(c, bytes)
      /\ UNCHANGED <<sender, links, want, faults, hung, auxVars>>

\* Nothing comes for five seconds in the middle of a message, or the client
\* has closed its end: RS_Failed, and the reader closes the connection.
ReaderCloses(c) ==
  /\ wire[c] = <<>>
  /\ reader[c] = "body" \/ (reader[c] = "header" /\ c \in closed)
  /\ reader' = [reader EXCEPT ![c] = "gone"]
  /\ got' = [got EXCEPT ![c] = <<>>]
  /\ UNCHANGED <<sender, links, wire, want, queue, faults, hung, auxVars>>

Reader(c) ==
  /\ ~ hung
  /\ \/ \E n \in 1 .. WireBytes : RecvHeader(c, n) \/ RecvBody(c, n)
     \/ HeaderTimeout(c) \/ ReaderCloses(c)

\* The server's machine stops without a word to the client.
Hang ==
  /\ ~ hung /\ faults < MaxFaults
  /\ hung' = TRUE /\ faults' = faults + 1
  /\ UNCHANGED <<sender, links, wire, readers, queue, auxVars>>

-----------------------------------------------------------------------------

\* The first connection has been made by VNConnect.
ChannelInit ==
  /\ snd_msg = EmptyMsg(DEF_MSG_LENGTH)
  /\ sent = <<>> /\ sndPc = "idle" /\ sndPos = 0
  /\ sock = 1 /\ opened = 1 /\ closed = {}
  /\ wire = [c \in Conns |-> <<>>]
  /\ reader = [c \in Conns |-> IF c = 1 THEN "header" ELSE "none"]
  /\ got = [c \in Conns |-> <<>>]
  /\ want = [c \in Conns |-> 0]
  /\ queue = <<>> /\ faults = 0 /\ hung = FALSE
  /\ carried = [c \in Conns |-> <<>>] /\ torn = {}

ChannelNext ==
  \/ Compose \/ BeginSend \/ Sender \/ ClientReaderCloses \/ Hang
  \/ \E c \in Conns : Reader(c)

ChannelSpec == ChannelInit /\ [][ChannelNext]_chanVars

\* A thread inside VNSendMsg goes on, and so does each reader thread.
ChannelFairSpec ==
  ChannelSpec /\ WF_chanVars(Sender) /\ \A c \in Conns : WF_chanVars(Reader(c))

-----------------------------------------------------------------------------

Byte == Nat \X Nat

\* Every variable has its type, the caller's message is well formed and so is
\* every one that was sent.
ChannelTypeOK ==
  /\ WellFormed(snd_msg)
  /\ sent \in Seq(NetMsg) /\ \A k \in 1 .. This : WellFormed(sent[k])
  /\ sndPc \in {"idle", "send", "resend", "reconnect"}
  /\ sndPos \in Nat
  /\ opened \in Conns /\ sock \in 0 .. opened /\ closed \subseteq 1 .. opened
  /\ wire \in [Conns -> Seq(Byte)] /\ \A c \in Conns : Len(wire[c]) <= WireBytes
  /\ reader \in [Conns -> {"none", "header", "body", "gone"}]
  /\ got \in [Conns -> Seq(Byte)] /\ want \in [Conns -> Nat]
  /\ queue \in Seq([conn : Conns, bytes : Seq(Byte)])
  /\ faults \in 0 .. MaxFaults /\ hung \in BOOLEAN
  /\ carried \in [Conns -> Seq(1 .. This)] /\ torn \subseteq Conns

\* The place of the i-th message of the queue among those of its connection.
Place(i) == Cardinality({j \in 1 .. i : queue[j].conn = queue[i].conn})

\* As long as no timeout has torn a message on a connection, its reader hands
\* over the messages written to it: each one whole, in their order, none left
\* out.  Whatever else fails on the way closes the connection, and the next
\* one starts in frame (SendMsg, RecvMsg).
InFrame ==
  \A i \in 1 .. Len(queue) :
    LET c == queue[i].conn
    IN  c \notin torn =>
          /\ Place(i) <= Len(carried[c])
          /\ queue[i].bytes = Frame(carried[c][Place(i)])

\* No message arrives twice, torn or not: VNSendMsg sends one again only if
\* the first connection cannot have taken all of it.
NeverTwice ==
  \A i, j \in 1 .. Len(queue), k \in 1 .. This :
    queue[i].bytes = Frame(k) /\ queue[j].bytes = Frame(k) => i = j

\* A message that has been written to a connection arrives, or the connection
\* is torn or closed: a reader does not wait for ever for what it has.
Arrives ==
  \A c \in Conns, k \in 1 .. MaxMessages :
    Contains(carried[c], k) /\ (k < This \/ sndPc = "idle") ~>
      \/ k <= This /\ \E i \in 1 .. Len(queue) : queue[i].bytes = Frame(k)
      \/ c \in torn \/ reader[c] = "gone" \/ hung

\* VNSendMsg returns, even if the server hangs: heartbeat calls it in its loop.
SendReturns == sndPc # "idle" ~> sndPc = "idle"

=============================================================================
