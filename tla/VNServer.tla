----------------------------- MODULE VNServer -----------------------------
(***************************************************************************)
(* The receiving side of CVNConnection between VNListen and the end of     *)
(* uninit: the listener accepts connections into slots of m_arrayRecvChan,  *)
(* a reader thread per slot puts what it receives into the queue, the      *)
(* heartbeat thread takes it out, and the main thread shuts all of it down. *)
(* Idle slots form a list, linked by index through m_arrayRecvFree; it and  *)
(* m_nRecCnt change only under m_csArray, so ReduceAFreeChannel and        *)
(* AddAFreeChannel are one step each.                                      *)
(***************************************************************************)
EXTENDS VNQueue

CONSTANTS
  MAXRECVCHAN,   \* 1024 slots
  MAXSENDCHAN,   \* 256, from which m_nTailFree is initialised
  Conn,          \* connections that peers make in the life of the server
  MaxMessages    \* bound on what the readers receive

ASSUME ChannelsAssumption ==
  /\ MAXRECVCHAN \in Nat /\ MAXSENDCHAN \in 1 .. MAXRECVCHAN
  /\ MaxMessages \in Nat
  /\ "none" \notin Conn /\ "closed" \notin Conn

Slot == 0 .. MAXRECVCHAN - 1

VARIABLES
  headFree, tailFree, nextFree,  \* m_nHeaderFree, m_nTailFree, m_arrayRecvFree
  recCnt,       \* m_nRecCnt
  sock,         \* m_arrayRecvChan: "none" (NULL), "closed" or a connection
  backlog,      \* connections to accept
  attempts,     \* connections not made yet
  listening,    \* m_sListener is a socket
  lisPc, lisSlot, \* the listener thread, and the slot it has just taken
  reader,       \* the reader thread of each slot
  handle,       \* m_thrdServ[i] # NULL
  main,         \* how far uninit is
  visited,      \* slots whose channel uninit has disconnected
  received,     \* messages so far
  idle          \* auxiliary: the free slots in their order

poolVars   == <<headFree, tailFree, nextFree, recCnt, idle>>
threadVars == <<reader, handle, lisPc, lisSlot, main, visited>>
netVars    == <<backlog, attempts, listening, received>>
serverVars == <<queueVars, poolVars, sock, threadVars, netVars>>

-----------------------------------------------------------------------------
(* The free list.                                                          *)

\* Mutant: the list does not end at m_nTailFree.
TakeSlotUntilEnd(i) ==
  /\ i = headFree /\ i < MAXRECVCHAN
  /\ headFree' = nextFree[i]
  /\ recCnt' = recCnt + 1
  /\ idle' = Tail(idle)
  /\ UNCHANGED <<nextFree, tailFree>>

\* ReduceAFreeChannel takes the slot at the head.
TakeSlot(i) ==
  /\ i = headFree /\ i < MAXRECVCHAN
  /\ IF headFree = tailFree
     THEN headFree' = MAXRECVCHAN /\ tailFree' = MAXRECVCHAN
     ELSE headFree' = nextFree[i] /\ UNCHANGED tailFree
  /\ recCnt' = recCnt + 1
  /\ idle' = Tail(idle)
  /\ UNCHANGED nextFree

\* Mutants: m_nHeaderFree is not set when the list was empty; m_nRecCnt is
\* not decremented.
PutSlotBehind(i) ==
  /\ nextFree' = [s \in Slot |-> IF s = i THEN MAXRECVCHAN
                                 ELSE IF s = tailFree THEN i ELSE nextFree[s]]
  /\ tailFree' = i
  /\ recCnt' = recCnt - 1
  /\ idle' = Append(idle, i)
  /\ UNCHANGED headFree
PutSlotUncounted(i) ==
  /\ nextFree' = [s \in Slot |-> IF s = i THEN MAXRECVCHAN
                                 ELSE IF s = tailFree THEN i ELSE nextFree[s]]
  /\ tailFree' = i
  /\ headFree' = IF headFree = MAXRECVCHAN THEN i ELSE headFree
  /\ idle' = Append(idle, i)
  /\ UNCHANGED recCnt

\* AddAFreeChannel appends the slot.
PutSlot(i) ==
  /\ nextFree' = [s \in Slot |-> IF s = i THEN MAXRECVCHAN
                                 ELSE IF s = tailFree THEN i ELSE nextFree[s]]
  /\ tailFree' = i
  /\ headFree' = IF headFree = MAXRECVCHAN THEN i ELSE headFree
  /\ recCnt' = recCnt - 1
  /\ idle' = Append(idle, i)

-----------------------------------------------------------------------------
(* Peers and the listener thread.                                          *)

\* A peer connects; the system completes it before anyone accepts.
PeerConnect(k) ==
  /\ listening /\ k \in attempts
  /\ attempts' = attempts \ {k}
  /\ backlog' = backlog \union {k}
  /\ UNCHANGED <<queueVars, poolVars, sock, threadVars, listening, received>>

\* select returns: a connection to accept, or an error because m_sListener
\* was closed.  Its timeouts change nothing.
LisSelect ==
  /\ lisPc = "select"
  /\ \/ ~ listening /\ lisPc' = "ended"
     \/ listening /\ backlog # {} /\ lisPc' = "accept"
  /\ UNCHANGED <<queueVars, poolVars, sock, reader, handle, lisSlot, main,
                 visited, netVars>>

\* accept fails if uninit has closed m_sListener since.
LisAcceptFails ==
  /\ lisPc = "accept" /\ backlog = {}
  /\ lisPc' = "select"
  /\ UNCHANGED <<queueVars, poolVars, sock, reader, handle, lisSlot, main,
                 visited, netVars>>

\* The connection gets the slot at the head of the list, and is told so with
\* a Control message; if that cannot be sent the channel is closed again.
LisAccept(k, i) ==
  /\ lisPc = "accept" /\ k \in backlog
  /\ TakeSlot(i)
  /\ backlog' = backlog \ {k}
  /\ sock' \in {[sock EXCEPT ![i] = k], [sock EXCEPT ![i] = "closed"]}
  /\ lisSlot' = i
  /\ lisPc' = "spawn"
  /\ UNCHANGED <<queueVars, reader, handle, main, visited, attempts, listening,
                 received>>

\* No slot is free: the connection is closed.
LisRefuse(k) ==
  /\ lisPc = "accept" /\ k \in backlog
  /\ headFree = MAXRECVCHAN
  /\ backlog' = backlog \ {k}
  /\ lisPc' = "select"
  /\ UNCHANGED <<queueVars, poolVars, sock, reader, handle, lisSlot, main,
                 visited, attempts, listening, received>>

\* A reader for the new channel; its handle overwrites that of the last one.
LisSpawn ==
  /\ lisPc = "spawn"
  /\ reader' = [reader EXCEPT ![lisSlot] = "recv"]
  /\ handle' = [handle EXCEPT ![lisSlot] = TRUE]
  /\ lisPc' = "select"
  /\ UNCHANGED <<queueVars, poolVars, sock, lisSlot, main, visited, netVars>>

Listener ==
  \/ LisSelect \/ LisAcceptFails \/ LisSpawn
  \/ \E k \in backlog : LisRefuse(k) \/ \E i \in Slot : LisAccept(k, i)

-----------------------------------------------------------------------------
(* The reader threads.                                                     *)

\* RecvMsg returns a message.
ReaderReceives(i) ==
  /\ reader[i] = "recv" /\ sock[i] \in Conn
  /\ received < MaxMessages
  /\ received' = received + 1
  /\ reader' = [reader EXCEPT ![i] = "insert"]
  /\ UNCHANGED <<queueVars, poolVars, sock, handle, lisPc, lisSlot, main,
                 visited, backlog, attempts, listening>>

\* insertMsg.
ReaderInserts(i) ==
  /\ reader[i] = "insert"
  /\ \E n \in Node, m \in Msg : Insert(n, m)
  /\ reader' = [reader EXCEPT ![i] = "recv"]
  /\ UNCHANGED <<poolVars, sock, handle, lisPc, lisSlot, main, visited,
                 netVars>>

\* insertMsg knows no such queue, and the message is deleted.
ReaderDrops(i) ==
  /\ reader[i] = "insert"
  /\ reader' = [reader EXCEPT ![i] = "recv"]
  /\ UNCHANGED <<queueVars, poolVars, sock, handle, lisPc, lisSlot, main,
                 visited, netVars>>

\* Mutant: the slot is given back before the socket is closed.
ReaderLosesOpen(i) ==
  /\ reader[i] = "recv" /\ sock[i] \in Conn
  /\ reader' = [reader EXCEPT ![i] = "leave"]
  /\ UNCHANGED <<queueVars, poolVars, sock, handle, lisPc, lisSlot, main,
                 visited, netVars>>

\* RecvMsg fails because the peer has gone, and closes the socket.
ReaderLoses(i) ==
  /\ reader[i] = "recv" /\ sock[i] \in Conn
  /\ sock' = [sock EXCEPT ![i] = "closed"]
  /\ reader' = [reader EXCEPT ![i] = "leave"]
  /\ UNCHANGED <<queueVars, poolVars, handle, lisPc, lisSlot, main, visited,
                 netVars>>

\* RecvMsg fails because the socket is closed already.
ReaderFails(i) ==
  /\ reader[i] = "recv" /\ sock[i] = "closed"
  /\ reader' = [reader EXCEPT ![i] = "leave"]
  /\ UNCHANGED <<queueVars, poolVars, sock, handle, lisPc, lisSlot, main,
                 visited, netVars>>

\* AddAFreeChannel; the thread returns.
ReaderLeaves(i) ==
  /\ reader[i] = "leave"
  /\ PutSlot(i)
  /\ reader' = [reader EXCEPT ![i] = "none"]
  /\ UNCHANGED <<queueVars, sock, handle, lisPc, lisSlot, main, visited,
                 netVars>>

Reader(i) ==
  \/ ReaderReceives(i) \/ ReaderInserts(i) \/ ReaderDrops(i)
  \/ ReaderLoses(i) \/ ReaderFails(i) \/ ReaderLeaves(i)

-----------------------------------------------------------------------------
(* The heartbeat thread, and the main thread in uninit.                    *)

\* VNRecvMsg, until uninit has waited for the thread.
Heartbeat(c) ==
  /\ main = "running" /\ Receive(c)
  /\ UNCHANGED <<poolVars, sock, threadVars, netVars>>

\* The threads of the program have ended; ClearListenerHandle closes the
\* listening socket, and the connections that were not accepted with it.
CloseListener ==
  /\ main = "running" /\ \A c \in Consumers : pc[c] = "idle"
  /\ main' = "closed"
  /\ listening' = FALSE
  /\ backlog' = {}
  /\ UNCHANGED <<queueVars, poolVars, sock, reader, handle, lisPc, lisSlot,
                 visited, attempts, received>>

\* Mutant: does not wait for the listener thread.
JoinNobody ==
  /\ main = "closed"
  /\ main' = "disconnecting"
  /\ UNCHANGED <<queueVars, poolVars, sock, reader, handle, lisPc, lisSlot,
                 visited, netVars>>

JoinListener ==
  /\ main = "closed" /\ lisPc = "ended"
  /\ main' = "disconnecting"
  /\ UNCHANGED <<queueVars, poolVars, sock, reader, handle, lisPc, lisSlot,
                 visited, netVars>>

\* Mutant: the loop begins at 1.
DisconnectFromOne ==
  /\ main = "disconnecting" /\ visited < MAXRECVCHAN
  /\ visited' = visited + 1
  /\ sock' = [sock EXCEPT ![visited] =
                IF @ \in Conn /\ visited > 0 THEN "closed" ELSE @]
  /\ UNCHANGED <<queueVars, poolVars, reader, handle, lisPc, lisSlot, main,
                 netVars>>

\* Disconnect of one channel, in the order of the slots.
DisconnectNext ==
  /\ main = "disconnecting" /\ visited < MAXRECVCHAN
  /\ visited' = visited + 1
  /\ sock' = [sock EXCEPT ![visited] = IF @ \in Conn THEN "closed" ELSE @]
  /\ UNCHANGED <<queueVars, poolVars, reader, handle, lisPc, lisSlot, main,
                 netVars>>

\* Waits for every reader it has a handle of, deletes the channels and makes
\* every slot free.
ClearSlots ==
  /\ main = "disconnecting" /\ visited = MAXRECVCHAN
  /\ \A i \in Slot : handle[i] => reader[i] = "none"
  /\ handle' = [i \in Slot |-> FALSE]
  /\ sock' = [i \in Slot |-> "none"]
  /\ headFree' = 0 /\ tailFree' = MAXRECVCHAN - 1
  /\ nextFree' = [i \in Slot |-> i + 1]
  /\ recCnt' = 0
  /\ idle' = [i \in 1 .. MAXRECVCHAN |-> i - 1]
  /\ main' = "halted"
  /\ UNCHANGED <<queueVars, reader, lisPc, lisSlot, visited, netVars>>

\* VNFreeQueueGroup.
FreeQueue ==
  /\ main = "halted" /\ Reset
  /\ main' = "ended"
  /\ UNCHANGED <<poolVars, sock, reader, handle, lisPc, lisSlot, visited,
                 netVars>>

Uninit ==
  CloseListener \/ JoinListener \/ DisconnectNext \/ ClearSlots \/ FreeQueue

-----------------------------------------------------------------------------

\* InitialConnection and VNListen.
ServerInit ==
  /\ QueueInit
  /\ headFree = 0 /\ tailFree = MAXSENDCHAN - 1
  /\ nextFree = [i \in Slot |-> i + 1]
  /\ recCnt = 0
  /\ idle = [i \in 1 .. MAXSENDCHAN |-> i - 1]
  /\ sock = [i \in Slot |-> "none"]
  /\ backlog = {} /\ attempts = Conn /\ listening = TRUE
  /\ lisPc = "select" /\ lisSlot = 0
  /\ reader = [i \in Slot |-> "none"] /\ handle = [i \in Slot |-> FALSE]
  /\ main = "running" /\ visited = 0 /\ received = 0

ServerNext ==
  \/ \E k \in Conn : PeerConnect(k)
  \/ Listener
  \/ \E i \in Slot : Reader(i)
  \/ \E c \in Consumers : Heartbeat(c)
  \/ Uninit

ServerSpec == ServerInit /\ [][ServerNext]_serverVars

\* Every thread goes on while it can.  Nothing is assumed of the peers, nor
\* that the server is ever shut down.
ServerFairness ==
  /\ WF_serverVars(Listener)
  /\ \A i \in Slot :
       /\ WF_serverVars(ReaderFails(i) \/ ReaderLeaves(i))
       /\ WF_serverVars(ReaderInserts(i) \/ ReaderDrops(i))
  /\ WF_serverVars(JoinListener \/ DisconnectNext \/ ClearSlots \/ FreeQueue)

ServerFairSpec == ServerSpec /\ ServerFairness

-----------------------------------------------------------------------------

ServerTypeOK ==
  /\ TypeOK
  /\ headFree \in 0 .. MAXRECVCHAN /\ tailFree \in 0 .. MAXRECVCHAN
  /\ nextFree \in [Slot -> 0 .. MAXRECVCHAN]
  /\ recCnt \in 0 .. MAXRECVCHAN
  /\ sock \in [Slot -> Conn \union {"none", "closed"}]
  /\ backlog \in SUBSET Conn /\ attempts \in SUBSET Conn
  /\ listening \in BOOLEAN
  /\ lisPc \in {"select", "accept", "spawn", "ended"} /\ lisSlot \in Slot
  /\ reader \in [Slot -> {"none", "recv", "insert", "leave"}]
  /\ handle \in [Slot -> BOOLEAN]
  /\ main \in {"running", "closed", "disconnecting", "halted", "ended"}
  /\ visited \in 0 .. MAXRECVCHAN /\ received \in 0 .. MaxMessages
  /\ idle \in Seq(Slot)

\* Slots that are in use: being handed to a reader, or with one.
Busy == {i \in Slot : reader[i] # "none" \/ (lisPc = "spawn" /\ lisSlot = i)}

Listed == {idle[j] : j \in 1 .. Len(idle)}

\* The links are those of the list, and no slot is in it twice.
Chain ==
  /\ headFree = IF idle = <<>> THEN MAXRECVCHAN ELSE idle[1]
  /\ tailFree = IF idle = <<>> THEN MAXRECVCHAN ELSE idle[Len(idle)]
  /\ \A j \in 1 .. Len(idle) - 1 : nextFree[idle[j]] = idle[j + 1]
  /\ \A j, k \in 1 .. Len(idle) : idle[j] = idle[k] => j = k

\* m_nHeaderFree leads through m_arrayRecvFree to m_nTailFree, over slots
\* that nobody uses and each of them once, however accepts and closing
\* connections interleave; m_nRecCnt counts the others.
FreeListLinked ==
  /\ Chain
  /\ Listed \intersect Busy = {}
  /\ recCnt = Cardinality(Busy)

\* Nobody uses a channel that has been deleted, or the queue after it has
\* been freed: uninit has waited for the listener and for every reader,
\* although it only keeps the handle of the last reader of each slot.
NoUseAfterDelete ==
  main \in {"halted", "ended"} => lisPc = "ended" /\ Busy = {}

\* SetSocket never overwrites an open socket: a slot is given to a new
\* connection only after its reader has closed the last one.
OneConnectionPerSlot ==
  [][\A i \in Slot :
       sock[i] \in Conn /\ sock'[i] \in Conn => sock'[i] = sock[i]]_serverVars

\* A connection is refused only when MAXSENDCHAN slots are in use: the list is
\* cut there, although there are MAXRECVCHAN slots, but no slot that has come
\* into use is ever lost.
RefusesOnlyWhenFull ==
  [][(\E k \in Conn : LisRefuse(k)) => Cardinality(Busy) = MAXSENDCHAN]_serverVars

\* Once uninit has closed the listening socket it comes to its end, whatever
\* the peers and the threads were doing.
UninitEnds == main = "closed" ~> main = "ended"

=============================================================================
