----------------------------- MODULE Redundancy -----------------------------
(***************************************************************************)
(* The hot-standby protocol of redundancy/fool_redundancy.cpp.             *)
(*                                                                         *)
(* Each server runs two threads inside one process: `negotiate', which     *)
(* announces the server's role in UDP broadcasts and reacts to those of    *)
(* the others, and `heartbeat', which exchanges PING messages with the     *)
(* mate over TCP (VNClib) and takes over when too many of them are missed. *)
(* The threads share the role (a critical section protects each single     *)
(* read and write of it, never a read together with the write it leads     *)
(* to), the mate's address, the connection id and the quit flag.  A main   *)
(* thread waits for a key or for the quit report and then calls uninit.    *)
(*                                                                         *)
(* Time is abstracted: a receive may time out whenever there is nothing to *)
(* receive.  RedundancyTimed restricts the same steps to a tick clock.     *)
(***************************************************************************)
EXTENDS Integers, Sequences, FiniteSets

CONSTANTS
  Servers,       \* the machines on the broadcast segment
  Ip,            \* their addresses, as positions in stricmp's order
  ServerId,      \* the serverid argument of init: one id per cluster
  NEGOTIATE_MAX_COUNT,       \* 15 in fool_redundancy.h
  MAX_HEARTBEAT_ERROR_COUNT, \* 3 in fool_redundancy.h
  Nobody,        \* the empty mate address, and connection id -1
  InboxBound,    \* datagrams a UDP socket buffers; more are dropped
  PingBound,     \* equal messages a queue holds; one more is absorbed
  MaxStarts,     \* bound: times one server's process is started
  MaxFaults,     \* bound: lost broadcasts, lost TCP messages, failed connects
  MaxCrashes,    \* bound: processes killed without running uninit
  MaxKeys        \* bound: quits asked for at a keyboard

ASSUME IpAssumption ==
  Ip \in [Servers -> Int] /\ \A s, t \in Servers : s # t => Ip[s] # Ip[t]
ASSUME NobodyAssumption == Nobody \notin Servers
ASSUME BoundAssumption ==
  /\ {NEGOTIATE_MAX_COUNT, MAX_HEARTBEAT_ERROR_COUNT} \subseteq Nat
  /\ {InboxBound, PingBound} \subseteq Nat
  /\ {MaxStarts, MaxFaults, MaxCrashes, MaxKeys} \subseteq Nat

Role == {"WHO_AM_I", "ACTIVE_QUIT_ER", "PRIMARY_WITHOUT_BACKUP",
         "PRIMARY_WITH_BACKUP", "BACKUP_WITH_PRIMARY"}

\* The roles of a server that has a mate.
Paired == {"PRIMARY_WITH_BACKUP", "BACKUP_WITH_PRIMARY"}

Datagram  == [from : Servers, role : Role]
Heartbeat == [from : Servers, text : {"PING", "QUIT"}]

VARIABLES
  main,       \* main thread: "off", "running", or "joining" inside uninit
  role,       \* i_am
  mate,       \* m_mate_ip
  conn,       \* m_connecetion_id, as the server at the other end
  slots,      \* servers that own an entry of m_arraySendChan
  quit,       \* m_quit_inner_thread
  report,     \* the m_report_quit event
  negPc,      \* where the negotiate thread is
  negRole,    \* negotiate's local `role'
  negCount,   \* negotiate's local `negotiate_count'
  negPeer,    \* negotiate's local `remote_ip', while it is still needed
  hbPc,       \* where the heartbeat thread is
  errCount,   \* heartbeat's local `err_count'
  sndText,    \* parameter 1 of heartbeat's local `snd_msg', once it has one
  udp,        \* per server: datagrams its broadcast socket has buffered
  hbq,        \* per server: heartbeats in receive queue 0
  starts, faults, crashes, keys   \* what has been used of the bounds

shared  == <<role, mate, conn, slots, quit, report>>
negVars == <<negPc, negRole, negCount, negPeer>>
hbVars  == <<hbPc, errCount, sndText>>
net     == <<udp, hbq>>
budget  == <<starts, faults, crashes, keys>>
vars    == <<main, shared, negVars, hbVars, net, budget>>

\* A server's listening socket and broadcast socket exist from init to uninit.
Up(s) == main[s] # "off"

-----------------------------------------------------------------------------
(* What the threads do to the network.                                     *)

\* VNSendBroadCastMsg: `inboxes' gets a datagram that carries the role r, at
\* every server that is up (s itself included) unless its buffer is full.
\* A fault loses it at some of them.
Broadcast(s, r, inboxes) ==
  \E missed \in SUBSET Servers :
    /\ missed # {} => faults < MaxFaults
    /\ faults' = IF missed = {} THEN faults ELSE faults + 1
    /\ udp' = [t \in Servers |->
                 IF Up(t) /\ t \notin missed /\ Len(inboxes[t]) < InboxBound
                 THEN Append(inboxes[t], [from |-> s, role |-> r])
                 ELSE inboxes[t]]

\* broadcast_my_role.
Announce(s, inboxes) == Broadcast(s, role[s], inboxes)

\* SetStringParam(1, text): heartbeat builds snd_msg once, and AddParam refuses
\* a parameter that the message already has.
TextOf(s, text) == IF sndText[s] = "none" THEN text ELSE sndText[s]

\* VNSendMsg on the connection of s: it fails at once without a channel,
\* fails when the other process cannot be reached, and a fault may lose it.
\* A message that would only lengthen a long queue of its equals is absorbed.
Deliver(s, t, m) ==
  LET reachable == t \in slots[s] /\ Up(t)
      equals == {i \in 1 .. Len(hbq[t]) : hbq[t][i] = m}
  IN  \/ /\ reachable
         /\ hbq' = IF Cardinality(equals) >= PingBound
                   THEN hbq ELSE [hbq EXCEPT ![t] = Append(@, m)]
         /\ UNCHANGED faults
      \/ /\ ~ reachable
         /\ UNCHANGED <<hbq, faults>>
      \/ /\ reachable /\ faults < MaxFaults
         /\ faults' = faults + 1
         /\ UNCHANGED hbq

\* What heartbeat sends to say `text', over the connection if there is one.
SendHeartbeat(s, text) ==
  IF conn[s] = Nobody
  THEN UNCHANGED <<hbq, faults, sndText>>
  ELSE /\ sndText' = [sndText EXCEPT ![s] = TextOf(s, text)]
       /\ Deliver(s, conn[s], [from |-> s, text |-> TextOf(s, text)])

\* VNConnect: a host that already owns a slot gets its id back, connected or
\* not; a new host keeps the slot it was given even when connecting fails.
Connect(s, t) ==
  /\ slots' = [slots EXCEPT ![s] = @ \union {t}]
  /\ \/ /\ t \in slots[s] \/ Up(t)
        /\ conn' = [conn EXCEPT ![s] = t]
        /\ UNCHANGED faults
     \/ /\ t \notin slots[s]
        /\ Up(t) => faults < MaxFaults
        /\ faults' = IF Up(t) THEN faults + 1 ELSE faults
        /\ conn' = [conn EXCEPT ![s] = Nobody]

\* set_my_role: the locked write.  Its callback into the program is not state
\* of this component.
SetRole(s, r) == role' = [role EXCEPT ![s] = r]

GoNeg(s, pc) == negPc' = [negPc EXCEPT ![s] = pc]
GoHb(s, pc)  == hbPc'  = [hbPc  EXCEPT ![s] = pc]

-----------------------------------------------------------------------------
(* The negotiate thread.                                                   *)

\* Before the loop: WHO_AM_I, announced.
NegStart(s) ==
  /\ negPc[s] = "start"
  /\ SetRole(s, "WHO_AM_I")
  /\ Announce(s, udp)
  /\ GoNeg(s, "top")
  /\ UNCHANGED <<main, mate, conn, slots, quit, report, negRole, negCount,
                 negPeer, hbVars, hbq, starts, crashes, keys>>

\* The loop test fails: a normal quit, whose role is set first.
NegLeave(s) ==
  /\ negPc[s] = "top" /\ quit[s]
  /\ SetRole(s, "ACTIVE_QUIT_ER")
  /\ GoNeg(s, "bye")
  /\ UNCHANGED <<main, mate, conn, slots, quit, report, negRole, negCount,
                 negPeer, hbVars, net, budget>>

\* Mutant: one round more than the code waits.
ClaimsLate(s) ==
  negCount[s] > NEGOTIATE_MAX_COUNT + 1 /\ role[s] = "WHO_AM_I"

\* NEGOTIATE_MAX_COUNT rounds have decided nothing.
Claims(s) == negCount[s] > NEGOTIATE_MAX_COUNT /\ role[s] = "WHO_AM_I"

\* The loop test holds: read the role, or claim the primary one.
NegTop(s) ==
  LET read == IF Claims(s) THEN "PRIMARY_WITHOUT_BACKUP" ELSE role[s]
  IN  /\ negPc[s] = "top" /\ ~ quit[s]
      /\ SetRole(s, read)
      /\ negRole' = [negRole EXCEPT ![s] = read]
      /\ GoNeg(s, "recv")
      /\ UNCHANGED <<main, mate, conn, slots, quit, report, negCount, negPeer,
                     hbVars, net, budget>>

\* Mutant: rounds are not counted.
CountNothing(s) == UNCHANGED negCount

\* negotiate_count++, by an undecided server.
CountRound(s) ==
  negCount' = [negCount EXCEPT ![s] =
                 IF negRole[s] = "WHO_AM_I" THEN @ + 1 ELSE @]

\* Mutant: an undecided server announces itself once, at its start.
NegTimeoutSilent(s) ==
  /\ negPc[s] = "recv" /\ udp[s] = <<>>
  /\ CountRound(s)
  /\ GoNeg(s, "top")
  /\ UNCHANGED <<main, shared, negRole, negPeer, hbVars, net, budget>>

\* VNRecvBroadCastMsg times out.
NegTimeout(s) ==
  /\ negPc[s] = "recv" /\ udp[s] = <<>>
  /\ CountRound(s)
  /\ IF negRole[s] = "WHO_AM_I" THEN Announce(s, udp)
                                ELSE UNCHANGED <<udp, faults>>
  /\ GoNeg(s, "top")
  /\ UNCHANGED <<main, shared, negRole, negPeer, hbVars, hbq, starts, crashes,
                 keys>>

\* Mutant: without the test of the sender's server id.
ForeignSelf(s, m) == m.from = s

\* A datagram of another cluster, or the server's own.
Foreign(s, m) == ServerId[m.from] # ServerId[s] \/ m.from = s

\* The socket after its first datagram has been received.
Received(s) == [udp EXCEPT ![s] = Tail(@)]

\* Mutant: acts on a datagram whatever the server's own role.
HearsInAnyRole(s, remote, local) ==
  /\ negPc[s] = "recv" /\ udp[s] # <<>>
  /\ ~ Foreign(s, Head(udp[s]))
  /\ Head(udp[s]).role \in remote

\* `s' waits in recv, and its next datagram is one of its cluster that tells
\* `remote' while the role it read at the top of the loop is in `local'.
Hears(s, remote, local) ==
  /\ negPc[s] = "recv" /\ udp[s] # <<>>
  /\ ~ Foreign(s, Head(udp[s]))
  /\ Head(udp[s]).role \in remote
  /\ negRole[s] \in local

NegForeign(s) ==
  /\ negPc[s] = "recv" /\ udp[s] # <<>> /\ Foreign(s, Head(udp[s]))
  /\ udp' = Received(s)
  /\ CountRound(s)
  /\ GoNeg(s, "top")
  /\ UNCHANGED <<main, shared, negRole, negPeer, hbVars, hbq, budget>>

\* Mutant: the sign of stricmp is not looked at, only whether it is 0.
BeatsEqual(s, t) == Ip[s] = Ip[t]

\* stricmp of the two addresses.
Beats(s, t) == Ip[s] > Ip[t]

\* Two undecided servers: the higher address becomes primary.
NegTieBreak(s) ==
  /\ Hears(s, {"WHO_AM_I"}, {"WHO_AM_I"})
  /\ IF Beats(s, Head(udp[s]).from)
     THEN SetRole(s, "PRIMARY_WITHOUT_BACKUP") ELSE UNCHANGED role
  /\ udp' = Received(s)
  /\ GoNeg(s, "top")
  /\ UNCHANGED <<main, mate, conn, slots, quit, report, negRole, negCount,
                 negPeer, hbVars, hbq, budget>>

\* A lone primary tells a newcomer so and takes it as its backup.
NegAdopt(s) ==
  /\ Hears(s, {"WHO_AM_I"}, {"PRIMARY_WITHOUT_BACKUP"})
  /\ Announce(s, Received(s))
  /\ SetRole(s, "PRIMARY_WITH_BACKUP")
  /\ negPeer' = [negPeer EXCEPT ![s] = Head(udp[s]).from]
  /\ GoNeg(s, "pair")
  /\ UNCHANGED <<main, mate, conn, slots, quit, report, negRole, negCount,
                 hbVars, hbq, starts, crashes, keys>>

\* A paired server tells a newcomer that the cluster is complete.
NegTurnAway(s) ==
  /\ Hears(s, {"WHO_AM_I"}, Paired)
  /\ Announce(s, Received(s))
  /\ GoNeg(s, "top")
  /\ UNCHANGED <<main, shared, negRole, negCount, negPeer, hbVars, hbq, starts,
                 crashes, keys>>

\* An undecided server hears a lone primary and becomes its backup.
NegFollow(s) ==
  /\ Hears(s, {"PRIMARY_WITHOUT_BACKUP"}, {"WHO_AM_I"})
  /\ SetRole(s, "BACKUP_WITH_PRIMARY")
  /\ negPeer' = [negPeer EXCEPT ![s] = Head(udp[s]).from]
  /\ udp' = Received(s)
  /\ GoNeg(s, "pair")
  /\ UNCHANGED <<main, mate, conn, slots, quit, report, negRole, negCount,
                 hbVars, hbq, budget>>

\* A server of the cluster quits: a paired server is alone again.  Nothing
\* compares the sender with the mate.
NegWidow(s) ==
  /\ Hears(s, {"ACTIVE_QUIT_ER"}, Paired)
  /\ SetRole(s, "PRIMARY_WITHOUT_BACKUP")
  /\ udp' = Received(s)
  /\ GoNeg(s, "drop")
  /\ UNCHANGED <<main, mate, conn, slots, quit, report, negRole, negCount,
                 negPeer, hbVars, hbq, budget>>

\* An undecided server hears that the cluster is complete: inactive_quit.
NegInactiveQuit(s) ==
  /\ Hears(s, Paired, {"WHO_AM_I"})
  /\ udp' = Received(s)
  /\ report' = [report EXCEPT ![s] = TRUE]
  /\ GoNeg(s, "done")
  /\ UNCHANGED <<main, role, mate, conn, slots, quit, negRole, negCount,
                 negPeer, hbVars, hbq, budget>>

\* Every other combination of roles is only logged.
NegIgnore(s) ==
  /\ \/ Hears(s, {"WHO_AM_I"}, {"ACTIVE_QUIT_ER"})
     \/ Hears(s, {"ACTIVE_QUIT_ER"}, Role \ Paired)
     \/ Hears(s, {"PRIMARY_WITHOUT_BACKUP"} \union Paired, Role \ {"WHO_AM_I"})
  /\ udp' = Received(s)
  /\ GoNeg(s, "top")
  /\ UNCHANGED <<main, shared, negRole, negCount, negPeer, hbVars, hbq, budget>>

\* The new mate's address is stored after the role that says there is one.
NegPair(s) ==
  /\ negPc[s] = "pair"
  /\ mate' = [mate EXCEPT ![s] = negPeer[s]]
  /\ GoNeg(s, "connect")
  /\ UNCHANGED <<main, role, conn, slots, quit, report, negRole, negCount,
                 negPeer, hbVars, net, budget>>

NegConnect(s) ==
  /\ negPc[s] = "connect"
  /\ Connect(s, negPeer[s])
  /\ negPeer' = [negPeer EXCEPT ![s] = Nobody]
  /\ GoNeg(s, "top")
  /\ UNCHANGED <<main, role, mate, quit, report, negRole, negCount, hbVars,
                 net, starts, crashes, keys>>

\* VNDisconnect deletes every channel but leaves m_connecetion_id as it was.
NegDrop(s) ==
  /\ negPc[s] = "drop"
  /\ slots' = [slots EXCEPT ![s] = {}]
  /\ mate' = [mate EXCEPT ![s] = Nobody]
  /\ GoNeg(s, "top")
  /\ UNCHANGED <<main, role, conn, quit, report, negRole, negCount, negPeer,
                 hbVars, net, budget>>

\* The quit is announced with whatever the role is by now, and reported.
NegBye(s) ==
  /\ negPc[s] = "bye"
  /\ Announce(s, udp)
  /\ report' = [report EXCEPT ![s] = TRUE]
  /\ GoNeg(s, "done")
  /\ UNCHANGED <<main, role, mate, conn, slots, quit, negRole, negCount,
                 negPeer, hbVars, hbq, starts, crashes, keys>>

NegReceive(s) ==
  \/ NegForeign(s) \/ NegTieBreak(s) \/ NegAdopt(s) \/ NegTurnAway(s)
  \/ NegFollow(s) \/ NegWidow(s) \/ NegInactiveQuit(s) \/ NegIgnore(s)

NegProceed(s) ==
  \/ NegStart(s) \/ NegLeave(s) \/ NegTop(s) \/ NegPair(s)
  \/ NegConnect(s) \/ NegDrop(s) \/ NegBye(s)

Negotiate(s) == NegProceed(s) \/ NegReceive(s) \/ NegTimeout(s)

-----------------------------------------------------------------------------
(* The heartbeat thread.                                                   *)

\* Mutant: the loop test does not look at the quit flag.
HbTopForever(s) ==
  /\ hbPc[s] = "top"
  /\ GoHb(s, IF role[s] \in Paired THEN "send" ELSE "idle")
  /\ UNCHANGED <<main, shared, negVars, errCount, sndText, net, budget>>

\* The loop test and the read of the role.
HbTop(s) ==
  /\ hbPc[s] = "top"
  /\ GoHb(s, IF quit[s] THEN "done"
             ELSE IF role[s] \in Paired THEN "send" ELSE "idle")
  /\ UNCHANGED <<main, shared, negVars, errCount, sndText, net, budget>>

\* Without a mate: fool_wait, then forget the missed heartbeats.
HbIdle(s) ==
  /\ hbPc[s] = "idle"
  /\ errCount' = [errCount EXCEPT ![s] = 0]
  /\ GoHb(s, "top")
  /\ UNCHANGED <<main, shared, negVars, sndText, net, budget>>

\* Send a PING if there is a connection; a failure is only logged.
HbSend(s) ==
  /\ hbPc[s] = "send"
  /\ SendHeartbeat(s, "PING")
  /\ GoHb(s, "recv")
  /\ UNCHANGED <<main, shared, negVars, errCount, udp, starts, crashes, keys>>

\* A message from the mate resets the count, or ends the process.  One from
\* another server is dropped.
HbReceive(s) ==
  LET m == Head(hbq[s])
      fromMate == m.from = mate[s]
  IN  /\ hbPc[s] = "recv" /\ hbq[s] # <<>>
      /\ hbq' = [hbq EXCEPT ![s] = Tail(@)]
      /\ errCount' = [errCount EXCEPT ![s] =
                        IF fromMate /\ m.text = "PING" THEN 0 ELSE @]
      /\ quit' = [quit EXCEPT ![s] = @ \/ (fromMate /\ m.text = "QUIT")]
      /\ GoHb(s, "top")
      /\ UNCHANGED <<main, role, mate, conn, slots, report, negVars, sndText,
                     udp, budget>>

\* Mutants: the mate is given up only over a connection, or at once.
GivesUpConnected(s) ==
  errCount[s] > MAX_HEARTBEAT_ERROR_COUNT /\ conn[s] # Nobody
GivesUpAtOnce(s) == TRUE

\* Too many heartbeats in a row have been missed.
GivesUp(s) == errCount[s] > MAX_HEARTBEAT_ERROR_COUNT

\* VNRecvMsg times out.  err_count only decides whether the mate is given up:
\* it stops at the value that does.
HbTimeout(s) ==
  /\ hbPc[s] = "recv" /\ hbq[s] = <<>>
  /\ errCount' = [errCount EXCEPT ![s] =
                    IF @ > MAX_HEARTBEAT_ERROR_COUNT THEN @ ELSE @ + 1]
  /\ IF GivesUp(s) THEN SetRole(s, "PRIMARY_WITHOUT_BACKUP")
                   ELSE UNCHANGED role
  /\ GoHb(s, IF GivesUp(s) THEN "sayquit" ELSE "top")
  /\ UNCHANGED <<main, mate, conn, slots, quit, report, negVars, sndText, net,
                 budget>>

\* "report mate server to quit"
HbSayQuit(s) ==
  /\ hbPc[s] = "sayquit"
  /\ SendHeartbeat(s, "QUIT")
  /\ GoHb(s, "top")
  /\ UNCHANGED <<main, shared, negVars, errCount, udp, starts, crashes, keys>>

HeartbeatThread(s) ==
  \/ HbTop(s) \/ HbIdle(s) \/ HbSend(s) \/ HbReceive(s) \/ HbTimeout(s)
  \/ HbSayQuit(s)

-----------------------------------------------------------------------------
(* The process around the two threads.                                     *)

\* The state of a process that does not run, or has only just begun to: its
\* constructor and init have run and its threads have not taken a step.
Fresh(s, status, neg, hb) ==
  /\ main'     = [main     EXCEPT ![s] = status]
  /\ role'     = [role     EXCEPT ![s] = "WHO_AM_I"]
  /\ mate'     = [mate     EXCEPT ![s] = Nobody]
  /\ conn'     = [conn     EXCEPT ![s] = Nobody]
  /\ slots'    = [slots    EXCEPT ![s] = {}]
  /\ quit'     = [quit     EXCEPT ![s] = FALSE]
  /\ report'   = [report   EXCEPT ![s] = FALSE]
  /\ negPc'    = [negPc    EXCEPT ![s] = neg]
  /\ negRole'  = [negRole  EXCEPT ![s] = "WHO_AM_I"]
  /\ negCount' = [negCount EXCEPT ![s] = 0]
  /\ negPeer'  = [negPeer  EXCEPT ![s] = Nobody]
  /\ hbPc'     = [hbPc     EXCEPT ![s] = hb]
  /\ errCount' = [errCount EXCEPT ![s] = 0]
  /\ sndText'  = [sndText  EXCEPT ![s] = "none"]
  /\ udp'      = [udp      EXCEPT ![s] = <<>>]
  /\ hbq'      = [hbq      EXCEPT ![s] = <<>>]

\* init: sockets bound, both threads created.
Start(s) ==
  /\ ~ Up(s) /\ starts[s] < MaxStarts
  /\ starts' = [starts EXCEPT ![s] = @ + 1]
  /\ Fresh(s, "running", "start", "top")
  /\ UNCHANGED <<faults, crashes, keys>>

\* uninit raises the quit flag and waits for both threads.
BeginUninit(s) ==
  /\ main[s] = "running"
  /\ main' = [main EXCEPT ![s] = "joining"]
  /\ quit' = [quit EXCEPT ![s] = TRUE]
  /\ UNCHANGED <<role, mate, conn, slots, negVars, hbVars, net, starts, faults,
                 crashes>>

\* The main loop sees a key.
MainKey(s) ==
  /\ keys < MaxKeys /\ BeginUninit(s)
  /\ keys' = keys + 1
  /\ UNCHANGED report

\* The main loop sees the (auto-reset) quit event.
MainReport(s) ==
  /\ report[s] /\ BeginUninit(s)
  /\ report' = [report EXCEPT ![s] = FALSE]
  /\ UNCHANGED keys

\* Both threads have returned: the listener, the socket and the queue go.
EndUninit(s) ==
  /\ main[s] = "joining" /\ negPc[s] = "done" /\ hbPc[s] = "done"
  /\ Fresh(s, "off", "off", "off")
  /\ UNCHANGED budget

\* The process is killed, or its machine fails.
Crash(s) ==
  /\ Up(s) /\ crashes < MaxCrashes
  /\ crashes' = crashes + 1
  /\ Fresh(s, "off", "off", "off")
  /\ UNCHANGED <<starts, faults, keys>>

-----------------------------------------------------------------------------

Init ==
  /\ main     = [s \in Servers |-> "off"]
  /\ role     = [s \in Servers |-> "WHO_AM_I"]
  /\ mate     = [s \in Servers |-> Nobody]
  /\ conn     = [s \in Servers |-> Nobody]
  /\ slots    = [s \in Servers |-> {}]
  /\ quit     = [s \in Servers |-> FALSE]
  /\ report   = [s \in Servers |-> FALSE]
  /\ negPc    = [s \in Servers |-> "off"]
  /\ negRole  = [s \in Servers |-> "WHO_AM_I"]
  /\ negCount = [s \in Servers |-> 0]
  /\ negPeer  = [s \in Servers |-> Nobody]
  /\ hbPc     = [s \in Servers |-> "off"]
  /\ errCount = [s \in Servers |-> 0]
  /\ sndText  = [s \in Servers |-> "none"]
  /\ udp      = [s \in Servers |-> <<>>]
  /\ hbq      = [s \in Servers |-> <<>>]
  /\ starts   = [s \in Servers |-> 0]
  /\ faults = 0 /\ crashes = 0 /\ keys = 0

Main(s) == MainReport(s) \/ EndUninit(s)

Next ==
  \E s \in Servers :
    \/ Negotiate(s) \/ HeartbeatThread(s) \/ Main(s)
    \/ Start(s) \/ MainKey(s) \/ Crash(s)

Spec == Init /\ [][Next]_vars

-----------------------------------------------------------------------------
(* Safety.                                                                 *)

\* Every variable has its type; the counters stop where the code stops
\* looking at them.
TypeOK ==
  /\ main     \in [Servers -> {"off", "running", "joining"}]
  /\ role     \in [Servers -> Role]
  /\ mate     \in [Servers -> Servers \union {Nobody}]
  /\ conn     \in [Servers -> Servers \union {Nobody}]
  /\ slots    \in [Servers -> SUBSET Servers]
  /\ quit     \in [Servers -> BOOLEAN]
  /\ report   \in [Servers -> BOOLEAN]
  /\ negPc    \in [Servers -> {"off", "start", "top", "recv", "pair", "connect",
                               "drop", "bye", "done"}]
  /\ negRole  \in [Servers -> Role]
  /\ negCount \in [Servers -> 0 .. NEGOTIATE_MAX_COUNT + 1]
  /\ negPeer  \in [Servers -> Servers \union {Nobody}]
  /\ hbPc     \in [Servers -> {"off", "top", "idle", "send", "recv", "sayquit",
                               "done"}]
  /\ errCount \in [Servers -> 0 .. MAX_HEARTBEAT_ERROR_COUNT + 1]
  /\ sndText  \in [Servers -> {"none", "PING", "QUIT"}]
  /\ udp      \in [Servers -> Seq(Datagram)]
  /\ hbq      \in [Servers -> Seq(Heartbeat)]
  /\ starts   \in [Servers -> Nat]
  /\ faults \in Nat /\ crashes \in Nat /\ keys \in Nat

\* The server that s follows as a backup, or is about to be recorded as its
\* mate: set_my_role comes before the address is stored.
Follows(s, t) ==
  /\ role[s] = "BACKUP_WITH_PRIMARY"
  /\ t = IF negPc[s] = "pair" THEN negPeer[s] ELSE mate[s]

\* Two servers are never each other's backup: whatever is lost, restarted or
\* reordered between the threads, a pair keeps one member that answers to
\* nobody (negotiate's PRIMARY_WITHOUT_BACKUP / WHO_AM_I case, and the stale
\* role it is decided with).
NeverMutualBackups ==
  \A s, t \in Servers : ~ (Follows(s, t) /\ Follows(t, s))

\* Outside the window in negotiate between set_my_role and strncpy, a server
\* whose role says it has a mate has the address of another server of its own
\* cluster, so that heartbeat can tell the mate's messages from others.
PairedKnowsMate ==
  \A s \in Servers :
    role[s] \in Paired /\ negPc[s] # "pair" =>
      /\ mate[s] \in Servers \ {s}
      /\ ServerId[mate[s]] = ServerId[s]

\* What ties a thread's position and local variables to the shared state, for
\* each server: the induction of the proofs needs it.
ThreadInv ==
  \A s \in Servers :
    /\ negPc[s] \in {"off", "start"} => role[s] = "WHO_AM_I"
    /\ negPc[s] = "recv" /\ negRole[s] = "WHO_AM_I" =>
         role[s] = "WHO_AM_I" /\ negCount[s] <= NEGOTIATE_MAX_COUNT
    /\ negPc[s] = "recv" /\ negRole[s] = "PRIMARY_WITHOUT_BACKUP" =>
         role[s] = "PRIMARY_WITHOUT_BACKUP"
    /\ negPc[s] = "pair" =>
         negPeer[s] \in Servers \ {s} /\ ServerId[negPeer[s]] = ServerId[s]
    /\ negPc[s] = "connect" => negPeer[s] \in Servers
    /\ negPc[s] = "drop" => role[s] \notin Paired
    /\ hbPc[s] \in {"send", "recv", "sayquit"} => role[s] # "WHO_AM_I"

\* s still has to read that t is a lone primary.
Offered(t, s) ==
  \E i \in 1 .. Len(udp[s]) :
    udp[s][i] = [from |-> t, role |-> "PRIMARY_WITHOUT_BACKUP"]

\* An undecided server with an offer to follow is not followed by the one that
\* made it, and two undecided servers do not hold each other's offer.
OfferInv ==
  \A s, t \in Servers :
    role[s] = "WHO_AM_I" /\ Offered(t, s) =>
      /\ ~ Follows(t, s)
      /\ ~ (role[t] = "WHO_AM_I" /\ Offered(s, t))

\* A live process becomes a backup only when it was undecided, adopts a backup
\* only as a lone primary, and never becomes undecided again.
RoleStep ==
  \A s \in Servers : Up(s) /\ Up(s)' =>
    /\ role'[s] = "WHO_AM_I" => role[s] = "WHO_AM_I"
    /\ role'[s] = "BACKUP_WITH_PRIMARY" =>
         role[s] \in {"WHO_AM_I", "BACKUP_WITH_PRIMARY"}
    /\ role'[s] = "PRIMARY_WITH_BACKUP" =>
         role[s] \in {"PRIMARY_WITHOUT_BACKUP", "PRIMARY_WITH_BACKUP"}

\* Every step is one: negotiate acts on a role it read before it blocked, and
\* heartbeat writes the role in between, but never to another effect.
RoleSteps == [][RoleStep]_vars

(* Liveness, with the clock and the fairness of RedundancyTimed.           *)

\* A server does not stay undecided: negotiation ends in a role, or in the
\* quit that uninit carries out.
Decides ==
  \A s \in Servers :
    Up(s) /\ role[s] = "WHO_AM_I" ~>
      ~ Up(s) \/ role[s] # "WHO_AM_I" \/ main[s] = "joining"

\* uninit's wait for both threads ends, whether a key or negotiation asked for
\* it: each of them sees the quit flag wherever it was when the flag was raised.
UninitEnds == \A s \in Servers : main[s] = "joining" ~> ~ Up(s)

\* A mate that is down for good does not keep a server paired.
TakesOver ==
  \A s, t \in Servers :
    <>[](~ Up(t)) => []<> ~ (role[s] \in Paired /\ mate[s] = t)

(* What comments of the code say.                                          *)

\* "normal quit, report to mate server": the role that a thread which leaves
\* negotiate's loop broadcasts is the quitter's.
NormalQuitIsReported ==
  [][\A s \in Servers :
       negPc[s] = "bye" /\ negPc'[s] = "done" =>
         role[s] = "ACTIVE_QUIT_ER"]_vars

\* "report mate server to quit": what heartbeat sends, over a connection, when
\* it has given its mate up says so.
MateIsToldToQuit ==
  [][\A s \in Servers :
       hbPc[s] = "sayquit" /\ hbPc'[s] = "top" /\ conn[s] # Nobody =>
         sndText'[s] = "QUIT"]_vars
=============================================================================
