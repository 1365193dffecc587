------------------------- MODULE Redundancy_proofs -------------------------
(***************************************************************************)
(* Proofs about Redundancy, for any set of servers, any addresses and      *)
(* cluster ids, and every value of the bounds.                             *)
(***************************************************************************)
EXTENDS Redundancy, TLAPS

\* Whatever broadcast_my_role sends, and to whomever it is lost, every socket
\* holds datagrams and the fault counter is a number.
LEMMA BroadcastType ==
  ASSUME TypeOK, NEW s \in Servers, NEW r \in Role,
         NEW inboxes \in [Servers -> Seq(Datagram)],
         Broadcast(s, r, inboxes)
  PROVE  udp' \in [Servers -> Seq(Datagram)] /\ faults' \in Nat
<1>1. [from |-> s, role |-> r] \in Datagram
  BY DEF Datagram
<1>2. \A t \in Servers :
        Append(inboxes[t], [from |-> s, role |-> r]) \in Seq(Datagram)
  BY <1>1
<1>3. udp' \in [Servers -> Seq(Datagram)]
  BY <1>2 DEF Broadcast
<1>4. faults' \in Nat
  BY DEF Broadcast, TypeOK
<1> QED
  BY <1>3, <1>4

\* Receiving the first datagram leaves every socket with datagrams.
LEMMA ReceivedType ==
  ASSUME TypeOK, NEW s \in Servers, udp[s] # <<>>
  PROVE  /\ Received(s) \in [Servers -> Seq(Datagram)]
         /\ Head(udp[s]) \in Datagram
<1>1. udp[s] \in Seq(Datagram)
  BY DEF TypeOK
<1>2. Tail(udp[s]) \in Seq(Datagram) /\ Head(udp[s]) \in Datagram
  BY <1>1
<1> QED
  BY <1>2 DEF Received, TypeOK

\* VNSendMsg only ever appends a heartbeat, with one of heartbeat's two texts.
LEMMA SendHeartbeatType ==
  ASSUME TypeOK, NEW s \in Servers, NEW text \in {"PING", "QUIT"},
         SendHeartbeat(s, text)
  PROVE  /\ hbq' \in [Servers -> Seq(Heartbeat)] /\ faults' \in Nat
         /\ sndText' \in [Servers -> {"none", "PING", "QUIT"}]
<1>1. TextOf(s, text) \in {"PING", "QUIT"}
  BY DEF TextOf, TypeOK
<1>2. sndText' \in [Servers -> {"none", "PING", "QUIT"}]
  BY <1>1 DEF SendHeartbeat, TypeOK
<1>3. hbq \in [Servers -> Seq(Heartbeat)] /\ faults \in Nat
  BY DEF TypeOK
<1>4. CASE conn[s] = Nobody
  BY <1>2, <1>3, <1>4 DEF SendHeartbeat
<1>5. CASE conn[s] # Nobody
  <2> DEFINE m == [from |-> s, text |-> TextOf(s, text)]
  <2>1. conn[s] \in Servers
    BY <1>5 DEF TypeOK
  <2>2. m \in Heartbeat
    BY <1>1 DEF Heartbeat
  <2>3. Append(hbq[conn[s]], m) \in Seq(Heartbeat)
    BY <1>3, <2>1, <2>2
  <2>4. [hbq EXCEPT ![conn[s]] = Append(@, m)] \in [Servers -> Seq(Heartbeat)]
    BY <1>3, <2>1, <2>3
  <2>5. Deliver(s, conn[s], m)
    BY <1>5 DEF SendHeartbeat
  <2>6. hbq' = hbq \/ hbq' = [hbq EXCEPT ![conn[s]] = Append(@, m)]
    BY <2>5 DEF Deliver
  <2>7. faults' = faults \/ faults' = faults + 1
    BY <2>5 DEF Deliver
  <2>8. hbq' \in [Servers -> Seq(Heartbeat)]
    BY <1>3, <2>4, <2>6
  <2>9. faults' \in Nat
    BY <1>3, <2>7
  <2> QED
    BY <1>2, <2>8, <2>9
<1> QED
  BY <1>4, <1>5

-----------------------------------------------------------------------------
(* Type correctness.                                                       *)

\* A step of Next keeps every variable in its type.  The counter of rounds
\* needs ThreadInv: an undecided server that waits has rounds left.
LEMMA TypeNext ==
  ASSUME TypeOK, ThreadInv, Next
  PROVE  TypeOK'
<1> PICK s \in Servers :
      \/ Negotiate(s) \/ HeartbeatThread(s) \/ Main(s)
      \/ Start(s) \/ MainKey(s) \/ Crash(s)
  BY DEF Next
<1> USE DEF shared, negVars, hbVars, net, budget, SetRole, GoNeg, GoHb, Role
<1>a. role[s] \in Role /\ udp \in [Servers -> Seq(Datagram)]
  BY DEF TypeOK
<1>b. ASSUME udp[s] # <<>>
      PROVE  /\ Received(s) \in [Servers -> Seq(Datagram)]
             /\ Head(udp[s]).from \in Servers
  BY <1>b, ReceivedType DEF Datagram
<1>c. ASSUME negPc[s] = "recv", CountRound(s)
      PROVE  negCount' \in [Servers -> 0 .. NEGOTIATE_MAX_COUNT + 1]
  BY <1>c, BoundAssumption, SMTT(30) DEF CountRound, TypeOK, ThreadInv
<1>d. 0 \in 0 .. NEGOTIATE_MAX_COUNT + 1 /\ 0 \in 0 .. MAX_HEARTBEAT_ERROR_COUNT + 1
  BY BoundAssumption
<1>1. CASE NegStart(s)
  <2>1. udp' \in [Servers -> Seq(Datagram)] /\ faults' \in Nat
    BY <1>1, <1>a, BroadcastType DEF NegStart, Announce
  <2> QED
    BY <1>1, <2>1 DEF NegStart, TypeOK
<1>2. CASE NegLeave(s)
  BY <1>2 DEF NegLeave, TypeOK
<1>3. CASE NegTop(s)
  BY <1>3 DEF NegTop, TypeOK
<1>4. CASE NegTimeout(s)
  <2>1. udp' \in [Servers -> Seq(Datagram)] /\ faults' \in Nat
    BY <1>4, <1>a, BroadcastType DEF NegTimeout, Announce, TypeOK
  <2>2. negCount' \in [Servers -> 0 .. NEGOTIATE_MAX_COUNT + 1]
    BY <1>4, <1>c DEF NegTimeout
  <2> QED
    BY <1>4, <2>1, <2>2 DEF NegTimeout, TypeOK
<1>5. CASE NegForeign(s)
  <2>1. negCount' \in [Servers -> 0 .. NEGOTIATE_MAX_COUNT + 1]
    BY <1>5, <1>c DEF NegForeign
  <2> QED
    BY <1>5, <1>b, <2>1 DEF NegForeign, TypeOK
<1>6. CASE NegTieBreak(s)
  BY <1>6, <1>b DEF NegTieBreak, Hears, TypeOK
<1>7. CASE NegAdopt(s)
  <2>1. udp' \in [Servers -> Seq(Datagram)] /\ faults' \in Nat
    BY <1>7, <1>a, <1>b, BroadcastType DEF NegAdopt, Announce, Hears
  <2> QED
    BY <1>7, <1>b, <2>1 DEF NegAdopt, Hears, TypeOK
<1>8. CASE NegTurnAway(s)
  <2>1. udp' \in [Servers -> Seq(Datagram)] /\ faults' \in Nat
    BY <1>8, <1>a, <1>b, BroadcastType DEF NegTurnAway, Announce, Hears
  <2> QED
    BY <1>8, <2>1 DEF NegTurnAway, TypeOK
<1>9. CASE NegFollow(s)
  BY <1>9, <1>b DEF NegFollow, Hears, TypeOK
<1>10. CASE NegWidow(s)
  BY <1>10, <1>b DEF NegWidow, Hears, TypeOK
<1>11. CASE NegInactiveQuit(s)
  BY <1>11, <1>b DEF NegInactiveQuit, Hears, TypeOK
<1>12. CASE NegIgnore(s)
  BY <1>12, <1>b DEF NegIgnore, Hears, TypeOK
<1>13. CASE NegPair(s)
  BY <1>13 DEF NegPair, TypeOK
<1>14. CASE NegConnect(s)
  <2>1. negPeer[s] \in Servers
    BY <1>14 DEF NegConnect, ThreadInv
  <2>2. slots' \in [Servers -> SUBSET Servers]
    BY <1>14, <2>1 DEF NegConnect, Connect, TypeOK
  <2>3. faults' \in {faults, faults + 1}
    BY <1>14 DEF NegConnect, Connect
  <2>4. conn' \in [Servers -> Servers \union {Nobody}]
    BY <1>14, <2>1 DEF NegConnect, Connect, TypeOK
  <2>5. faults' \in Nat
    BY <2>3 DEF TypeOK
  <2> QED
    BY <1>14, <2>2, <2>4, <2>5 DEF NegConnect, TypeOK
<1>15. CASE NegDrop(s)
  BY <1>15 DEF NegDrop, TypeOK
<1>16. CASE NegBye(s)
  <2>1. udp' \in [Servers -> Seq(Datagram)] /\ faults' \in Nat
    BY <1>16, <1>a, BroadcastType DEF NegBye, Announce
  <2> QED
    BY <1>16, <2>1 DEF NegBye, TypeOK
<1>17. CASE HbTop(s)
  BY <1>17 DEF HbTop, TypeOK
<1>18. CASE HbIdle(s)
  <2>1. errCount' \in [Servers -> 0 .. MAX_HEARTBEAT_ERROR_COUNT + 1]
    BY <1>18, <1>d DEF HbIdle, TypeOK
  <2> QED
    BY <1>18, <2>1 DEF HbIdle, TypeOK
<1>19. CASE HbSend(s)
  <2>1. /\ hbq' \in [Servers -> Seq(Heartbeat)] /\ faults' \in Nat
        /\ sndText' \in [Servers -> {"none", "PING", "QUIT"}]
    BY <1>19, SendHeartbeatType DEF HbSend, TypeOK
  <2> QED
    BY <1>19, <2>1 DEF HbSend, TypeOK
<1>20. CASE HbReceive(s)
  <2>1. hbq[s] \in Seq(Heartbeat) /\ hbq[s] # <<>>
    BY <1>20 DEF HbReceive, TypeOK
  <2>2. Tail(hbq[s]) \in Seq(Heartbeat)
    BY <2>1
  <2>3. hbq' \in [Servers -> Seq(Heartbeat)]
    BY <1>20, <2>2 DEF HbReceive, TypeOK
  <2>4. quit' \in [Servers -> BOOLEAN]
    BY <1>20 DEF HbReceive, TypeOK
  <2>5. errCount' \in [Servers -> 0 .. MAX_HEARTBEAT_ERROR_COUNT + 1]
    BY <1>20, BoundAssumption, SMTT(30) DEF HbReceive, TypeOK
  <2> QED
    BY <1>20, <2>3, <2>4, <2>5 DEF HbReceive, TypeOK
<1>21. CASE HbTimeout(s)
  <2>1. errCount' \in [Servers -> 0 .. MAX_HEARTBEAT_ERROR_COUNT + 1]
    BY <1>21, BoundAssumption DEF HbTimeout, TypeOK
  <2> QED
    BY <1>21, <2>1 DEF HbTimeout, TypeOK
<1>22. CASE HbSayQuit(s)
  <2>1. /\ hbq' \in [Servers -> Seq(Heartbeat)] /\ faults' \in Nat
        /\ sndText' \in [Servers -> {"none", "PING", "QUIT"}]
    BY <1>22, SendHeartbeatType DEF HbSayQuit, TypeOK
  <2> QED
    BY <1>22, <2>1 DEF HbSayQuit, TypeOK
<1>23. CASE Start(s)
  <2>1. starts' \in [Servers -> Nat]
    BY <1>23 DEF Start, TypeOK
  <2>2. UNCHANGED <<faults, crashes, keys>> /\ Fresh(s, "running", "start", "top")
    BY <1>23 DEF Start
  <2> QED
    BY <2>1, <2>2, <1>d DEF Fresh, TypeOK
<1>24. CASE MainKey(s)
  BY <1>24 DEF MainKey, BeginUninit, TypeOK
<1>25. CASE MainReport(s)
  BY <1>25 DEF MainReport, BeginUninit, TypeOK
<1>26. CASE EndUninit(s)
  <2>1. UNCHANGED <<starts, faults, crashes, keys>> /\ Fresh(s, "off", "off", "off")
    BY <1>26 DEF EndUninit
  <2> QED
    BY <2>1, <1>d DEF Fresh, TypeOK
<1>27. CASE Crash(s)
  <2>1. UNCHANGED <<starts, faults, keys>> /\ Fresh(s, "off", "off", "off")
    BY <1>27 DEF Crash
  <2>2. crashes' \in Nat
    BY <1>27 DEF Crash, TypeOK
  <2> QED
    BY <2>1, <2>2, <1>d DEF Fresh, TypeOK
<1> QED
  BY <1>1, <1>2, <1>3, <1>4, <1>5, <1>6, <1>7, <1>8, <1>9, <1>10, <1>11,
     <1>12, <1>13, <1>14, <1>15, <1>16, <1>17, <1>18, <1>19, <1>20, <1>21,
     <1>22, <1>23, <1>24, <1>25, <1>26, <1>27
     DEF Negotiate, NegProceed, NegReceive, HeartbeatThread, Main

-----------------------------------------------------------------------------
(* The threads' positions and locals against the shared state.             *)

\* A step of Next keeps the ties of ThreadInv.
LEMMA ThreadNext ==
  ASSUME TypeOK, ThreadInv, Next
  PROVE  ThreadInv'
<1> PICK s \in Servers :
      \/ Negotiate(s) \/ HeartbeatThread(s) \/ Main(s)
      \/ Start(s) \/ MainKey(s) \/ Crash(s)
  BY DEF Next
<1> USE DEF shared, negVars, hbVars, net, budget, SetRole, GoNeg, GoHb, Role, Paired
<1>b. ASSUME udp[s] # <<>>
      PROVE  Head(udp[s]).from \in Servers
  BY <1>b, ReceivedType DEF Datagram
<1>1. CASE NegStart(s)
  BY <1>1 DEF NegStart, ThreadInv, TypeOK
<1>2. CASE NegLeave(s)
  BY <1>2 DEF NegLeave, ThreadInv, TypeOK
<1>3. CASE NegTop(s)
  <2>1. \/ role' = role /\ negRole'[s] = role[s] /\ ~ Claims(s)
        \/ role'[s] = "PRIMARY_WITHOUT_BACKUP" /\ negRole'[s] = role'[s]
    BY <1>3 DEF NegTop, TypeOK
  <2>2. negPc'[s] = "recv" /\ UNCHANGED <<negCount, negPeer, hbPc>>
    BY <1>3 DEF NegTop, TypeOK
  <2>3. \A x \in Servers \ {s} :
          /\ role'[x] = role[x] /\ negRole'[x] = negRole[x]
          /\ negPc'[x] = negPc[x]
    BY <1>3 DEF NegTop, TypeOK
  <2>4. ~ Claims(s) /\ role[s] = "WHO_AM_I" => negCount[s] <= NEGOTIATE_MAX_COUNT
    BY BoundAssumption DEF Claims, TypeOK
  <2> QED
    BY <2>1, <2>2, <2>3, <2>4 DEF ThreadInv
<1>4. CASE NegTimeout(s)
  BY <1>4, BoundAssumption, SMTT(30) DEF NegTimeout, CountRound, ThreadInv, TypeOK
<1>5. CASE NegForeign(s)
  <2>1. negPc'[s] = "top" /\ UNCHANGED <<role, negRole, negPeer, hbPc>>
    BY <1>5 DEF NegForeign, TypeOK
  <2>2. \A x \in Servers \ {s} :
          negPc'[x] = negPc[x] /\ negCount'[x] = negCount[x]
    BY <1>5 DEF NegForeign, CountRound, TypeOK
  <2> QED
    BY <2>1, <2>2 DEF ThreadInv
<1>6. CASE NegTieBreak(s)
  <2>1. role[s] = "WHO_AM_I" /\ hbPc[s] \notin {"send", "recv", "sayquit"}
    BY <1>6 DEF NegTieBreak, Hears, ThreadInv
  <2>2. negPc'[s] = "top" /\ UNCHANGED <<negRole, negCount, negPeer, hbPc>>
    BY <1>6 DEF NegTieBreak, TypeOK
  <2>3. \A x \in Servers \ {s} : negPc'[x] = negPc[x] /\ role'[x] = role[x]
    BY <1>6 DEF NegTieBreak, TypeOK
  <2> QED
    BY <2>1, <2>2, <2>3 DEF ThreadInv
<1>7. CASE NegAdopt(s)
  <2>1. /\ negPeer'[s] \in Servers \ {s}
        /\ ServerId[negPeer'[s]] = ServerId[s]
    BY <1>7, <1>b DEF NegAdopt, Hears, Foreign, TypeOK
  <2>3. role'[s] # "WHO_AM_I" /\ negPc'[s] = "pair"
    BY <1>7 DEF NegAdopt, TypeOK
  <2>4. \A x \in Servers \ {s} :
          /\ role'[x] = role[x] /\ negPc'[x] = negPc[x]
          /\ negPeer'[x] = negPeer[x]
    BY <1>7 DEF NegAdopt, TypeOK
  <2>5. UNCHANGED <<negRole, negCount, hbPc>>
    BY <1>7 DEF NegAdopt
  <2> QED
    BY <2>1, <2>3, <2>4, <2>5 DEF ThreadInv
<1>8. CASE NegTurnAway(s)
  BY <1>8 DEF NegTurnAway, Hears, ThreadInv, TypeOK
<1>9. CASE NegFollow(s)
  <2>1. /\ negPeer'[s] \in Servers \ {s}
        /\ ServerId[negPeer'[s]] = ServerId[s]
    BY <1>9, <1>b DEF NegFollow, Hears, Foreign, TypeOK
  <2>3. role'[s] # "WHO_AM_I" /\ negPc'[s] = "pair"
    BY <1>9 DEF NegFollow, TypeOK
  <2>4. \A x \in Servers \ {s} :
          /\ role'[x] = role[x] /\ negPc'[x] = negPc[x]
          /\ negPeer'[x] = negPeer[x]
    BY <1>9 DEF NegFollow, TypeOK
  <2>5. UNCHANGED <<negRole, negCount, hbPc>>
    BY <1>9 DEF NegFollow
  <2> QED
    BY <2>1, <2>3, <2>4, <2>5 DEF ThreadInv
<1>10. CASE NegWidow(s)
  BY <1>10 DEF NegWidow, Hears, ThreadInv, TypeOK
<1>11. CASE NegInactiveQuit(s)
  BY <1>11 DEF NegInactiveQuit, Hears, ThreadInv, TypeOK
<1>12. CASE NegIgnore(s)
  BY <1>12 DEF NegIgnore, Hears, ThreadInv, TypeOK
<1>13. CASE NegPair(s)
  BY <1>13 DEF NegPair, ThreadInv, TypeOK
<1>14. CASE NegConnect(s)
  <2>1. negPc'[s] = "top" /\ UNCHANGED <<role, negRole, negCount, hbPc>>
    BY <1>14 DEF NegConnect, TypeOK
  <2>2. \A x \in Servers \ {s} :
          negPc'[x] = negPc[x] /\ negPeer'[x] = negPeer[x]
    BY <1>14 DEF NegConnect, TypeOK
  <2> QED
    BY <1>14, <2>1, <2>2 DEF NegConnect, ThreadInv
<1>15. CASE NegDrop(s)
  BY <1>15 DEF NegDrop, ThreadInv, TypeOK
<1>16. CASE NegBye(s)
  BY <1>16 DEF NegBye, ThreadInv, TypeOK
<1>17. CASE HbTop(s)
  BY <1>17 DEF HbTop, ThreadInv, TypeOK
<1>18. CASE HbIdle(s)
  BY <1>18 DEF HbIdle, ThreadInv, TypeOK
<1>19. CASE HbSend(s)
  BY <1>19 DEF HbSend, ThreadInv, TypeOK
<1>20. CASE HbReceive(s)
  BY <1>20 DEF HbReceive, ThreadInv, TypeOK
<1>21. CASE HbTimeout(s)
  BY <1>21 DEF HbTimeout, ThreadInv, TypeOK
<1>22. CASE HbSayQuit(s)
  BY <1>22 DEF HbSayQuit, ThreadInv, TypeOK
<1>23. CASE Start(s)
  BY <1>23 DEF Start, Fresh, ThreadInv, TypeOK
<1>24. CASE MainKey(s)
  BY <1>24 DEF MainKey, BeginUninit, ThreadInv, TypeOK
<1>25. CASE MainReport(s)
  BY <1>25 DEF MainReport, BeginUninit, ThreadInv, TypeOK
<1>26. CASE EndUninit(s)
  BY <1>26 DEF EndUninit, Fresh, ThreadInv, TypeOK
<1>27. CASE Crash(s)
  BY <1>27 DEF Crash, Fresh, ThreadInv, TypeOK
<1> QED
  BY <1>1, <1>2, <1>3, <1>4, <1>5, <1>6, <1>7, <1>8, <1>9, <1>10, <1>11,
     <1>12, <1>13, <1>14, <1>15, <1>16, <1>17, <1>18, <1>19, <1>20, <1>21,
     <1>22, <1>23, <1>24, <1>25, <1>26, <1>27
     DEF Negotiate, NegProceed, NegReceive, HeartbeatThread, Main

-----------------------------------------------------------------------------
(* Who is offered what, and who follows whom.                              *)

Offer(x) == [from |-> x, role |-> "PRIMARY_WITHOUT_BACKUP"]

\* The sockets before a broadcast: as they were, or with the datagram that
\* prompted it received.
Drained(inboxes) ==
  /\ inboxes \in [Servers -> Seq(Datagram)]
  /\ \A y \in Servers :
       \/ inboxes[y] = udp[y]
       \/ udp[y] # <<>> /\ inboxes[y] = Tail(udp[y])

\* What a drained socket offers it offered before.
LEMMA DrainedOffers ==
  ASSUME TypeOK, NEW inboxes, Drained(inboxes), NEW x \in Servers,
         NEW y \in Servers, NEW i \in 1 .. Len(inboxes[y]),
         inboxes[y][i] = Offer(x)
  PROVE  Offered(x, y)
<1>1. udp[y] \in Seq(Datagram)
  BY DEF TypeOK
<1>2. CASE inboxes[y] = udp[y]
  BY <1>2 DEF Offered, Offer
<1>3. CASE udp[y] # <<>> /\ inboxes[y] = Tail(udp[y])
  <2>1. i + 1 \in 1 .. Len(udp[y]) /\ udp[y][i + 1] = inboxes[y][i]
    BY <1>1, <1>3
  <2> QED
    BY <2>1 DEF Offered, Offer
<1> QED
  BY <1>2, <1>3 DEF Drained

\* A broadcast offers nothing but the broadcaster itself, and that only with
\* the role of a lone primary.
LEMMA BroadcastOffers ==
  ASSUME TypeOK, NEW s \in Servers, NEW r \in Role, NEW inboxes,
         Drained(inboxes), Broadcast(s, r, inboxes),
         NEW x \in Servers, NEW y \in Servers, Offered(x, y)'
  PROVE  Offered(x, y) \/ (x = s /\ r = "PRIMARY_WITHOUT_BACKUP")
<1> DEFINE m == [from |-> s, role |-> r]
<1>1. PICK i \in 1 .. Len(udp'[y]) : udp'[y][i] = Offer(x)
  BY DEF Offered, Offer
<1>2. inboxes[y] \in Seq(Datagram)
  BY DEF Drained
<1>3. udp'[y] = inboxes[y] \/ udp'[y] = Append(inboxes[y], m)
  BY DEF Broadcast
<1>4. CASE i \in 1 .. Len(inboxes[y]) /\ udp'[y][i] = inboxes[y][i]
  BY <1>1, <1>4, DrainedOffers
<1>5. CASE udp'[y][i] = m
  <2>1. Offer(x).from = x /\ Offer(x).role = "PRIMARY_WITHOUT_BACKUP"
    BY DEF Offer
  <2> QED
    BY <1>1, <1>5, <2>1
<1>6. \/ i \in 1 .. Len(inboxes[y]) /\ udp'[y][i] = inboxes[y][i]
      \/ udp'[y][i] = m
  <2>1. CASE udp'[y] = inboxes[y]
    BY <1>1, <2>1
  <2>2. CASE udp'[y] = Append(inboxes[y], m)
    BY <1>1, <1>2, <2>2
  <2> QED
    BY <1>3, <2>1, <2>2
<1> QED
  BY <1>4, <1>5, <1>6

\* Both kinds of socket the code broadcasts over.
LEMMA SocketsDrained ==
  ASSUME TypeOK
  PROVE  /\ Drained(udp)
         /\ \A s \in Servers : udp[s] # <<>> => Drained(Received(s))
<1>1. Drained(udp)
  BY DEF Drained, TypeOK
<1>2. ASSUME NEW s \in Servers, udp[s] # <<>>
      PROVE  Drained(Received(s))
  <2>1. Received(s) \in [Servers -> Seq(Datagram)]
    BY <1>2, ReceivedType
  <2> QED
    BY <1>2, <2>1 DEF Drained, Received, TypeOK
<1> QED
  BY <1>1, <1>2

\* Nobody becomes undecided or follows anybody new.
Steady(servers) ==
  \A x \in servers :
    /\ role'[x] = "WHO_AM_I" => role[x] = "WHO_AM_I"
    /\ \A y \in Servers : Follows(x, y)' => Follows(x, y)

\* A step of s in which it may offer itself, as a server that can lead.
Quiet(s) ==
  /\ Steady(Servers)
  /\ \A x, y \in Servers :
       Offered(x, y)' =>
         \/ Offered(x, y)
         \/ x = s /\ role'[s] \notin {"WHO_AM_I", "BACKUP_WITH_PRIMARY"}

\* s starts or ends: it follows nobody and has nothing to read.
Renewed(s) ==
  /\ Steady(Servers \ {s})
  /\ \A y \in Servers : ~ Follows(s, y)' /\ ~ Offered(y, s)'
  /\ \A x, y \in Servers : Offered(x, y)' => Offered(x, y)

\* s becomes the backup of t, whose offer it has read.
Joined(s, t) ==
  /\ Steady(Servers \ {s})
  /\ t # s /\ role[s] = "WHO_AM_I" /\ Offered(t, s)
  /\ role'[s] = "BACKUP_WITH_PRIMARY"
  /\ \A y \in Servers : Follows(s, y)' => y = t
  /\ \A x, y \in Servers : Offered(x, y)' => Offered(x, y)

\* Only s has moved, and what it has written is its own.
Alone(s) ==
  \A x \in Servers \ {s} :
    /\ role'[x] = role[x] /\ mate'[x] = mate[x]
    /\ negPc'[x] = negPc[x] /\ negPeer'[x] = negPeer[x]

\* What s follows is where it was.
Still(s) ==
  /\ role'[s] = role[s] /\ mate'[s] = mate[s] /\ negPeer'[s] = negPeer[s]
  /\ negPc'[s] = "pair" <=> negPc[s] = "pair"

NoNewOffer == \A x, y \in Servers : Offered(x, y)' => Offered(x, y)

LEMMA AloneSteady ==
  ASSUME NEW s \in Servers, Alone(s)
  PROVE  /\ Steady(Servers \ {s})
         /\ Still(s) => Steady(Servers)
         /\ role'[s] \notin {"WHO_AM_I", "BACKUP_WITH_PRIMARY"} =>
              Steady(Servers)
BY DEF Alone, Still, Steady, Follows

\* Reading a socket offers nothing new, and neither does leaving it alone.
LEMMA ReadOffers ==
  ASSUME TypeOK, NEW s \in Servers,
         udp' = udp \/ (udp[s] # <<>> /\ udp' = Received(s))
  PROVE  NoNewOffer
<1> SUFFICES ASSUME NEW x \in Servers, NEW y \in Servers, Offered(x, y)'
             PROVE  Offered(x, y)
  BY DEF NoNewOffer
<1>1. Drained(udp')
  BY SocketsDrained
<1>2. PICK i \in 1 .. Len(udp'[y]) : udp'[y][i] = Offer(x)
  BY DEF Offered, Offer
<1> QED
  BY <1>1, <1>2, DrainedOffers

\* Every step is of one of the three kinds.
LEMMA StepKind ==
  ASSUME TypeOK, ThreadInv, Next
  PROVE  \E s \in Servers :
           Quiet(s) \/ Renewed(s) \/ \E t \in Servers : Joined(s, t)
<1> PICK s \in Servers :
      \/ Negotiate(s) \/ HeartbeatThread(s) \/ Main(s)
      \/ Start(s) \/ MainKey(s) \/ Crash(s)
  BY DEF Next
<1> USE DEF shared, negVars, hbVars, net, budget, SetRole, GoNeg, GoHb
<1>a. ASSUME Alone(s), NoNewOffer,
             Still(s) \/ role'[s] \notin {"WHO_AM_I", "BACKUP_WITH_PRIMARY"}
      PROVE  Quiet(s)
  BY <1>a, AloneSteady DEF Quiet, NoNewOffer
<1>b. ASSUME Alone(s), Still(s), NEW inboxes, Drained(inboxes),
             Announce(s, inboxes)
      PROVE  Quiet(s)
  BY <1>b, AloneSteady, BroadcastOffers DEF Quiet, Announce, Still, TypeOK
<1>c. ASSUME UNCHANGED <<role, mate, negPc, negPeer, udp>>
      PROVE  Quiet(s)
  BY <1>c DEF Quiet, Steady, Follows, Offered
<1>1. CASE NegStart(s)
  <2>1. Alone(s) /\ Still(s)
    BY <1>1 DEF NegStart, ThreadInv, Alone, Still, TypeOK
  <2> QED
    BY <1>1, <1>b, <2>1, SocketsDrained DEF NegStart
<1>2. CASE NegLeave(s)
  <2>1. Alone(s) /\ role'[s] = "ACTIVE_QUIT_ER" /\ udp' = udp
    BY <1>2 DEF NegLeave, Alone, TypeOK
  <2> QED
    BY <1>a, <2>1, ReadOffers
<1>3. CASE NegTop(s)
  <2>1. /\ Alone(s) /\ udp' = udp
        /\ Still(s) \/ role'[s] = "PRIMARY_WITHOUT_BACKUP"
    BY <1>3 DEF NegTop, Alone, Still, TypeOK
  <2> QED
    BY <1>a, <2>1, ReadOffers
<1>4. CASE NegTimeout(s)
  <2>1. Alone(s) /\ Still(s)
    BY <1>4 DEF NegTimeout, Alone, Still, TypeOK
  <2>2. CASE negRole[s] = "WHO_AM_I"
    BY <1>4, <1>b, <2>1, <2>2, SocketsDrained DEF NegTimeout
  <2>3. CASE negRole[s] # "WHO_AM_I"
    BY <1>4, <1>a, <2>1, <2>3, ReadOffers DEF NegTimeout
  <2> QED
    BY <2>2, <2>3
<1>5. CASE NegForeign(s)
  <2>1. Alone(s) /\ Still(s)
    BY <1>5 DEF NegForeign, Alone, Still, TypeOK
  <2> QED
    BY <1>5, <1>a, <2>1, ReadOffers DEF NegForeign
<1>6. CASE NegTieBreak(s)
  <2>1. /\ Alone(s)
        /\ Still(s) \/ role'[s] = "PRIMARY_WITHOUT_BACKUP"
    BY <1>6 DEF NegTieBreak, Hears, Alone, Still, TypeOK
  <2> QED
    BY <1>6, <1>a, <2>1, ReadOffers DEF NegTieBreak, Hears
<1>7. CASE NegAdopt(s)
  <2>1. Alone(s) /\ role'[s] = "PRIMARY_WITH_BACKUP"
    BY <1>7 DEF NegAdopt, Alone, TypeOK
  <2>2. Drained(Received(s)) /\ Broadcast(s, role[s], Received(s))
    BY <1>7, SocketsDrained DEF NegAdopt, Hears, Announce
  <2> QED
    BY <2>1, <2>2, AloneSteady, BroadcastOffers DEF Quiet, TypeOK
<1>8. CASE NegTurnAway(s)
  <2>1. Alone(s) /\ Still(s)
    BY <1>8 DEF NegTurnAway, Hears, Alone, Still, TypeOK
  <2>2. udp[s] # <<>> /\ Announce(s, Received(s))
    BY <1>8 DEF NegTurnAway, Hears
  <2>3. Drained(Received(s))
    BY <2>2, SocketsDrained
  <2> QED
    BY <1>b, <2>1, <2>2, <2>3
<1>9. CASE NegFollow(s)
  <2> DEFINE t == Head(udp[s]).from
  <2>1. /\ udp[s] # <<>> /\ t # s /\ udp' = Received(s)
        /\ Head(udp[s]).role = "PRIMARY_WITHOUT_BACKUP"
    BY <1>9 DEF NegFollow, Hears, Foreign
  <2>2. Head(udp[s]) \in Datagram /\ Head(udp[s]) = udp[s][1]
        /\ 1 \in 1 .. Len(udp[s])
    BY <2>1, ReceivedType DEF TypeOK
  <2>3. t \in Servers /\ Offered(t, s)
    BY <2>1, <2>2 DEF Offered, Datagram
  <2>4. role[s] = "WHO_AM_I" /\ Alone(s)
    BY <1>9 DEF NegFollow, Hears, ThreadInv, Alone, TypeOK
  <2>5. /\ role'[s] = "BACKUP_WITH_PRIMARY"
        /\ negPc'[s] = "pair" /\ negPeer'[s] = t
    BY <1>9 DEF NegFollow, TypeOK
  <2>6. Joined(s, t)
    BY <2>1, <2>3, <2>4, <2>5, AloneSteady, ReadOffers
       DEF Joined, Follows, NoNewOffer
  <2> QED
    BY <2>3, <2>6
<1>10. CASE NegWidow(s)
  <2>1. Alone(s) /\ role'[s] = "PRIMARY_WITHOUT_BACKUP"
    BY <1>10 DEF NegWidow, Alone, TypeOK
  <2> QED
    BY <1>10, <1>a, <2>1, ReadOffers DEF NegWidow, Hears
<1>11. CASE NegInactiveQuit(s)
  <2>1. Alone(s) /\ Still(s)
    BY <1>11 DEF NegInactiveQuit, Hears, Alone, Still, TypeOK
  <2> QED
    BY <1>11, <1>a, <2>1, ReadOffers DEF NegInactiveQuit, Hears
<1>12. CASE NegIgnore(s)
  <2>1. Alone(s) /\ Still(s) /\ udp[s] # <<>>
    BY <1>12 DEF NegIgnore, Hears, Alone, Still, TypeOK
  <2> QED
    BY <1>12, <1>a, <2>1, ReadOffers DEF NegIgnore
<1>13. CASE NegPair(s)
  <2>1. mate'[s] = negPeer[s] /\ negPc[s] = "pair" /\ negPc'[s] = "connect"
    BY <1>13 DEF NegPair, TypeOK
  <2>2. Alone(s) /\ UNCHANGED <<role, udp>>
    BY <1>13 DEF NegPair, Alone, TypeOK
  <2>3. Steady(Servers)
    BY <2>1, <2>2, AloneSteady DEF Steady, Follows
  <2> QED
    BY <2>2, <2>3, ReadOffers DEF Quiet, NoNewOffer
<1>14. CASE NegConnect(s)
  <2>1. negPc[s] = "connect" /\ negPc'[s] = "top"
    BY <1>14 DEF NegConnect, TypeOK
  <2>2. Alone(s) /\ UNCHANGED <<role, mate, udp>>
    BY <1>14 DEF NegConnect, Alone, TypeOK
  <2>3. Steady(Servers)
    BY <2>1, <2>2, AloneSteady DEF Steady, Follows
  <2> QED
    BY <2>2, <2>3, ReadOffers DEF Quiet, NoNewOffer
<1>15. CASE NegDrop(s)
  <2>1. role'[s] \notin Paired /\ UNCHANGED <<role, udp>> /\ Alone(s)
    BY <1>15 DEF NegDrop, ThreadInv, Alone, TypeOK
  <2>2. Steady(Servers)
    BY <2>1, AloneSteady DEF Steady, Follows, Paired
  <2> QED
    BY <2>1, <2>2, ReadOffers DEF Quiet, NoNewOffer
<1>16. CASE NegBye(s)
  <2>1. Alone(s) /\ Still(s)
    BY <1>16 DEF NegBye, Alone, Still, TypeOK
  <2> QED
    BY <1>16, <1>b, <2>1, SocketsDrained DEF NegBye
<1>17. CASE \/ HbTop(s) \/ HbIdle(s) \/ HbSend(s) \/ HbReceive(s) \/ HbSayQuit(s)
            \/ MainKey(s) \/ MainReport(s)
  BY <1>17, <1>c DEF HbTop, HbIdle, HbSend, HbReceive, HbSayQuit, MainKey,
       MainReport, BeginUninit
<1>18. CASE HbTimeout(s)
  <2>1. /\ Alone(s) /\ udp' = udp
        /\ Still(s) \/ role'[s] = "PRIMARY_WITHOUT_BACKUP"
    BY <1>18 DEF HbTimeout, Alone, Still, TypeOK
  <2> QED
    BY <1>a, <2>1, ReadOffers
<1>19. CASE Start(s) \/ EndUninit(s) \/ Crash(s)
  <2>1. PICK status, neg, hb : Fresh(s, status, neg, hb)
    BY <1>19 DEF Start, EndUninit, Crash
  <2>2. Alone(s) /\ role'[s] = "WHO_AM_I"
    BY <2>1 DEF Fresh, Alone, TypeOK
  <2>3. udp' = [udp EXCEPT ![s] = <<>>]
    BY <2>1 DEF Fresh
  <2>4. \A x, y \in Servers : Offered(x, y)' => Offered(x, y) /\ y # s
    BY <2>3 DEF Offered, TypeOK
  <2> QED
    BY <2>2, <2>4, AloneSteady DEF Renewed, Follows
<1> QED
  BY <1>1, <1>2, <1>3, <1>4, <1>5, <1>6, <1>7, <1>8, <1>9, <1>10, <1>11,
     <1>12, <1>13, <1>14, <1>15, <1>16, <1>17, <1>18, <1>19
     DEF Negotiate, NegProceed, NegReceive, HeartbeatThread, Main

-----------------------------------------------------------------------------
(* The inductive invariant.                                                *)

\* An offer never meets a follower, and two offers never cross between
\* undecided servers, whatever the next step is.
LEMMA OfferNext ==
  ASSUME TypeOK, ThreadInv, OfferInv, Next
  PROVE  OfferInv'
<1>1. PICK s \in Servers :
        Quiet(s) \/ Renewed(s) \/ \E t \in Servers : Joined(s, t)
  BY StepKind
<1>2. CASE Quiet(s)
  BY <1>2 DEF Quiet, Steady, OfferInv, Follows
<1>3. CASE Renewed(s)
  BY <1>3 DEF Renewed, Steady, OfferInv
<1>4. CASE \E t \in Servers : Joined(s, t)
  BY <1>4 DEF Joined, Steady, OfferInv
<1> QED
  BY <1>1, <1>2, <1>3, <1>4

\* A server that joins has read an offer, and OfferInv says that the one that
\* made it does not follow it.
LEMMA MutualNext ==
  ASSUME TypeOK, ThreadInv, OfferInv, NeverMutualBackups, Next
  PROVE  NeverMutualBackups'
<1>1. PICK s \in Servers :
        Quiet(s) \/ Renewed(s) \/ \E t \in Servers : Joined(s, t)
  BY StepKind
<1>2. CASE Quiet(s)
  BY <1>2 DEF Quiet, Steady, NeverMutualBackups
<1>3. CASE Renewed(s)
  BY <1>3 DEF Renewed, Steady, NeverMutualBackups
<1>4. CASE \E t \in Servers : Joined(s, t)
  BY <1>4 DEF Joined, Steady, OfferInv, NeverMutualBackups
<1> QED
  BY <1>1, <1>2, <1>3, <1>4

\* A mate's address is stored before the thread goes on, and wiped only from a
\* server that has lost the role.
LEMMA MateNext ==
  ASSUME TypeOK, ThreadInv, PairedKnowsMate, Next
  PROVE  PairedKnowsMate'
<1> PICK s \in Servers :
      \/ Negotiate(s) \/ HeartbeatThread(s) \/ Main(s)
      \/ Start(s) \/ MainKey(s) \/ Crash(s)
  BY DEF Next
<1> USE DEF shared, negVars, hbVars, net, budget, SetRole, GoNeg, GoHb, Paired
<1>1. CASE NegStart(s) \/ NegLeave(s) \/ NegTop(s) \/ NegTieBreak(s) \/ NegWidow(s)
  <2>1. role'[s] \notin Paired \/ (role'[s] = role[s] /\ negPc[s] # "pair")
    BY <1>1 DEF NegStart, NegLeave, NegTop, NegTieBreak, NegWidow, Hears, TypeOK
  <2>2. UNCHANGED mate
    BY <1>1 DEF NegStart, NegLeave, NegTop, NegTieBreak, NegWidow
  <2>3. \A x \in Servers \ {s} : role'[x] = role[x] /\ negPc'[x] = negPc[x]
    BY <1>1 DEF NegStart, NegLeave, NegTop, NegTieBreak, NegWidow, TypeOK
  <2> QED
    BY <2>1, <2>2, <2>3 DEF PairedKnowsMate
<1>2. CASE \/ NegTimeout(s) \/ NegForeign(s) \/ NegTurnAway(s)
           \/ NegInactiveQuit(s) \/ NegIgnore(s) \/ NegConnect(s) \/ NegBye(s)
  <2>1. UNCHANGED <<role, mate>> /\ negPc[s] # "pair"
    BY <1>2 DEF NegTimeout, NegForeign, NegTurnAway, NegInactiveQuit, NegIgnore,
         NegConnect, NegBye, Hears
  <2>2. \A x \in Servers \ {s} : negPc'[x] = negPc[x]
    BY <1>2 DEF NegTimeout, NegForeign, NegTurnAway, NegInactiveQuit, NegIgnore,
         NegConnect, NegBye, TypeOK
  <2> QED
    BY <2>1, <2>2 DEF PairedKnowsMate
<1>3. CASE NegAdopt(s) \/ NegFollow(s)
  <2>1. negPc'[s] = "pair" /\ UNCHANGED mate
    BY <1>3 DEF NegAdopt, NegFollow, TypeOK
  <2>2. \A x \in Servers \ {s} : role'[x] = role[x] /\ negPc'[x] = negPc[x]
    BY <1>3 DEF NegAdopt, NegFollow, TypeOK
  <2> QED
    BY <2>1, <2>2 DEF PairedKnowsMate
<1>4. CASE NegPair(s)
  <2>1. /\ mate'[s] \in Servers \ {s}
        /\ ServerId[mate'[s]] = ServerId[s]
    BY <1>4 DEF NegPair, ThreadInv, TypeOK
  <2>2. \A x \in Servers \ {s} : mate'[x] = mate[x] /\ negPc'[x] = negPc[x]
    BY <1>4 DEF NegPair, TypeOK
  <2>3. UNCHANGED role
    BY <1>4 DEF NegPair
  <2> QED
    BY <2>1, <2>2, <2>3 DEF PairedKnowsMate
<1>5. CASE NegDrop(s)
  <2>1. role'[s] \notin Paired /\ UNCHANGED role
    BY <1>5 DEF NegDrop, ThreadInv
  <2>2. \A x \in Servers \ {s} : mate'[x] = mate[x] /\ negPc'[x] = negPc[x]
    BY <1>5 DEF NegDrop, TypeOK
  <2> QED
    BY <2>1, <2>2 DEF PairedKnowsMate
<1>6. CASE HbTimeout(s)
  <2>1. role'[s] \notin Paired \/ role'[s] = role[s]
    BY <1>6 DEF HbTimeout, TypeOK
  <2>2. UNCHANGED <<mate, negPc>>
    BY <1>6 DEF HbTimeout
  <2>3. \A x \in Servers \ {s} : role'[x] = role[x]
    BY <1>6 DEF HbTimeout, TypeOK
  <2> QED
    BY <2>1, <2>2, <2>3 DEF PairedKnowsMate
<1>7. CASE \/ HbTop(s) \/ HbIdle(s) \/ HbSend(s) \/ HbReceive(s) \/ HbSayQuit(s)
           \/ MainKey(s) \/ MainReport(s)
  BY <1>7 DEF HbTop, HbIdle, HbSend, HbReceive, HbSayQuit, MainKey, MainReport,
       BeginUninit, PairedKnowsMate
<1>8. CASE Start(s) \/ EndUninit(s) \/ Crash(s)
  <2>1. PICK status, neg, hb : Fresh(s, status, neg, hb)
    BY <1>8 DEF Start, EndUninit, Crash
  <2>2. role'[s] = "WHO_AM_I"
    BY <2>1 DEF Fresh, TypeOK
  <2>3. \A x \in Servers \ {s} :
          role'[x] = role[x] /\ mate'[x] = mate[x] /\ negPc'[x] = negPc[x]
    BY <2>1 DEF Fresh, TypeOK
  <2> QED
    BY <2>2, <2>3 DEF PairedKnowsMate
<1> QED
  BY <1>1, <1>2, <1>3, <1>4, <1>5, <1>6, <1>7, <1>8
     DEF Negotiate, NegProceed, NegReceive, HeartbeatThread, Main

\* TypeOK and the ties of ThreadInv; what is in flight (OfferInv); and the two
\* properties themselves.
IInv == TypeOK /\ ThreadInv /\ OfferInv /\ PairedKnowsMate /\ NeverMutualBackups

LEMMA InitInv == ASSUME Init PROVE IInv
<1>1. TypeOK
  BY BoundAssumption DEF Init, TypeOK, Role
<1>2. ThreadInv
  BY DEF Init, ThreadInv
<1>3. OfferInv
  BY DEF Init, OfferInv, Offered
<1>4. PairedKnowsMate /\ NeverMutualBackups
  BY DEF Init, PairedKnowsMate, NeverMutualBackups, Follows, Paired
<1> QED
  BY <1>1, <1>2, <1>3, <1>4 DEF IInv

LEMMA NextInv == ASSUME IInv, [Next]_vars PROVE IInv'
<1>1. CASE Next
  BY <1>1, TypeNext, ThreadNext, OfferNext, MateNext, MutualNext DEF IInv
<1>2. CASE UNCHANGED vars
  <2> USE <1>2 DEF vars, shared, negVars, hbVars, net, budget
  <2>1. TypeOK' /\ ThreadInv'
    BY DEF IInv, TypeOK, ThreadInv
  <2>2. OfferInv' /\ NeverMutualBackups'
    BY DEF IInv, OfferInv, Offered, NeverMutualBackups, Follows
  <2>3. PairedKnowsMate'
    BY DEF IInv, PairedKnowsMate
  <2> QED
    BY <2>1, <2>2, <2>3 DEF IInv
<1> QED
  BY <1>1, <1>2

LEMMA Inductive == Spec => []IInv
<1>1. Init => IInv
  BY InitInv
<1>2. IInv /\ [Next]_vars => IInv'
  BY NextInv
<1> QED
  BY <1>1, <1>2, PTL DEF Spec

\* The types hold in every state: among them that neither thread's counter
\* passes the value at which the code acts on it.
THEOREM TypeCorrect == Spec => []TypeOK
<1>1. IInv => TypeOK
  BY DEF IInv
<1> QED
  BY <1>1, Inductive, PTL

\* negotiate never makes two servers each other's backup, whatever broadcasts
\* are lost or late and whichever processes die or come back.
THEOREM SomebodyLeads == Spec => []NeverMutualBackups
<1>1. IInv => NeverMutualBackups
  BY DEF IInv
<1> QED
  BY <1>1, Inductive, PTL

\* A role that says there is a mate comes with the mate's address, for
\* heartbeat to compare senders with, except while negotiate writes the two.
THEOREM MateKnown == Spec => []PairedKnowsMate
<1>1. IInv => PairedKnowsMate
  BY DEF IInv
<1> QED
  BY <1>1, Inductive, PTL

\* What every step does to the role of the server that takes it.
LEMMA NextRole ==
  ASSUME TypeOK, ThreadInv, Next
  PROVE  RoleStep
<1> PICK s \in Servers :
      \/ Negotiate(s) \/ HeartbeatThread(s) \/ Main(s)
      \/ Start(s) \/ MainKey(s) \/ Crash(s)
  BY DEF Next
<1> USE DEF shared, negVars, hbVars, net, budget, SetRole, GoNeg, GoHb
<1>1. ASSUME \A x \in Servers \ {s} : role'[x] = role[x],
             \/ role'[s] \in {role[s], "ACTIVE_QUIT_ER", "PRIMARY_WITHOUT_BACKUP"}
             \/ /\ role'[s] = "PRIMARY_WITH_BACKUP"
                /\ role[s] = "PRIMARY_WITHOUT_BACKUP"
             \/ role'[s] = "BACKUP_WITH_PRIMARY" /\ role[s] = "WHO_AM_I"
      PROVE  RoleStep
  BY <1>1 DEF RoleStep
<1>2. CASE NegStart(s)
  BY <1>1, <1>2 DEF NegStart, ThreadInv, TypeOK
<1>3. CASE NegLeave(s) \/ NegTop(s) \/ NegTieBreak(s) \/ NegWidow(s) \/ HbTimeout(s)
  BY <1>1, <1>3 DEF NegLeave, NegTop, NegTieBreak, NegWidow, HbTimeout, TypeOK
<1>4. CASE NegAdopt(s)
  <2>1. role[s] = "PRIMARY_WITHOUT_BACKUP"
    BY <1>4 DEF NegAdopt, Hears, ThreadInv
  <2> QED
    BY <1>1, <1>4, <2>1 DEF NegAdopt, TypeOK
<1>5. CASE NegFollow(s)
  <2>1. role[s] = "WHO_AM_I"
    BY <1>5 DEF NegFollow, Hears, ThreadInv
  <2> QED
    BY <1>1, <1>5, <2>1 DEF NegFollow, TypeOK
<1>6. CASE Start(s) \/ EndUninit(s) \/ Crash(s)
  <2>1. PICK status, neg, hb : Fresh(s, status, neg, hb)
    BY <1>6 DEF Start, EndUninit, Crash
  <2>2. \A x \in Servers \ {s} : role'[x] = role[x]
    BY <2>1 DEF Fresh, TypeOK
  <2>3. ~ (Up(s) /\ Up(s)')
    BY <1>6 DEF Start, EndUninit, Crash, Fresh, Up, TypeOK
  <2> QED
    BY <2>2, <2>3 DEF RoleStep
<1>7. CASE UNCHANGED role
  BY <1>7 DEF RoleStep
<1> QED
  BY <1>2, <1>3, <1>4, <1>5, <1>6, <1>7
     DEF Negotiate, NegProceed, NegReceive, HeartbeatThread, Main, NegTimeout,
         NegForeign, NegTurnAway, NegInactiveQuit, NegIgnore, NegPair,
         NegConnect, NegDrop, NegBye, HbTop, HbIdle, HbSend, HbReceive,
         HbSayQuit, MainKey, MainReport, BeginUninit

\* negotiate's stale copy of the role and heartbeat's writes in between never
\* make a server a backup, a primary with a backup, or undecided, except from
\* the role from which the code means to.
THEOREM RoleOrder == Spec => RoleSteps
<1>1. IInv /\ [Next]_vars => [RoleStep]_vars
  BY NextRole DEF IInv
<1> QED
  BY <1>1, Inductive, PTL DEF Spec, RoleSteps

=============================================================================
