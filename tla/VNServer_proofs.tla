-------------------------- MODULE VNServer_proofs --------------------------
(***************************************************************************)
(* Proofs about VNServer, for any number of slots and connections.  Its    *)
(* steps are steps of the queue, so that what VNQueue_proofs shows holds   *)
(* here too; the rest follows from the inductive invariant ServerInv: the  *)
(* free list is linked, and ThreadInv says which threads there can be.     *)
(***************************************************************************)
EXTENDS VNServer, VNQueue_proofs

\* What the code relies on without saying so: uninit has a handle of every
\* reader that runs, a reader that starts finds none before it, an open
\* socket has a reader or is about to, the listener is the first to end, and
\* no slot below MAXSENDCHAN is lost before it does.
ThreadInv ==
  /\ \A i \in Slot : reader[i] # "none" => handle[i]
  /\ lisPc = "spawn" => reader[lisSlot] = "none"
  /\ \A i \in Slot : sock[i] \in Conn => i \in Busy /\ reader[i] # "leave"
  /\ main \in {"disconnecting", "halted", "ended"} => lisPc = "ended"
  /\ lisPc # "ended" => Listed \union Busy = 0 .. MAXSENDCHAN - 1

ServerInv == ServerTypeOK /\ FreeListLinked /\ NoUseAfterDelete /\ ThreadInv

-----------------------------------------------------------------------------
(* The free list.                                                          *)

\* m_nHeaderFree is MAXRECVCHAN exactly when no slot is free.
LEMMA HeadOfChain ==
  ASSUME ServerTypeOK, Chain
  PROVE  /\ headFree \in Slot => idle # <<>> /\ headFree = idle[1] /\ headFree \in Listed
         /\ headFree = MAXRECVCHAN => Listed = {}
<1>1. idle # <<>> => 1 \in 1 .. Len(idle) /\ idle[1] \in Slot /\ idle[1] # MAXRECVCHAN
  <2>1. idle \in Seq(Slot) /\ (idle # <<>> => Len(idle) \in Nat /\ Len(idle) >= 1)
    BY EmptySeq DEF ServerTypeOK
  <2> QED
    BY <2>1, ChannelsAssumption DEF Slot
<1>2. idle = <<>> => Listed = {}
  BY DEF Listed
<1>3. MAXRECVCHAN \notin Slot
  BY ChannelsAssumption DEF Slot
<1> QED
  BY <1>1, <1>2, <1>3 DEF Chain, Listed

\* ReduceAFreeChannel takes the slot at the head and leaves a list.
LEMMA ChainTake ==
  ASSUME ServerTypeOK, Chain, NEW i \in Slot, TakeSlot(i)
  PROVE  /\ Chain' /\ idle' \in Seq(Slot)
         /\ headFree' \in 0 .. MAXRECVCHAN /\ tailFree' \in 0 .. MAXRECVCHAN
         /\ i \in Listed /\ Listed' = Listed \ {i}
<1> DEFINE k == Len(idle)
<1>1. /\ idle \in Seq(Slot) /\ idle # <<>> /\ k \in Nat /\ k >= 1
      /\ headFree = idle[1] /\ i = idle[1] /\ i \in Listed
  BY HeadOfChain, EmptySeq DEF TakeSlot, ServerTypeOK
<1>2. /\ tailFree = idle[k]
      /\ \A j \in 1 .. k - 1 : nextFree[idle[j]] = idle[j + 1]
      /\ \A a, b \in 1 .. k : idle[a] = idle[b] => a = b
      /\ \A j \in 1 .. k : idle[j] \in Slot
  BY <1>1, ElementOfSeq DEF Chain
<1>3. /\ idle' = Tail(idle) /\ idle' \in Seq(Slot) /\ Len(idle') = k - 1
      /\ \A j \in 1 .. k - 1 : idle'[j] = idle[j + 1]
      /\ nextFree' = nextFree
  BY <1>1, HeadTailProperties DEF TakeSlot
<1>4. idle' = <<>> <=> k = 1
  <2>1. idle' = <<>> <=> Len(idle') = 0
    BY <1>3, EmptySeq
  <2> QED
    BY <2>1, <1>1, <1>3
<1> HIDE DEF k
<1>5. headFree = tailFree <=> k = 1
  <2>1. 1 \in 1 .. k /\ k \in 1 .. k
    BY <1>1
  <2> QED
    BY <2>1, <1>1, <1>2
<1>6. /\ headFree' = IF idle' = <<>> THEN MAXRECVCHAN ELSE idle'[1]
      /\ tailFree' = IF idle' = <<>> THEN MAXRECVCHAN ELSE idle'[k - 1]
      /\ headFree' \in 0 .. MAXRECVCHAN /\ tailFree' \in 0 .. MAXRECVCHAN
  <2>1. CASE k = 1
    BY <2>1, <1>4, <1>5, ChannelsAssumption DEF TakeSlot
  <2>2. CASE k # 1
    <3>1. 1 \in 1 .. k - 1 /\ k - 1 \in 1 .. k - 1 /\ 1 + 1 \in 1 .. k /\ (k - 1) + 1 = k
      BY <2>2, <1>1
    <3>2. headFree' = nextFree[i] /\ tailFree' = tailFree
      BY <2>2, <1>5 DEF TakeSlot
    <3>3. nextFree[idle[1]] = idle[1 + 1] /\ idle'[1] = idle[1 + 1] /\ idle'[k - 1] = idle[k]
      BY <3>1, <1>2, <1>3
    <3>4. idle[1 + 1] \in 0 .. MAXRECVCHAN /\ tailFree \in 0 .. MAXRECVCHAN
      BY <3>1, <1>2, ChannelsAssumption DEF Slot, ServerTypeOK
    <3> QED
      BY <2>2, <3>2, <3>3, <3>4, <1>1, <1>2, <1>4
  <2> QED
    BY <2>1, <2>2
<1>7. ASSUME NEW j \in 1 .. (k - 1) - 1
      PROVE  nextFree'[idle'[j]] = idle'[j + 1]
  <2>1. j \in 1 .. k - 1 /\ j + 1 \in 1 .. k - 1
    BY <1>1
  <2>2. nextFree[idle[j + 1]] = idle[(j + 1) + 1]
    BY <2>1, <1>2
  <2> QED
    BY <2>1, <2>2, <1>3
<1>8. \A a, b \in 1 .. k - 1 : idle'[a] = idle'[b] => a = b
  <2> TAKE a, b \in 1 .. k - 1
  <2>1. a + 1 \in 1 .. k /\ b + 1 \in 1 .. k
    BY <1>1
  <2>2. idle[a + 1] = idle[b + 1] => a + 1 = b + 1
    BY <2>1, <1>2
  <2> QED
    BY <1>1, <1>3, <2>2
<1>9. Listed' = Listed \ {i}
  <2>1. Listed' = {idle'[j] : j \in 1 .. k - 1} /\ Listed = {idle[j] : j \in 1 .. k}
    BY <1>3 DEF Listed, k
  <2>2. ASSUME NEW x \in Listed' PROVE x \in Listed \ {i}
    <3>1. PICK j \in 1 .. k - 1 : x = idle'[j]
      BY <2>1
    <3>2. j + 1 \in 1 .. k /\ 1 \in 1 .. k /\ j + 1 # 1 /\ x = idle[j + 1]
      BY <3>1, <1>1, <1>3
    <3>3. idle[j + 1] # idle[1]
      BY <3>2, <1>2
    <3> QED
      BY <2>1, <3>2, <3>3, <1>1
  <2>3. ASSUME NEW x \in Listed, x # i PROVE x \in Listed'
    <3>1. PICK j \in 1 .. k : x = idle[j]
      BY <2>1
    <3>2. j # 1
      BY <3>1, <2>3, <1>1
    <3>3. j - 1 \in 1 .. k - 1 /\ (j - 1) + 1 = j
      BY <3>2, <1>1
    <3>4. x = idle'[j - 1]
      BY <3>1, <3>3, <1>3
    <3> QED
      BY <2>1, <3>3, <3>4
  <2> QED
    BY <2>2, <2>3
<1>10. Chain'
  BY <1>3, <1>6, <1>7, <1>8 DEF Chain
<1> QED
  BY <1>1, <1>3, <1>6, <1>9, <1>10

\* AddAFreeChannel appends a slot that is not in the list yet.
LEMMA ChainPut ==
  ASSUME ServerTypeOK, Chain, NEW i \in Slot, i \notin Listed, PutSlot(i)
  PROVE  /\ Chain' /\ idle' \in Seq(Slot)
         /\ headFree' \in 0 .. MAXRECVCHAN /\ tailFree' \in 0 .. MAXRECVCHAN
         /\ nextFree' \in [Slot -> 0 .. MAXRECVCHAN]
         /\ Listed' = Listed \union {i}
<1> DEFINE k == Len(idle)
<1>1. /\ idle \in Seq(Slot) /\ k \in Nat /\ Slot \subseteq 0 .. MAXRECVCHAN
      /\ MAXRECVCHAN \in 0 .. MAXRECVCHAN /\ MAXRECVCHAN \notin Slot
      /\ nextFree \in [Slot -> 0 .. MAXRECVCHAN]
      /\ headFree \in 0 .. MAXRECVCHAN
  BY ChannelsAssumption DEF ServerTypeOK, Slot
<1>2. /\ idle' = Append(idle, i) /\ idle' \in Seq(Slot) /\ Len(idle') = k + 1
      /\ \A j \in 1 .. k : idle'[j] = idle[j]
      /\ idle'[k + 1] = i /\ idle' # <<>>
  BY <1>1, AppendProperties DEF PutSlot
<1>3. \A j \in 1 .. k : idle[j] \in Slot /\ idle[j] # i
  BY <1>1, ElementOfSeq DEF Listed
<1>4. idle = <<>> <=> k = 0
  BY <1>1, EmptySeq
<1>5. headFree = MAXRECVCHAN <=> idle = <<>>
  <2>1. idle # <<>> => 1 \in 1 .. k
    BY <1>1, <1>4
  <2> QED
    BY <2>1, <1>1, <1>3 DEF Chain
<1>6. /\ headFree' = idle'[1] /\ tailFree' = idle'[k + 1]
      /\ headFree' \in 0 .. MAXRECVCHAN /\ tailFree' \in 0 .. MAXRECVCHAN
  <2>1. CASE idle = <<>>
    BY <2>1, <1>1, <1>2, <1>4, <1>5 DEF PutSlot
  <2>2. CASE idle # <<>>
    <3>1. 1 \in 1 .. k
      BY <2>2, <1>1, <1>4
    <3> QED
      BY <2>2, <3>1, <1>1, <1>2, <1>5 DEF PutSlot, Chain
  <2> QED
    BY <2>1, <2>2
<1>7. /\ nextFree' \in [Slot -> 0 .. MAXRECVCHAN]
      /\ \A s \in Slot : nextFree'[s] = IF s = i THEN MAXRECVCHAN
                                        ELSE IF s = tailFree THEN i ELSE nextFree[s]
  BY <1>1 DEF PutSlot
<1>8. ASSUME NEW j \in 1 .. k
      PROVE  nextFree'[idle'[j]] = idle'[j + 1]
  <2>1. /\ idle # <<>> /\ tailFree = idle[k] /\ k \in 1 .. k
        /\ idle'[j] = idle[j] /\ idle[j] \in Slot /\ idle[j] # i
    BY <1>1, <1>2, <1>3, <1>4 DEF Chain
  <2>2. CASE j = k
    BY <2>1, <2>2, <1>2, <1>7
  <2>3. CASE j # k
    <3>1. j \in 1 .. k - 1 /\ j + 1 \in 1 .. k
      BY <2>3, <1>1
    <3>2. idle[j] # idle[k] /\ nextFree[idle[j]] = idle[j + 1]
      BY <2>1, <2>3, <3>1 DEF Chain
    <3> QED
      BY <2>1, <3>1, <3>2, <1>2, <1>7
  <2> QED
    BY <2>2, <2>3
<1>9. \A a, b \in 1 .. k + 1 : idle'[a] = idle'[b] => a = b
  BY <1>1, <1>2, <1>3 DEF Chain
<1>10. Listed' = Listed \union {i}
  <2>1. 1 .. k + 1 = (1 .. k) \union {k + 1}
    BY <1>1
  <2>2. Listed' = {idle'[j] : j \in 1 .. k} \union {i}
    BY <1>2, <2>1 DEF Listed
  <2> QED
    BY <1>2, <2>2 DEF Listed
<1>11. Chain'
  <2>1. idle' # <<>> /\ Len(idle') = k + 1 /\ k \in Nat
    BY <1>1, <1>2
  <2>2. headFree' = idle'[1] /\ tailFree' = idle'[Len(idle')]
    BY <2>1, <1>6
  <2>3. \A j \in 1 .. Len(idle') - 1 : nextFree'[idle'[j]] = idle'[j + 1]
    BY <2>1, <1>8
  <2>4. \A a, b \in 1 .. Len(idle') : idle'[a] = idle'[b] => a = b
    BY <2>1, <1>9
  <2> QED
    BY <2>1, <2>2, <2>3, <2>4 DEF Chain
<1> QED
  BY <1>2, <1>6, <1>7, <1>10, <1>11

-----------------------------------------------------------------------------
(* Types.                                                                  *)

\* Every step of the server is a step of its queue, or leaves it alone.
LEMMA QueueOfServer ==
  ServerNext => QueueNext \/ UNCHANGED queueVars
<1> SUFFICES ASSUME ServerNext PROVE QueueNext \/ UNCHANGED queueVars
  OBVIOUS
<1>1. ASSUME NEW k \in Conn, PeerConnect(k) PROVE UNCHANGED queueVars
  BY <1>1 DEF PeerConnect
<1>2. ASSUME Listener PROVE UNCHANGED queueVars
  BY <1>2 DEF Listener, LisSelect, LisAcceptFails, LisSpawn, LisRefuse, LisAccept
<1>3. ASSUME NEW i \in Slot, Reader(i) PROVE QueueNext \/ UNCHANGED queueVars
  BY <1>3 DEF Reader, ReaderReceives, ReaderInserts, ReaderDrops, ReaderLoses,
              ReaderFails, ReaderLeaves, QueueNext
<1>4. ASSUME NEW c \in Consumers, Heartbeat(c) PROVE QueueNext
  BY <1>4 DEF Heartbeat, QueueNext
<1>5. ASSUME Uninit PROVE QueueNext \/ UNCHANGED queueVars
  BY <1>5 DEF Uninit, CloseListener, JoinListener, DisconnectNext, ClearSlots,
              FreeQueue, QueueNext
<1> QED
  BY <1>1, <1>2, <1>3, <1>4, <1>5 DEF ServerNext

\* The queue of the server is a queue: what VNQueue_proofs shows of it holds
\* with the readers as its senders (insertMsg, VNRecvMsg, VNFreeQueueGroup).
THEOREM ServerRunsQueue == ServerSpec => QueueSpec
<1>1. ServerInit => QueueInit
  BY DEF ServerInit
<1>2. [ServerNext]_serverVars => [QueueNext]_queueVars
  BY QueueOfServer DEF serverVars
<1> QED
  BY <1>1, <1>2, PTL DEF ServerSpec, QueueSpec

\* A set of slots is finite, and has no more than MAXRECVCHAN of them.
LEMMA SlotSets ==
  ASSUME NEW S \in SUBSET Slot
  PROVE  IsFiniteSet(S) /\ Cardinality(S) \in 0 .. MAXRECVCHAN
<1>1. IsFiniteSet(Slot) /\ Cardinality(Slot) = MAXRECVCHAN
  BY ChannelsAssumption, FS_Interval DEF Slot
<1> QED
  BY <1>1, FS_Subset, FS_CardinalityType, ChannelsAssumption

-----------------------------------------------------------------------------
(* The invariant: one lemma for each thread.                               *)

\* A slot changes hands only in these ways: it is used by the listener that
\* took it, then by its reader, until that gives it back.
LEMMA ListenerKeeps ==
  ASSUME ServerInv, TypeOK', Listener
  PROVE  ServerInv'
<1> USE DEF ServerInv
<1>1. CASE LisSelect
  <2>1. lisPc = "select" /\ Busy' = Busy /\ Listed' = Listed /\ UNCHANGED <<poolVars, sock, main>>
    BY <1>1 DEF LisSelect, Busy, Listed, poolVars
  <2>2. ServerTypeOK'
    BY <1>1 DEF LisSelect, ServerTypeOK, poolVars, netVars
  <2>3. FreeListLinked'
    BY <2>1 DEF FreeListLinked, Chain, poolVars
  <2>4. NoUseAfterDelete'
    BY <2>1 DEF NoUseAfterDelete
  <2>5. ThreadInv'
    BY <1>1, <2>1 DEF ThreadInv, LisSelect
  <2> QED
    BY <2>2, <2>3, <2>4, <2>5
<1>2. CASE LisAcceptFails
  <2>1. lisPc = "accept" /\ lisPc' = "select" /\ Busy' = Busy /\ Listed' = Listed
        /\ UNCHANGED <<poolVars, sock, main>>
    BY <1>2 DEF LisAcceptFails, Busy, Listed, poolVars
  <2>2. ServerTypeOK'
    BY <1>2 DEF LisAcceptFails, ServerTypeOK, poolVars, netVars
  <2>3. FreeListLinked'
    BY <2>1 DEF FreeListLinked, Chain, poolVars
  <2>4. NoUseAfterDelete'
    BY <2>1 DEF NoUseAfterDelete
  <2>5. ThreadInv'
    BY <1>2, <2>1 DEF ThreadInv, LisAcceptFails
  <2> QED
    BY <2>2, <2>3, <2>4, <2>5
<1>3. CASE LisSpawn
  <2>0. lisPc = "spawn" /\ lisPc' = "select" /\ lisSlot \in Slot /\ lisSlot' = lisSlot
        /\ reader \in [Slot -> {"none", "recv", "insert", "leave"}] /\ handle \in [Slot -> BOOLEAN]
        /\ reader' = [reader EXCEPT ![lisSlot] = "recv"]
        /\ handle' = [handle EXCEPT ![lisSlot] = TRUE]
        /\ UNCHANGED <<poolVars, sock, main>>
    BY <1>3 DEF LisSpawn, ServerTypeOK
  <2>1. Busy' = Busy /\ Listed' = Listed
    BY <2>0 DEF Busy, Listed, poolVars
  <2>2. ServerTypeOK'
    BY <1>3, <2>0 DEF LisSpawn, ServerTypeOK, poolVars, netVars
  <2>3. FreeListLinked'
    BY <2>0, <2>1 DEF FreeListLinked, Chain, poolVars
  <2>4. NoUseAfterDelete'
    BY <2>0, <2>1 DEF NoUseAfterDelete
  <2>5. ThreadInv'
    BY <2>0, <2>1 DEF ThreadInv
  <2> QED
    BY <2>2, <2>3, <2>4, <2>5
<1>4. ASSUME NEW k \in backlog, LisRefuse(k)
      PROVE  ServerInv'
  <2>1. lisPc = "accept" /\ lisPc' = "select" /\ Busy' = Busy /\ Listed' = Listed
        /\ UNCHANGED <<poolVars, sock, main>>
    BY <1>4 DEF LisRefuse, Busy, Listed, poolVars
  <2>2. ServerTypeOK'
    BY <1>4 DEF LisRefuse, ServerTypeOK, poolVars, netVars
  <2>3. FreeListLinked'
    BY <2>1 DEF FreeListLinked, Chain, poolVars
  <2>4. NoUseAfterDelete'
    BY <2>1 DEF NoUseAfterDelete
  <2>5. ThreadInv'
    BY <1>4, <2>1 DEF ThreadInv, LisRefuse
  <2> QED
    BY <2>2, <2>3, <2>4, <2>5
<1>5. ASSUME NEW k \in backlog, NEW i \in Slot, LisAccept(k, i)
      PROVE  ServerInv'
  <2>0. /\ lisPc = "accept" /\ lisPc' = "spawn" /\ lisSlot' = i /\ k \in Conn
        /\ sock \in [Slot -> Conn \union {"none", "closed"}]
        /\ (sock' = [sock EXCEPT ![i] = k] \/ sock' = [sock EXCEPT ![i] = "closed"])
        /\ TakeSlot(i) /\ recCnt' = recCnt + 1
        /\ UNCHANGED <<reader, handle, main>>
    BY <1>5 DEF LisAccept, TakeSlot, ServerTypeOK
  <2>1. Chain' /\ idle' \in Seq(Slot)
        /\ headFree' \in 0 .. MAXRECVCHAN /\ tailFree' \in 0 .. MAXRECVCHAN
        /\ i \in Listed /\ Listed' = Listed \ {i}
    BY <2>0, ChainTake DEF FreeListLinked
  <2>2. Busy' = Busy \union {i} /\ i \notin Busy /\ reader[i] = "none" /\ Busy \in SUBSET Slot
    BY <2>0, <2>1 DEF Busy, FreeListLinked
  <2>3. recCnt' = Cardinality(Busy')
    BY <2>0, <2>2, SlotSets, FS_AddElement DEF FreeListLinked
  <2>4. ServerTypeOK'
    <3>1. recCnt' \in 0 .. MAXRECVCHAN
      BY <2>2, <2>3, SlotSets
    <3> QED
      BY <1>5, <2>0, <2>1, <3>1 DEF LisAccept, TakeSlot, ServerTypeOK
  <2>5. FreeListLinked'
    BY <2>1, <2>2, <2>3 DEF FreeListLinked
  <2>6. NoUseAfterDelete'
    BY <2>0 DEF NoUseAfterDelete
  <2>7. ThreadInv'
    BY <2>0, <2>1, <2>2 DEF ThreadInv
  <2> QED
    BY <2>4, <2>5, <2>6, <2>7
<1> QED
  BY <1>1, <1>2, <1>3, <1>4, <1>5 DEF Listener

\* A reader leaves its socket closed before it gives the slot back.
LEMMA ReaderKeeps ==
  ASSUME ServerInv, TypeOK', NEW i \in Slot, Reader(i)
  PROVE  ServerInv'
<1> USE DEF ServerInv
<1>1. ASSUME ReaderReceives(i) \/ ReaderInserts(i) \/ ReaderDrops(i)
      PROVE  ServerInv'
  <2>0. /\ reader \in [Slot -> {"none", "recv", "insert", "leave"}]
        /\ \/ reader[i] = "recv" /\ reader' = [reader EXCEPT ![i] = "insert"]
           \/ reader[i] = "insert" /\ reader' = [reader EXCEPT ![i] = "recv"]
        /\ UNCHANGED <<poolVars, sock, handle, lisPc, lisSlot, main>>
    BY <1>1 DEF ReaderReceives, ReaderInserts, ReaderDrops, ServerTypeOK
  <2>1. Busy' = Busy /\ Listed' = Listed
    BY <2>0 DEF Busy, Listed, poolVars
  <2>2. ServerTypeOK'
    <3>1. received' \in 0 .. MaxMessages
      BY <1>1, ChannelsAssumption
      DEF ReaderReceives, ReaderInserts, ReaderDrops, ServerTypeOK, netVars
    <3> QED
      BY <1>1, <2>0, <3>1
      DEF ReaderReceives, ReaderInserts, ReaderDrops, ServerTypeOK, poolVars, netVars
  <2>3. FreeListLinked'
    BY <2>0, <2>1 DEF FreeListLinked, Chain, poolVars
  <2>4. NoUseAfterDelete'
    BY <2>0, <2>1 DEF NoUseAfterDelete
  <2>5. ThreadInv'
    <3>1. \A j \in Slot : /\ reader'[j] # "none" <=> reader[j] # "none"
                          /\ reader'[j] # "leave" <=> reader[j] # "leave"
      BY <2>0
    <3> QED
      BY <2>0, <2>1, <3>1 DEF ThreadInv, ServerTypeOK
  <2> QED
    BY <2>2, <2>3, <2>4, <2>5
<1>2. ASSUME ReaderLoses(i) \/ ReaderFails(i)
      PROVE  ServerInv'
  <2>0. /\ reader \in [Slot -> {"none", "recv", "insert", "leave"}]
        /\ sock \in [Slot -> Conn \union {"none", "closed"}]
        /\ reader[i] = "recv" /\ reader' = [reader EXCEPT ![i] = "leave"]
        /\ \/ sock' = [sock EXCEPT ![i] = "closed"]
           \/ sock[i] = "closed" /\ sock' = sock
        /\ UNCHANGED <<poolVars, handle, lisPc, lisSlot, main>>
    BY <1>2 DEF ReaderLoses, ReaderFails, ServerTypeOK
  <2>1. Busy' = Busy /\ Listed' = Listed
    BY <2>0 DEF Busy, Listed, poolVars
  <2>2. ServerTypeOK'
    BY <1>2, <2>0 DEF ReaderLoses, ReaderFails, ServerTypeOK, poolVars, netVars
  <2>3. FreeListLinked'
    BY <2>0, <2>1 DEF FreeListLinked, Chain, poolVars
  <2>4. NoUseAfterDelete'
    BY <2>0, <2>1 DEF NoUseAfterDelete
  <2>5. ThreadInv'
    <3>1. \A j \in Slot : sock'[j] \in Conn => j # i /\ sock[j] \in Conn
      BY <2>0, ChannelsAssumption
    <3>2. \A j \in Slot : j # i => reader'[j] = reader[j]
      BY <2>0
    <3> QED
      BY <2>0, <2>1, <3>1, <3>2 DEF ThreadInv, ServerTypeOK
  <2> QED
    BY <2>2, <2>3, <2>4, <2>5
<1>3. ASSUME ReaderLeaves(i)
      PROVE  ServerInv'
  <2>0. /\ reader \in [Slot -> {"none", "recv", "insert", "leave"}]
        /\ reader[i] = "leave" /\ reader' = [reader EXCEPT ![i] = "none"]
        /\ PutSlot(i) /\ recCnt' = recCnt - 1
        /\ UNCHANGED <<sock, handle, lisPc, lisSlot, main>>
    BY <1>3 DEF ReaderLeaves, PutSlot, ServerTypeOK
  <2>1. i \in Busy /\ i \notin Listed /\ Busy \in SUBSET Slot /\ Busy \ {i} \in SUBSET Slot
        /\ ~ (lisPc = "spawn" /\ lisSlot = i)
    BY <2>0 DEF Busy, FreeListLinked, ThreadInv
  <2>2. Busy' = Busy \ {i}
    BY <2>0, <2>1 DEF Busy
  <2>3. recCnt' = Cardinality(Busy')
    BY <2>0, <2>1, <2>2, SlotSets, FS_RemoveElement DEF FreeListLinked
  <2>4. /\ Chain' /\ idle' \in Seq(Slot)
        /\ headFree' \in 0 .. MAXRECVCHAN /\ tailFree' \in 0 .. MAXRECVCHAN
        /\ nextFree' \in [Slot -> 0 .. MAXRECVCHAN]
        /\ Listed' = Listed \union {i}
    BY <2>0, <2>1, ChainPut DEF FreeListLinked
  <2>5. ServerTypeOK'
    <3>1. recCnt' \in 0 .. MAXRECVCHAN
      BY <2>1, <2>2, <2>3, SlotSets
    <3> QED
      BY <1>3, <2>0, <2>4, <3>1 DEF ReaderLeaves, ServerTypeOK, netVars
  <2>6. FreeListLinked'
    BY <2>2, <2>3, <2>4 DEF FreeListLinked
  <2>7. NoUseAfterDelete'
    BY <2>0, <2>2 DEF NoUseAfterDelete
  <2>8. ThreadInv'
    BY <2>0, <2>1, <2>2, <2>4 DEF ThreadInv
  <2> QED
    BY <2>5, <2>6, <2>7, <2>8
<1> QED
  BY <1>1, <1>2, <1>3 DEF Reader

\* The list of the first n slots in their order, as InitialConnection and
\* ClearListenerHandle make it.
UpTo(n) == [i \in 1 .. n |-> i - 1]
EachToNext == [i \in Slot |-> i + 1]

OrderedTo(n, s, f) ==
  /\ s \in Seq(Slot) /\ s # <<>> /\ s[1] = 0 /\ s[Len(s)] = n - 1
  /\ \A j \in 1 .. Len(s) - 1 : f[s[j]] = s[j + 1]
  /\ \A j, k \in 1 .. Len(s) : s[j] = s[k] => j = k
  /\ {s[j] : j \in 1 .. Len(s)} = 0 .. n - 1
  /\ f \in [Slot -> 0 .. MAXRECVCHAN]

LEMMA InOrder ==
  ASSUME NEW n \in 1 .. MAXRECVCHAN
  PROVE  OrderedTo(n, UpTo(n), EachToNext)
<1> DEFINE s == UpTo(n)
           f == EachToNext
<1>1. n \in Nat /\ n >= 1 /\ n <= MAXRECVCHAN /\ MAXRECVCHAN \in Nat
  BY ChannelsAssumption
<1>2. s = [i \in 1 .. n |-> i - 1] /\ f = [i \in Slot |-> i + 1]
      /\ \A i \in 1 .. n : i - 1 \in Slot /\ s[i] = i - 1
  BY <1>1 DEF Slot, UpTo, EachToNext
<1> HIDE DEF s, f
<1>3. s \in Seq(Slot) /\ Len(s) = n /\ s # <<>>
  <2>1. s \in [1 .. n -> Slot]
    BY <1>2
  <2>2. s \in Seq(Slot) /\ Len(s) = n
    BY <1>1, <2>1
  <2> QED
    BY <1>1, <2>2, EmptySeq
<1>4. 1 \in 1 .. n /\ n \in 1 .. n
  BY <1>1
<1>5. \A j \in 1 .. n - 1 : f[s[j]] = s[j + 1]
  <2> TAKE j \in 1 .. n - 1
  <2>1. j \in 1 .. n /\ j + 1 \in 1 .. n
    BY <1>1
  <2> QED
    BY <2>1, <1>1, <1>2
<1>6. \A j, k \in 1 .. n : s[j] = s[k] => j = k
  BY <1>1, <1>2
<1>7. {s[j] : j \in 1 .. n} = 0 .. n - 1
  <2>1. \A x \in 0 .. n - 1 : x + 1 \in 1 .. n /\ s[x + 1] = x
    BY <1>1, <1>2
  <2>2. \A i \in 1 .. n : s[i] \in 0 .. n - 1
    BY <1>1, <1>2
  <2> QED
    BY <2>1, <2>2
<1>8. f \in [Slot -> 0 .. MAXRECVCHAN]
  BY <1>1, <1>2 DEF Slot
<1> QED
  BY <1>1, <1>2, <1>3, <1>4, <1>5, <1>6, <1>7, <1>8 DEF OrderedTo, s, f

\* uninit deletes the channels when nobody uses them, and ends with a list of
\* all the slots.
LEMMA UninitKeeps ==
  ASSUME ServerInv, TypeOK', Uninit
  PROVE  ServerInv'
<1> USE DEF ServerInv
<1>1. ASSUME CloseListener \/ JoinListener \/ DisconnectNext
      PROVE  ServerInv'
  <2>0. /\ sock \in [Slot -> Conn \union {"none", "closed"}]
        /\ visited \in 0 .. MAXRECVCHAN /\ visited' \in 0 .. MAXRECVCHAN
        /\ main \in {"running", "closed", "disconnecting"}
        /\ main' \in {"closed", "disconnecting"}
        /\ main' = "disconnecting" => lisPc = "ended"
        /\ \A j \in Slot : sock'[j] = sock[j] \/ sock'[j] = "closed"
        /\ sock' \in [Slot -> Conn \union {"none", "closed"}]
        /\ UNCHANGED <<poolVars, reader, handle, lisPc, lisSlot>>
    <3>1. ASSUME CloseListener \/ JoinListener
          PROVE  <2>0!2 /\ <2>0!3 /\ <2>0!4 /\ <2>0!5 /\ sock' = sock /\ <2>0!8
      BY <3>1 DEF CloseListener, JoinListener, ServerTypeOK
    <3>2. ASSUME DisconnectNext
          PROVE  <2>0!2 /\ <2>0!3 /\ <2>0!4 /\ <2>0!5 /\ <2>0!6 /\ <2>0!7 /\ <2>0!8
      BY <3>2, ChannelsAssumption DEF DisconnectNext, ServerTypeOK, ThreadInv, Slot
    <3> QED
      BY <1>1, <3>1, <3>2 DEF ServerTypeOK
  <2>1. Busy' = Busy /\ Listed' = Listed
    BY <2>0 DEF Busy, Listed, poolVars
  <2>2. ServerTypeOK'
    BY <1>1, <2>0
    DEF CloseListener, JoinListener, DisconnectNext, ServerTypeOK, poolVars, netVars
  <2>3. FreeListLinked'
    BY <2>0, <2>1 DEF FreeListLinked, Chain, poolVars
  <2>4. NoUseAfterDelete'
    BY <2>0 DEF NoUseAfterDelete
  <2>5. ThreadInv'
    BY <2>0, <2>1, ChannelsAssumption DEF ThreadInv
  <2> QED
    BY <2>2, <2>3, <2>4, <2>5
<1>2. CASE ClearSlots
  <2>0. lisPc = "ended" /\ lisPc' = lisPc /\ reader' = reader /\ main' = "halted"
        /\ \A i \in Slot : reader[i] = "none"
    BY <1>2 DEF ClearSlots, ThreadInv
  <2>1. Busy = {} /\ Busy' = {}
    BY <2>0 DEF Busy
  <2>2. MAXRECVCHAN \in 1 .. MAXRECVCHAN
    BY ChannelsAssumption
  <2>3. Chain' /\ Listed' = 0 .. MAXRECVCHAN - 1 /\ idle' \in Seq(Slot)
        /\ headFree' \in 0 .. MAXRECVCHAN /\ tailFree' \in 0 .. MAXRECVCHAN
        /\ nextFree' \in [Slot -> 0 .. MAXRECVCHAN]
    <3>1. /\ nextFree' = EachToNext /\ idle' = UpTo(MAXRECVCHAN)
          /\ headFree' = 0 /\ tailFree' = MAXRECVCHAN - 1
      BY <1>2 DEF ClearSlots, EachToNext, UpTo
    <3>2. OrderedTo(MAXRECVCHAN, idle', nextFree')
      BY <2>2, <3>1, InOrder
    <3> QED
      BY <2>2, <3>1, <3>2, ChannelsAssumption DEF OrderedTo, Chain, Listed
  <2>4. ServerTypeOK'
    BY <1>2, <2>3, ChannelsAssumption DEF ClearSlots, ServerTypeOK, netVars
  <2>5. FreeListLinked'
    BY <1>2, <2>1, <2>3, FS_EmptySet DEF ClearSlots, FreeListLinked
  <2>6. NoUseAfterDelete'
    BY <2>0, <2>1 DEF NoUseAfterDelete
  <2>7. ThreadInv'
    BY <1>2, <2>0, ChannelsAssumption DEF ClearSlots, ThreadInv
  <2> QED
    BY <2>4, <2>5, <2>6, <2>7
<1>3. CASE FreeQueue
  <2>1. Busy' = Busy /\ Listed' = Listed /\ main = "halted" /\ main' = "ended"
        /\ UNCHANGED <<poolVars, sock, reader, handle, lisPc, lisSlot>>
    BY <1>3 DEF FreeQueue, Busy, Listed, poolVars
  <2>2. ServerTypeOK'
    BY <1>3 DEF FreeQueue, ServerTypeOK, poolVars, netVars
  <2>3. FreeListLinked'
    BY <2>1 DEF FreeListLinked, Chain, poolVars
  <2>4. NoUseAfterDelete' /\ ThreadInv'
    BY <2>1 DEF NoUseAfterDelete, ThreadInv
  <2> QED
    BY <2>2, <2>3, <2>4
<1> QED
  BY <1>1, <1>2, <1>3 DEF Uninit

\* The server begins with its invariant, and a list that ends at the
\* MAXSENDCHAN-th slot.
LEMMA ServerBegins ==
  ASSUME ServerInit
  PROVE  ServerInv
<1>1. TypeOK
  BY QueueInitInv DEF ServerInit, QueueInv
<1>2. Busy = {}
  BY DEF ServerInit, Busy
<1>3. Chain /\ Listed = 0 .. MAXSENDCHAN - 1 /\ idle \in Seq(Slot)
      /\ headFree \in 0 .. MAXRECVCHAN /\ tailFree \in 0 .. MAXRECVCHAN
      /\ nextFree \in [Slot -> 0 .. MAXRECVCHAN]
  <2>1. /\ nextFree = EachToNext /\ idle = UpTo(MAXSENDCHAN)
        /\ headFree = 0 /\ tailFree = MAXSENDCHAN - 1
    BY DEF ServerInit, EachToNext, UpTo
  <2>2. OrderedTo(MAXSENDCHAN, idle, nextFree)
    BY <2>1, InOrder, ChannelsAssumption
  <2> QED
    BY <2>1, <2>2, ChannelsAssumption DEF OrderedTo, Chain, Listed
<1>4. ServerTypeOK
  BY <1>1, <1>3, ChannelsAssumption DEF ServerInit, ServerTypeOK, Slot
<1>5. FreeListLinked
  BY <1>2, <1>3, FS_EmptySet DEF ServerInit, FreeListLinked
<1>6. NoUseAfterDelete /\ ThreadInv
  BY <1>2, <1>3, ChannelsAssumption DEF ServerInit, NoUseAfterDelete, ThreadInv
<1> QED
  BY <1>4, <1>5, <1>6 DEF ServerInv

\* Nothing else changes what the invariant is about.
LEMMA OthersKeep ==
  ASSUME ServerInv, TypeOK',
         \/ \E k \in Conn : PeerConnect(k)
         \/ \E c \in Consumers : Heartbeat(c)
         \/ UNCHANGED serverVars
  PROVE  ServerInv'
<1>1. UNCHANGED <<poolVars, sock, threadVars, received>>
  BY DEF PeerConnect, Heartbeat, serverVars, netVars
<1>2. Busy' = Busy /\ Listed' = Listed
  BY <1>1 DEF Busy, Listed, poolVars, threadVars
<1>3. backlog' \in SUBSET Conn /\ attempts' \in SUBSET Conn /\ listening' \in BOOLEAN
  BY DEF PeerConnect, Heartbeat, serverVars, netVars, ServerInv, ServerTypeOK
<1>4. ServerTypeOK'
  BY <1>1, <1>3 DEF ServerInv, ServerTypeOK, poolVars, threadVars
<1>5. FreeListLinked'
  BY <1>1, <1>2 DEF ServerInv, FreeListLinked, Chain, poolVars
<1>6. NoUseAfterDelete' /\ ThreadInv'
  BY <1>1, <1>2 DEF ServerInv, NoUseAfterDelete, ThreadInv, threadVars
<1> QED
  BY <1>4, <1>5, <1>6 DEF ServerInv

\* ServerInv is an invariant of the server.
LEMMA ServerInductive == ServerSpec => []ServerInv
<1>1. ServerInv /\ TypeOK' /\ [ServerNext]_serverVars => ServerInv'
  BY ListenerKeeps, ReaderKeeps, UninitKeeps, OthersKeep DEF ServerNext
<1>2. ServerSpec => []TypeOK
  BY ServerRunsQueue, QueueTypeCorrect, PTL
<1> QED
  BY <1>1, <1>2, ServerBegins, PTL DEF ServerSpec

-----------------------------------------------------------------------------

\* Every variable of the server keeps its type; m_nRecCnt stays within the
\* slots there are (ReduceAFreeChannel, AddAFreeChannel).
THEOREM ServerTypeCorrect == ServerSpec => []ServerTypeOK
  BY ServerInductive, PTL DEF ServerInv

\* However the listener and the readers interleave, and although m_nTailFree
\* starts at MAXSENDCHAN, the free list is linked over idle slots only and
\* m_nRecCnt counts the others (ReduceAFreeChannel, AddAFreeChannel).
THEOREM FreeListStaysLinked == ServerSpec => []FreeListLinked
  BY ServerInductive, PTL DEF ServerInv

\* When uninit deletes the channels and the queue, the listener and all
\* readers have ended (ClearListenerHandle, VNFreeQueueGroup).
THEOREM NothingUsedAfterDelete == ServerSpec => []NoUseAfterDelete
  BY ServerInductive, PTL DEF ServerInv

\* An open socket is never overwritten by SetSocket (ReduceAFreeChannel).
THEOREM SlotsNotShared == ServerSpec => OneConnectionPerSlot
<1> DEFINE Kept == \A i \in Slot : sock[i] \in Conn /\ sock'[i] \in Conn => sock'[i] = sock[i]
<1>1. ASSUME ServerInv, [ServerNext]_serverVars
      PROVE  [Kept]_serverVars
  <2>1. ASSUME NEW k \in backlog, NEW i \in Slot, LisAccept(k, i)
        PROVE  Kept
    <3>1. sock[i] \notin Conn
      BY <1>1, <2>1, ChainTake DEF LisAccept, ServerInv, FreeListLinked, ThreadInv
    <3>2. \A j \in Slot : j # i => sock'[j] = sock[j]
      BY <1>1, <2>1 DEF LisAccept, ServerInv, ServerTypeOK
    <3> QED
      BY <3>1, <3>2
  <2>2. ASSUME Listener, sock' # sock PROVE Kept
    BY <2>1, <2>2 DEF Listener, LisSelect, LisAcceptFails, LisRefuse, LisSpawn
  <2>3. ASSUME sock' # sock, ~ Listener, ServerNext
        PROVE  \A j \in Slot : sock'[j] = sock[j] \/ sock'[j] \in {"none", "closed"}
    BY <1>1, <2>3, ChannelsAssumption
    DEF ServerNext, PeerConnect, Reader, ReaderReceives, ReaderInserts, ReaderDrops,
        ReaderLoses, ReaderFails, ReaderLeaves, Heartbeat, Uninit, CloseListener,
        JoinListener, DisconnectNext, ClearSlots, FreeQueue, ServerInv, ServerTypeOK
  <2> QED
    BY <1>1, <2>2, <2>3, ChannelsAssumption DEF serverVars
<1> QED
  BY <1>1, ServerInductive, PTL DEF ServerSpec, OneConnectionPerSlot

\* A peer is turned away only when MAXSENDCHAN connections are open: no slot
\* below that is ever lost (ReduceAFreeChannel).
THEOREM NoSlotLost == ServerSpec => RefusesOnlyWhenFull
<1> DEFINE Full == (\E k \in Conn : LisRefuse(k)) => Cardinality(Busy) = MAXSENDCHAN
<1>1. ASSUME ServerInv PROVE Full
  <2> SUFFICES ASSUME headFree = MAXRECVCHAN, lisPc = "accept"
               PROVE  Cardinality(Busy) = MAXSENDCHAN
    BY DEF LisRefuse
  <2>1. Busy = 0 .. MAXSENDCHAN - 1
    BY <1>1, HeadOfChain DEF ServerInv, FreeListLinked, ThreadInv
  <2> QED
    BY <2>1, FS_Interval, ChannelsAssumption
<1> QED
  BY <1>1, ServerInductive, PTL DEF ServerSpec, RefusesOnlyWhenFull

=============================================================================
