--------------------------- MODULE VNQueue_proofs ---------------------------
(***************************************************************************)
(* Proofs about VNQueue, for any number of consumers, any memory and any   *)
(* greatest count of the semaphore.  The inductive invariant is QueueInv:  *)
(* the pointers are those of the list, and permits are backed by messages. *)
(***************************************************************************)
EXTENDS VNQueue, FiniteSetTheorems, SequenceTheorems, TLAPS

QueueInv == TypeOK /\ Linked /\ PermitsBacked

-----------------------------------------------------------------------------

\* The list is never longer than the permits say, so a consumer that holds a
\* permit finds a node.
LEMMA TakerFindsNode ==
  ASSUME QueueInv, NEW c \in Consumers, pc[c] = "take"
  PROVE  list # <<>> /\ header = list[1] /\ header \in Node /\ tail \in Node
<1>1. IsFiniteSet(Takers) /\ Cardinality(Takers) \in Nat
  BY ConsumersAssumption, FS_Subset, FS_CardinalityType DEF Takers
<1>2. Cardinality(Takers) # 0
  BY <1>1, FS_EmptySet DEF Takers
<1>3. Len(list) \in Nat /\ Len(list) # 0
  BY <1>1, <1>2 DEF QueueInv, TypeOK, PermitsBacked, Owed
<1>4. list # <<>>
  BY <1>3
<1>5. list[1] \in Node /\ list[Len(list)] \in Node
  BY <1>3, ElementOfSeq DEF QueueInv, TypeOK
<1> QED
  BY <1>4, <1>5 DEF QueueInv, Linked

\* A step of the queue keeps every variable in its type.
LEMMA QueueTypeNext ==
  ASSUME QueueInv, QueueNext
  PROVE  TypeOK'
<1> USE DEF QueueInv, TypeOK
<1>1. ASSUME NEW n \in Node, NEW m \in Msg, Insert(n, m)
      PROVE  TypeOK'
  <2>1. permits' \in 0 .. SEM_MAX
    BY <1>1, SemaphoreAssumption DEF Insert, Release
  <2>2. next' \in [Node -> Node \union {NULL}]
    BY <1>1 DEF Insert
  <2>3. list' \in Seq(Node)
    BY <1>1, AppendProperties DEF Insert
  <2> QED
    BY <1>1, <2>1, <2>2, <2>3 DEF Insert
<1>2. ASSUME NEW c \in Consumers, Acquire(c)
      PROVE  TypeOK'
  <2>1. permits' \in 0 .. SEM_MAX
    BY <1>2, SemaphoreAssumption DEF Acquire
  <2> QED
    BY <1>2, <2>1 DEF Acquire
<1>3. ASSUME NEW c \in Consumers, TimeOut(c)
      PROVE  TypeOK'
  BY <1>3 DEF TimeOut
<1>4. ASSUME NEW c \in Consumers, Take(c)
      PROVE  TypeOK'
  <2>1. list # <<>> /\ header \in Node /\ tail \in Node
    BY <1>4, TakerFindsNode DEF Take
  <2>2. list' = Tail(list) /\ header' = next[header] /\ allocated' \in SUBSET Node
    BY <1>4, <2>1, NullAssumption DEF Take
  <2>3. Tail(list) \in Seq(Node)
    BY <2>1, HeadTailProperties
  <2>4. result' \in [Consumers -> Msg \union {"none", "RS_Timeout", "RS_Failed"}]
    BY <1>4, <2>1 DEF Take
  <2> QED
    BY <1>4, <2>1, <2>2, <2>3, <2>4 DEF Take
<1>5. ASSUME Reset
      PROVE  TypeOK'
  <2>1. permits' \in 0 .. SEM_MAX
    BY <1>5, SemaphoreAssumption DEF Reset
  <2>2. list' \in Seq(Node)
    BY <1>5 DEF Reset
  <2> QED
    BY <1>5, <2>1, <2>2 DEF Reset
<1> QED
  BY <1>1, <1>2, <1>3, <1>4, <1>5 DEF QueueNext, Receive

\* A new node goes behind the last one; m_Tail is read only if the list has
\* a node, and is then that node, however long it dangled before.
LEMMA LinkedInsert ==
  ASSUME QueueInv, NEW n \in Node, NEW m \in Msg, Insert(n, m)
  PROVE  Linked'
<1> DEFINE k == Len(list)
<1>1. /\ list \in Seq(Node) /\ k \in Nat
      /\ list' = Append(list, n) /\ Len(list') = k + 1
      /\ \A i \in 1 .. k : list'[i] = list[i]
      /\ list'[k + 1] = n /\ list' # <<>>
  BY AppendProperties DEF Insert, QueueInv, TypeOK
<1>2. \A i \in 1 .. k : list[i] \in allocated /\ list[i] # n /\ list[i] \in Node
  BY <1>1, ElementOfSeq DEF Insert, QueueInv, Linked
<1>3. header = NULL <=> list = <<>>
  <2>1. ASSUME list # <<>> PROVE list[1] \in Node
    BY <1>1, <1>2, <2>1
  <2> QED
    BY <2>1, NullAssumption DEF QueueInv, Linked
<1>4. list = <<>> <=> k = 0
  BY <1>1
<1>5. header' = list'[1]
  <2>1. CASE list = <<>>
    BY <2>1, <1>1, <1>3, <1>4 DEF Insert
  <2>2. CASE list # <<>>
    <3>1. 1 \in 1 .. k
      BY <2>2, <1>1, <1>4
    <3> QED
      BY <2>2, <3>1, <1>1, <1>3 DEF Insert, QueueInv, Linked
  <2> QED
    BY <2>1, <2>2
<1>6. tail' = list'[Len(list')]
  BY <1>1 DEF Insert
<1>7. ASSUME NEW i \in 1 .. k + 1
      PROVE  next'[list'[i]] = IF i = k + 1 THEN NULL ELSE list'[i + 1]
  <2>1. CASE i = k + 1
    <3>1. list # <<>> => tail # n
      BY <1>1, <1>2, <1>4 DEF QueueInv, Linked
    <3> QED
      BY <2>1, <3>1, <1>1, <1>3 DEF Insert, QueueInv, TypeOK
  <2>2. CASE i = k
    <3>1. list # <<>> /\ tail = list[k] /\ tail \in Node /\ list'[i] = tail /\ tail # n
      BY <2>2, <1>1, <1>2, <1>4 DEF QueueInv, Linked
    <3> QED
      BY <2>2, <3>1, <1>1, <1>3 DEF Insert, QueueInv, TypeOK
  <2>3. CASE i \in 1 .. k - 1
    <3>1. /\ list # <<>> /\ tail = list[k] /\ i # k /\ i \in 1 .. k /\ k \in 1 .. k
          /\ i + 1 \in 1 .. k
      BY <2>3, <1>1, <1>4 DEF QueueInv, Linked
    <3>2. list[i] # tail /\ list[i] # n /\ list[i] \in Node
      BY <3>1, <1>2 DEF QueueInv, Linked
    <3>3. next'[list[i]] = next[list[i]]
      BY <3>2, <1>3, <3>1 DEF Insert, QueueInv, TypeOK
    <3>4. next[list[i]] = list[i + 1]
      BY <3>1 DEF QueueInv, Linked
    <3> QED
      BY <3>1, <3>3, <3>4, <1>1, <2>3
  <2> QED
    BY <1>1, <2>1, <2>2, <2>3
<1>8. \A i, j \in 1 .. k + 1 : list'[i] = list'[j] => i = j
  BY <1>1, <1>2 DEF QueueInv, Linked
<1>9. allocated' = {list'[i] : i \in 1 .. k + 1}
  <2>1. allocated = {list[i] : i \in 1 .. k}
    BY DEF QueueInv, Linked
  <2>2. 1 .. k + 1 = (1 .. k) \union {k + 1}
    BY <1>1
  <2>3. {list'[i] : i \in 1 .. k + 1} = {list'[i] : i \in 1 .. k} \union {n}
    BY <1>1, <2>2
  <2>4. {list'[i] : i \in 1 .. k} = {list[i] : i \in 1 .. k}
    BY <1>1
  <2> QED
    BY <2>1, <2>3, <2>4 DEF Insert
<1> QED
  BY <1>1, <1>5, <1>6, <1>7, <1>8, <1>9 DEF Linked

\* The head goes, and the nodes behind it stay as they are.
LEMMA LinkedTake ==
  ASSUME QueueInv, NEW c \in Consumers, Take(c)
  PROVE  Linked'
<1>0. /\ list # <<>> /\ header = list[1] /\ header \in Node /\ tail \in Node
      /\ header # NULL /\ tail # NULL
  BY TakerFindsNode, NullAssumption DEF Take
<1> DEFINE k == Len(list)
<1>1. list \in Seq(Node) /\ k \in Nat /\ k >= 1
  BY <1>0, EmptySeq DEF QueueInv, TypeOK
<1>2. /\ next' = next /\ tail' = tail /\ header' = next[list[1]]
      /\ allocated' = allocated \ {list[1]} /\ list' = Tail(list)
  BY <1>0 DEF Take
<1>3. /\ Len(list') = k - 1 /\ list' \in Seq(Node)
      /\ \A i \in 1 .. k - 1 : list'[i] = list[i + 1]
  BY <1>0, <1>1, <1>2, HeadTailProperties
<1>4. /\ tail = list[k]
      /\ \A i \in 1 .. k : next[list[i]] = IF i = k THEN NULL ELSE list[i + 1]
      /\ \A i, j \in 1 .. k : list[i] = list[j] => i = j
      /\ allocated = {list[i] : i \in 1 .. k}
  BY <1>0 DEF QueueInv, Linked
<1>5. list' = <<>> <=> k = 1
  BY <1>1, <1>3, EmptySeq
<1> HIDE DEF k
<1>6. header' = IF list' = <<>> THEN NULL ELSE list'[1]
  <2>1. CASE k = 1
    BY <2>1, <1>1, <1>2, <1>4, <1>5
  <2>2. CASE k # 1
    <3>1. 1 \in 1 .. k /\ 1 \in 1 .. k - 1
      BY <2>2, <1>1
    <3>2. next[list[1]] = list[1 + 1] /\ list'[1] = list[1 + 1]
      BY <2>2, <3>1, <1>3, <1>4
    <3> QED
      BY <2>2, <3>2, <1>2, <1>5
  <2> QED
    BY <2>1, <2>2
<1>7. list' # <<>> => tail' = list'[Len(list')]
  <2>1. ASSUME k # 1 PROVE list'[k - 1] = list[k]
    <3>1. k - 1 \in 1 .. k - 1 /\ (k - 1) + 1 = k
      BY <2>1, <1>1
    <3> QED
      BY <3>1, <1>3
  <2> QED
    BY <2>1, <1>2, <1>3, <1>4, <1>5
<1>8. ASSUME NEW i \in 1 .. k - 1
      PROVE  next'[list'[i]] = IF i = k - 1 THEN NULL ELSE list'[i + 1]
  <2>1. i + 1 \in 1 .. k /\ list'[i] = list[i + 1] /\ (i + 1 = k <=> i = k - 1)
    BY <1>1, <1>3
  <2>2. next[list[i + 1]] = IF i + 1 = k THEN NULL ELSE list[(i + 1) + 1]
    BY <2>1, <1>4
  <2>3. i # k - 1 => list'[i + 1] = list[(i + 1) + 1]
    BY <1>1, <1>3
  <2> QED
    BY <2>1, <2>2, <2>3, <1>2
<1>9. \A i, j \in 1 .. k - 1 : list'[i] = list'[j] => i = j
  <2> TAKE i, j \in 1 .. k - 1
  <2>1. i + 1 \in 1 .. k /\ j + 1 \in 1 .. k
    BY <1>1
  <2>2. list[i + 1] = list[j + 1] => i + 1 = j + 1
    BY <2>1, <1>4
  <2> QED
    BY <1>1, <1>3, <2>2
<1>10. allocated' = {list'[i] : i \in 1 .. k - 1}
  <2>1. ASSUME NEW x \in allocated'
        PROVE  \E i \in 1 .. k - 1 : x = list'[i]
    <3>1. PICK j \in 1 .. k : x = list[j]
      BY <1>2, <1>4
    <3>2. j # 1
      BY <3>1, <1>2
    <3>3. j - 1 \in 1 .. k - 1 /\ (j - 1) + 1 = j
      BY <3>2, <1>1
    <3>4. x = list'[j - 1]
      BY <3>1, <3>3, <1>3
    <3> QED
      BY <3>3, <3>4
  <2>2. ASSUME NEW i \in 1 .. k - 1
        PROVE  list'[i] \in allocated'
    <3>1. i + 1 \in 1 .. k /\ 1 \in 1 .. k /\ i + 1 # 1 /\ list'[i] = list[i + 1]
      BY <1>1, <1>3
    <3>2. list[i + 1] \in allocated /\ list[i + 1] # list[1]
      BY <3>1, <1>4
    <3> QED
      BY <3>1, <3>2, <1>2
  <2> QED
    BY <2>1, <2>2
<1> QED
  BY <1>3, <1>6, <1>7, <1>8, <1>9, <1>10 DEF Linked

\* A step of the queue keeps the list linked.
LEMMA LinkedNext ==
  ASSUME QueueInv, QueueNext
  PROVE  Linked'
<1>1. ASSUME NEW c \in Consumers, Acquire(c) \/ TimeOut(c)
      PROVE  Linked'
  BY <1>1 DEF Acquire, TimeOut, QueueInv, Linked
<1>2. ASSUME Reset
      PROVE  Linked'
  BY <1>2 DEF Reset, Linked
<1> QED
  BY <1>1, <1>2, LinkedInsert, LinkedTake DEF QueueNext, Receive

\* Permits and consumers on their way never outnumber the messages: every step
\* takes as much from one side as from the other, or less.
LEMMA PermitsNext ==
  ASSUME QueueInv, QueueNext
  PROVE  PermitsBacked' /\ StrandsNothing
<1>1. /\ IsFiniteSet(Takers) /\ Cardinality(Takers) \in Nat
      /\ permits \in Nat /\ SEM_MAX \in Nat /\ Len(list) \in Nat /\ list \in Seq(Node)
      /\ permits + Cardinality(Takers) <= Len(list)
      /\ pc \in [Consumers -> {"idle", "take"}]
  BY ConsumersAssumption, SemaphoreAssumption, FS_Subset, FS_CardinalityType
  DEF Takers, QueueInv, TypeOK, PermitsBacked, Owed
<1>2. ASSUME NEW n \in Node, NEW m \in Msg, Insert(n, m)
      PROVE  PermitsBacked' /\ StrandsNothing
  <2>1. Takers' = Takers
    BY <1>2 DEF Insert, Takers
  <2>2. Len(list') = Len(list) + 1 /\ permits' <= permits + 1 /\ permits' \in Nat
      /\ (permits < SEM_MAX => permits' = permits + 1)
    BY <1>1, <1>2, AppendProperties DEF Insert, Release
  <2> QED
    BY <1>1, <2>1, <2>2 DEF PermitsBacked, StrandsNothing, Owed
<1>3. ASSUME NEW c \in Consumers, Acquire(c)
      PROVE  PermitsBacked' /\ StrandsNothing
  <2>1. Takers' = Takers \union {c} /\ c \notin Takers
    BY <1>1, <1>3 DEF Acquire, Takers
  <2>2. Cardinality(Takers') = Cardinality(Takers) + 1
    BY <1>1, <2>1, FS_AddElement
  <2>3. permits' = permits - 1 /\ list' = list
    BY <1>3 DEF Acquire
  <2> QED
    BY <1>1, <2>2, <2>3 DEF PermitsBacked, StrandsNothing, Owed
<1>4. ASSUME NEW c \in Consumers, TimeOut(c)
      PROVE  PermitsBacked' /\ StrandsNothing
  <2>1. Takers' = Takers /\ permits' = permits /\ list' = list
    BY <1>4 DEF TimeOut, Takers
  <2> QED
    BY <1>1, <2>1 DEF PermitsBacked, StrandsNothing, Owed
<1>5. ASSUME NEW c \in Consumers, Take(c)
      PROVE  PermitsBacked' /\ StrandsNothing
  <2>1. Takers' = Takers \ {c} /\ c \in Takers
    BY <1>1, <1>5 DEF Take, Takers
  <2>2. Cardinality(Takers') = Cardinality(Takers) - 1
    BY <1>1, <2>1, FS_RemoveElement
  <2>3. list # <<>> /\ header # NULL /\ tail # NULL
    BY <1>5, TakerFindsNode, NullAssumption DEF Take
  <2>4. Len(list') = Len(list) - 1 /\ permits' = permits
    BY <1>1, <1>5, <2>3, HeadTailProperties DEF Take
  <2> QED
    BY <1>1, <2>2, <2>4 DEF PermitsBacked, StrandsNothing, Owed
<1>6. ASSUME Reset
      PROVE  PermitsBacked' /\ StrandsNothing
  <2>1. Takers' = {}
    BY <1>6 DEF Reset, Takers
  <2>2. permits' = 0 /\ Len(list') = 0
    BY <1>6 DEF Reset
  <2> QED
    BY <1>1, <2>1, <2>2, FS_EmptySet DEF PermitsBacked, StrandsNothing, Owed
<1> QED
  BY <1>2, <1>3, <1>4, <1>5, <1>6 DEF QueueNext, Receive

\* The queue begins with its invariant.
LEMMA QueueInitInv == QueueInit => QueueInv
<1> SUFFICES ASSUME QueueInit PROVE QueueInv
  OBVIOUS
<1>1. TypeOK
  BY SemaphoreAssumption DEF QueueInit, TypeOK
<1>2. Linked
  BY DEF QueueInit, Linked
<1>3. Takers = {}
  BY DEF QueueInit, Takers
<1>4. PermitsBacked
  BY <1>3, FS_EmptySet DEF QueueInit, PermitsBacked, Owed
<1> QED
  BY <1>1, <1>2, <1>4 DEF QueueInv

\* QueueInv is an invariant of the queue.
LEMMA QueueInductive == QueueSpec => []QueueInv
<1>1. QueueInv /\ [QueueNext]_queueVars => QueueInv'
  <2>1. ASSUME QueueInv, QueueNext PROVE QueueInv'
    BY <2>1, QueueTypeNext, LinkedNext, PermitsNext DEF QueueInv
  <2>2. ASSUME QueueInv, UNCHANGED queueVars PROVE QueueInv'
    BY <2>2 DEF QueueInv, TypeOK, Linked, PermitsBacked, Owed, Takers, queueVars
  <2> QED
    BY <2>1, <2>2
<1> QED
  BY <1>1, QueueInitInv, PTL DEF QueueSpec

-----------------------------------------------------------------------------

\* Every variable of the queue keeps its type; m_Header and m_Tail are nodes
\* or NULL (insertNode, getNode, resetQueue).
THEOREM QueueTypeCorrect == QueueSpec => []TypeOK
  BY QueueInductive, PTL DEF QueueInv

\* m_Header leads to m_Tail through exactly the nodes that exist (insertNode
\* and getNode, and the m_Tail that getNode leaves dangling).
THEOREM ListLinked == QueueSpec => []Linked
  BY QueueInductive, PTL DEF QueueInv

\* No two consumers count on the same message, and none on a message that the
\* semaphore refused (WaitForQueueNotEmpty, then getMsg, in VNRecvMsg).
THEOREM PermitsAlwaysBacked == QueueSpec => []PermitsBacked
  BY QueueInductive, PTL DEF QueueInv

\* No message is left without a permit as long as the semaphore is not full
\* (insertNode, resetQueue).
THEOREM NobodyStrands == QueueSpec => NothingStranded
<1>1. QueueInv /\ [QueueNext]_queueVars => [StrandsNothing]_queueVars
  BY PermitsNext
<1> QED
  BY <1>1, QueueInductive, PTL DEF QueueSpec, NothingStranded

-----------------------------------------------------------------------------
(* The queue implements the FIFO of Fifo.                                  *)

\* What the mapped items are.
LEMMA ItemsType ==
  ASSUME QueueInv
  PROVE  /\ Items \in Seq(Msg) /\ Len(Items) = Len(list) /\ Len(list) \in Nat
         /\ \A i \in 1 .. Len(list) : Items[i] = msg[list[i]]
<1>1. Len(list) \in Nat /\ \A i \in 1 .. Len(list) : msg[list[i]] \in Msg
  BY ElementOfSeq DEF QueueInv, TypeOK
<1>2. Items \in [1 .. Len(list) -> Msg]
  BY <1>1 DEF Items
<1>3. Items \in Seq(Msg) /\ Len(Items) = Len(list)
  BY <1>1, <1>2
<1> QED
  BY <1>1, <1>3 DEF Items

\* insertNode puts the message behind the others.
LEMMA InsertPuts ==
  ASSUME QueueInv, QueueInv', NEW n \in Node, NEW m \in Msg, Insert(n, m)
  PROVE  F!Put(m)
<1> DEFINE k == Len(list)
<1>1. /\ list \in Seq(Node) /\ k \in Nat /\ Len(list') = k + 1
      /\ \A i \in 1 .. k : list'[i] = list[i]
      /\ list'[k + 1] = n
  BY AppendProperties DEF Insert, QueueInv, TypeOK
<1>2. \A i \in 1 .. k : list[i] # n /\ list[i] \in Node
  BY <1>1, ElementOfSeq DEF Insert, QueueInv, Linked
<1>3. /\ msg'[n] = m
      /\ \A x \in Node : x # n => msg'[x] = msg[x]
  BY DEF Insert, QueueInv, TypeOK
<1>4. /\ Append(Items, m) \in Seq(Msg) /\ Len(Append(Items, m)) = k + 1
      /\ \A i \in 1 .. k : Append(Items, m)[i] = msg[list[i]]
      /\ Append(Items, m)[k + 1] = m
  BY ItemsType, AppendProperties
<1>5. /\ Items' \in Seq(Msg) /\ Len(Items') = k + 1
      /\ \A i \in 1 .. k + 1 : Items'[i] = msg'[list'[i]]
  BY <1>1, ItemsType DEF Items, QueueInv, TypeOK, Linked, PermitsBacked, Takers
<1>6. \A i \in 1 .. k + 1 : Items'[i] = Append(Items, m)[i]
  <2> TAKE i \in 1 .. k + 1
  <2>1. CASE i = k + 1
    BY <2>1, <1>1, <1>3, <1>4, <1>5
  <2>2. CASE i \in 1 .. k
    BY <2>2, <1>1, <1>2, <1>3, <1>4, <1>5
  <2>3. k \in Nat
    BY <1>1
  <2>4. i = k + 1 \/ i \in 1 .. k
    BY <2>3
  <2> QED
    BY <2>1, <2>2, <2>4
<1>7. Items' = Append(Items, m)
  BY <1>4, <1>5, <1>6, SeqEqual
<1> QED
  BY <1>7 DEF Insert, F!Put

\* A receive that has waited gets the oldest message: RS_Failed is out of reach.
LEMMA TakeGets ==
  ASSUME QueueInv, QueueInv', NEW c \in Consumers, Take(c)
  PROVE  F!Get(c)
<1> DEFINE k == Len(list)
<1>1. /\ list # <<>> /\ header = list[1] /\ header # NULL /\ tail # NULL
      /\ list \in Seq(Node)
  BY TakerFindsNode, NullAssumption DEF Take, QueueInv, TypeOK
<1>2. /\ k \in Nat /\ k >= 1 /\ Len(list') = k - 1 /\ msg' = msg
      /\ \A i \in 1 .. k - 1 : list'[i] = list[i + 1]
  BY <1>1, EmptySeq, HeadTailProperties DEF Take
<1>3. /\ Items \in Seq(Msg) /\ Len(Items) = k
      /\ \A i \in 1 .. k : Items[i] = msg[list[i]]
  BY ItemsType
<1>4. Items # <<>> /\ Head(Items) = msg[list[1]]
  BY <1>2, <1>3
<1>5. /\ Tail(Items) \in Seq(Msg) /\ Len(Tail(Items)) = k - 1
      /\ \A i \in 1 .. k - 1 : Tail(Items)[i] = Items[i + 1]
  BY <1>3, <1>4, HeadTailProperties
<1>6. /\ Items' \in Seq(Msg) /\ Len(Items') = k - 1
      /\ \A i \in 1 .. k - 1 : Items'[i] = msg'[list'[i]]
  BY <1>2, ItemsType DEF Items, QueueInv, TypeOK, Linked, PermitsBacked, Takers
<1>7. \A i \in 1 .. k - 1 : Items'[i] = Tail(Items)[i]
  <2> TAKE i \in 1 .. k - 1
  <2>1. i + 1 \in 1 .. k
    BY <1>2
  <2> QED
    BY <2>1, <1>2, <1>3, <1>5, <1>6
<1>8. Items' = Tail(Items)
  BY <1>5, <1>6, <1>7, SeqEqual
<1>9. result' = [result EXCEPT ![c] = msg[header]]
  BY <1>1 DEF Take
<1> QED
  BY <1>1, <1>4, <1>8, <1>9 DEF F!Get

\* The steps that leave the list and its messages alone.
LEMMA ItemsSteady ==
  ASSUME list' = list, msg' = msg
  PROVE  Items' = Items
  BY DEF Items

\* VNRecvMsg gives out every message once and in order, and never fails after
\* a wait that succeeded (insertNode, WaitForQueueNotEmpty, getNode and
\* resetQueue): the queue implements the FIFO.
THEOREM QueueImplementsFifo == QueueSpec => ImplementsFifo
<1>1. QueueInit => F!Init
  BY DEF QueueInit, F!Init, Items
<1>2. QueueInv /\ QueueInv' /\ [QueueNext]_queueVars => [F!Next]_<<Items, result>>
  <2> SUFFICES ASSUME QueueInv, QueueInv', [QueueNext]_queueVars
               PROVE  [F!Next]_<<Items, result>>
    OBVIOUS
  <2>1. ASSUME NEW n \in Node, NEW m \in Msg, Insert(n, m)
        PROVE  F!Next
    BY <2>1, InsertPuts DEF F!Next
  <2>2. ASSUME NEW c \in Consumers, Acquire(c)
        PROVE  UNCHANGED <<Items, result>>
    BY <2>2, ItemsSteady DEF Acquire
  <2>3. ASSUME NEW c \in Consumers, TimeOut(c)
        PROVE  F!Next
    BY <2>3, ItemsSteady DEF TimeOut, F!Next, F!Miss
  <2>4. ASSUME NEW c \in Consumers, Take(c)
        PROVE  F!Next
    BY <2>4, TakeGets DEF F!Next
  <2>5. ASSUME Reset
        PROVE  F!Next
    <3>1. Items' = <<>>
      BY <2>5 DEF Reset, Items
    <3> QED
      BY <2>5, <3>1 DEF Reset, F!Next, F!Clear
  <2>6. ASSUME UNCHANGED queueVars
        PROVE  UNCHANGED <<Items, result>>
    BY <2>6, ItemsSteady DEF queueVars
  <2> QED
    BY <2>1, <2>2, <2>3, <2>4, <2>5, <2>6 DEF QueueNext, Receive
<1> QED
  BY <1>1, <1>2, QueueInductive, PTL DEF QueueSpec, ImplementsFifo, F!Spec

=============================================================================
