------------------------------ MODULE VNQueue ------------------------------
(***************************************************************************)
(* CVNQueue of VNClib, in the Windows build: a linked list under a critical *)
(* section, and a semaphore that counts its messages.  VNRecvMsg takes a   *)
(* permit of the semaphore and then, in a second step, a node of the list. *)
(* Each method of the list is one step: it holds the critical section from *)
(* its first to its last access.  The semaphore is released in the middle  *)
(* of insertNode, but who gets that permit cannot take a node earlier.     *)
(***************************************************************************)
EXTENDS Naturals, Sequences, FiniteSets

CONSTANTS
  Msg,         \* messages
  Node,        \* memory for list nodes; a deleted node may be used again
  NULL,
  Consumers,   \* threads that call VNRecvMsg; here the heartbeat thread
  SEM_MAX      \* the greatest count of the semaphore: 0xFFFF

ASSUME NullAssumption == NULL \notin Node
ASSUME SemaphoreAssumption == SEM_MAX \in Nat
ASSUME ConsumersAssumption == IsFiniteSet(Consumers)

VARIABLES
  header, tail,  \* m_Header, m_Tail
  next, msg,     \* the fields of the nodes
  allocated,     \* the nodes that exist
  permits,       \* the count of m_semaphore
  pc,            \* "take" between WaitForQueueNotEmpty and getMsg
  result,        \* what VNRecvMsg returned last
  list           \* auxiliary, for the properties: the nodes in their order

queueVars == <<header, tail, next, msg, allocated, permits, pc, result, list>>

\* Mutant: a semaphore without a greatest count.
ReleaseUncapped == permits' = permits + 1

\* Mutant: a permit only for the first message, as the POSIX build signals.
ReleaseFirst ==
  permits' = IF header = NULL /\ permits < SEM_MAX THEN permits + 1 ELSE permits

\* ReleaseSemaphore fails, unnoticed, at the greatest count.
Release == permits' = IF permits < SEM_MAX THEN permits + 1 ELSE permits

\* Mutant: asks m_Tail, which getNode leaves dangling, whether the list is empty.
InsertAtTail(n, m) ==
  /\ n \notin allocated
  /\ allocated' = allocated \union {n}
  /\ msg' = [msg EXCEPT ![n] = m]
  /\ next' = IF tail = NULL THEN [next EXCEPT ![n] = NULL]
             ELSE [next EXCEPT ![n] = NULL, ![tail] = n]
  /\ header' = IF tail = NULL THEN n ELSE header
  /\ tail' = n
  /\ Release
  /\ list' = Append(list, n)
  /\ UNCHANGED <<pc, result>>

\* insertNode.
Insert(n, m) ==
  /\ n \notin allocated
  /\ allocated' = allocated \union {n}
  /\ msg' = [msg EXCEPT ![n] = m]
  /\ next' = IF header = NULL THEN [next EXCEPT ![n] = NULL]
             ELSE [next EXCEPT ![n] = NULL, ![tail] = n]
  /\ header' = IF header = NULL THEN n ELSE header
  /\ tail' = n
  /\ Release
  /\ list' = Append(list, n)
  /\ UNCHANGED <<pc, result>>

\* Mutant: a wait that leaves the permit, as one on an event would.
AcquireNothing(c) ==
  /\ pc[c] = "idle" /\ permits > 0
  /\ pc' = [pc EXCEPT ![c] = "take"]
  /\ UNCHANGED <<header, tail, next, msg, allocated, permits, result, list>>

\* WaitForQueueNotEmpty gets a permit.
Acquire(c) ==
  /\ pc[c] = "idle" /\ permits > 0
  /\ permits' = permits - 1
  /\ pc' = [pc EXCEPT ![c] = "take"]
  /\ UNCHANGED <<header, tail, next, msg, allocated, result, list>>

\* WaitForQueueNotEmpty times out.
TimeOut(c) ==
  /\ pc[c] = "idle" /\ permits = 0
  /\ result' = [result EXCEPT ![c] = "RS_Timeout"]
  /\ UNCHANGED <<header, tail, next, msg, allocated, permits, pc, list>>

\* getNode, and what VNRecvMsg makes of it: NULL is RS_Failed.  m_Tail is
\* left alone even when the last node goes.
Take(c) ==
  /\ pc[c] = "take"
  /\ pc' = [pc EXCEPT ![c] = "idle"]
  /\ IF header = NULL \/ tail = NULL
     THEN /\ result' = [result EXCEPT ![c] = "RS_Failed"]
          /\ UNCHANGED <<header, allocated, list>>
     ELSE /\ result' = [result EXCEPT ![c] = msg[header]]
          /\ header' = next[header]
          /\ allocated' = allocated \ {header}
          /\ list' = Tail(list)
  /\ UNCHANGED <<tail, next, msg, permits>>

\* Mutant: the old semaphore goes on counting messages that are deleted.
ResetListOnly ==
  /\ \A c \in Consumers : pc[c] = "idle"
  /\ header' = NULL /\ tail' = NULL
  /\ allocated' = {} /\ list' = <<>>
  /\ UNCHANGED <<next, msg, permits, pc, result>>

\* resetQueue: every node is deleted and a new semaphore made.  Its caller,
\* freeQueueGroup, runs when the threads that receive have been joined.
Reset ==
  /\ \A c \in Consumers : pc[c] = "idle"
  /\ header' = NULL /\ tail' = NULL
  /\ allocated' = {} /\ list' = <<>>
  /\ permits' = 0
  /\ UNCHANGED <<next, msg, pc, result>>

QueueInit ==
  /\ header = NULL /\ tail = NULL
  /\ next = [n \in Node |-> NULL]
  /\ msg \in [Node -> Msg]
  /\ allocated = {} /\ list = <<>>
  /\ permits = 0
  /\ pc = [c \in Consumers |-> "idle"]
  /\ result = [c \in Consumers |-> "none"]

Receive(c) == Acquire(c) \/ TimeOut(c) \/ Take(c)

QueueNext ==
  \/ \E n \in Node, m \in Msg : Insert(n, m)
  \/ \E c \in Consumers : Receive(c)
  \/ Reset

QueueSpec == QueueInit /\ [][QueueNext]_queueVars

-----------------------------------------------------------------------------

TypeOK ==
  /\ header \in Node \union {NULL} /\ tail \in Node \union {NULL}
  /\ next \in [Node -> Node \union {NULL}]
  /\ msg \in [Node -> Msg]
  /\ allocated \in SUBSET Node
  /\ permits \in 0 .. SEM_MAX
  /\ pc \in [Consumers -> {"idle", "take"}]
  /\ result \in [Consumers -> Msg \union {"none", "RS_Timeout", "RS_Failed"}]
  /\ list \in Seq(Node)

\* The pointers are those of the list: m_Header leads along next through
\* exactly the nodes that exist to m_Tail, whatever m_Tail was left pointing
\* at while the list was empty.
Linked ==
  /\ header = IF list = <<>> THEN NULL ELSE list[1]
  /\ list # <<>> => tail = list[Len(list)]
  /\ \A i \in 1 .. Len(list) :
       next[list[i]] = IF i = Len(list) THEN NULL ELSE list[i + 1]
  /\ \A i, j \in 1 .. Len(list) : list[i] = list[j] => i = j
  /\ allocated = {list[i] : i \in 1 .. Len(list)}

\* The consumers that hold a permit and have yet to take a node.
Takers == {c \in Consumers : pc[c] = "take"}

\* The messages that a consumer counts on, or will when it gets its permit.
Owed == permits + Cardinality(Takers)

\* Every permit, taken or not, stands for a message of its own, even after
\* the semaphore has refused some: no two consumers count on the same one
\* (WaitForQueueNotEmpty and getMsg in VNRecvMsg, resetQueue).
PermitsBacked == Owed <= Len(list)

\* A message is left in the list without a permit only by a semaphore that is
\* full (ReleaseSemaphore in insertNode): no other step strands one.
StrandsNothing == permits < SEM_MAX => Len(list') + Owed <= Len(list) + Owed'
NothingStranded == [][StrandsNothing]_queueVars

\* The queue as its users see it.
Items == [i \in 1 .. Len(list) |-> msg[list[i]]]

F == INSTANCE Fifo WITH items <- Items

\* VNRecvMsg gives out every message once and in order, and never finds the
\* list empty after a wait that succeeded, however receivers and senders
\* interleave and even when the semaphore overflows.
ImplementsFifo == F!Spec

=============================================================================
