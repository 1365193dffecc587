-------------------------- MODULE RedundancyTimed --------------------------
(***************************************************************************)
(* The steps of Redundancy under a clock of 500 ms ticks, the unit of      *)
(* NEGOTIATE_RCV_TIMEOUT and HEARTBEAT_TIMEOUT.  A thread that waits counts *)
(* ticks and times out when its wait is over, never before; a thread that  *)
(* can go on does so before the next tick (computing and the LAN are fast  *)
(* against half a second); a heartbeat is sent at most once per tick, which *)
(* stands for the time a round trip takes.  Crashes, keys and starts come  *)
(* at any moment.  Every behaviour is one of Redundancy.                   *)
(***************************************************************************)
EXTENDS Redundancy

CONSTANT StartGap  \* rounds before the claim in which no other server starts

VARIABLES
  negWait,   \* ticks since negotiate began to wait in VNRecvBroadCastMsg
  hbWait,    \* ticks since heartbeat began to wait in VNRecvMsg or fool_wait
  hbTurn     \* whether heartbeat may still send in this tick

clock     == <<negWait, hbWait, hbTurn>>
timedVars == <<vars, clock>>

NegTicks == 1   \* NEGOTIATE_RCV_TIMEOUT
HbTicks  == 2   \* HEARTBEAT_TIMEOUT * 2, for the receive and for the idle wait

\* Where a thread may stay while time passes.
NegWaits(s) ==
  \/ negPc[s] \in {"off", "done"}
  \/ negPc[s] = "recv" /\ udp[s] = <<>> /\ negWait[s] < NegTicks
HbWaits(s) ==
  \/ hbPc[s] \in {"off", "done"}
  \/ hbPc[s] = "recv" /\ hbq[s] = <<>> /\ hbWait[s] < HbTicks
  \/ hbPc[s] = "idle" /\ hbWait[s] < HbTicks
  \/ hbPc[s] = "send" /\ ~ hbTurn[s]
MainWaits(s) ==
  \/ main[s] = "off"
  \/ main[s] = "running" /\ ~ report[s]
  \/ main[s] = "joining" /\ ~ (negPc[s] = "done" /\ hbPc[s] = "done")

Tick ==
  /\ \A s \in Servers : NegWaits(s) /\ HbWaits(s) /\ MainWaits(s)
  /\ negWait' = [s \in Servers |->
                   IF negPc[s] = "recv" THEN negWait[s] + 1 ELSE 0]
  /\ hbWait' = [s \in Servers |->
                  IF hbPc[s] \in {"recv", "idle"} THEN hbWait[s] + 1 ELSE 0]
  /\ hbTurn' = [s \in Servers |-> TRUE]
  /\ UNCHANGED vars

TimedNegotiate(s) ==
  /\ Negotiate(s)
  /\ negPc[s] = "recv" /\ udp[s] = <<>> => negWait[s] >= NegTicks
  /\ negWait' = [negWait EXCEPT ![s] = 0]
  /\ UNCHANGED <<hbWait, hbTurn>>

TimedHeartbeat(s) ==
  /\ HeartbeatThread(s)
  /\ hbPc[s] = "recv" /\ hbq[s] = <<>> => hbWait[s] >= HbTicks
  /\ hbPc[s] = "idle" => hbWait[s] >= HbTicks
  /\ hbPc[s] = "send" => hbTurn[s]
  /\ hbWait' = [hbWait EXCEPT ![s] = 0]
  /\ hbTurn' = [hbTurn EXCEPT ![s] = @ /\ hbPc[s] # "send"]
  /\ UNCHANGED negWait

\* What the properties below need of the moment at which a server is started.
\* A start is slow against what a LAN does, so the other servers are waiting.
\* None of them is in the last StartGap rounds before it claims the primary
\* role by itself, and no undecided one is of another cluster: foreign
\* broadcasts count as rounds, and keep the receive in which they arrive from
\* timing out and announcing the server.  None is giving its mate up: at the
\* last missed heartbeat, or in a negotiate wait that began with a role it has
\* lost since.
StartsApart(s) ==
  \A t \in Servers \ {s} :
    /\ NegWaits(t) /\ HbWaits(t) /\ MainWaits(t)
    /\ Up(t) /\ role[t] = "WHO_AM_I" =>
         /\ negCount[t] + StartGap <= NEGOTIATE_MAX_COUNT
         /\ ServerId[t] = ServerId[s]
    /\ errCount[t] <= MAX_HEARTBEAT_ERROR_COUNT
    /\ negPc[t] = "recv" => negRole[t] = role[t]

Outside(s) ==
  /\ \/ Start(s) /\ StartsApart(s)
     \/ MainKey(s)
     \/ Crash(s)
  /\ UNCHANGED clock

TimedMain(s) == Main(s) /\ UNCHANGED clock

TimedInit ==
  /\ Init
  /\ negWait = [s \in Servers |-> 0]
  /\ hbWait  = [s \in Servers |-> 0]
  /\ hbTurn  = [s \in Servers |-> TRUE]

TimedNext ==
  \/ Tick
  \/ \E s \in Servers :
       TimedNegotiate(s) \/ TimedHeartbeat(s) \/ TimedMain(s) \/ Outside(s)

TimedSpec == TimedInit /\ [][TimedNext]_timedVars

TimedFairness ==
  /\ WF_timedVars(Tick)
  /\ \A s \in Servers : /\ WF_timedVars(TimedNegotiate(s))
                        /\ WF_timedVars(TimedHeartbeat(s))
                        /\ WF_timedVars(TimedMain(s))

TimedFairSpec == TimedSpec /\ TimedFairness

-----------------------------------------------------------------------------

\* The servers that believe they serve; one that is quitting no longer does,
\* even when heartbeat has overwritten the role that negotiate left with.
Primaries ==
  {s \in Servers :
     /\ role[s] \in {"PRIMARY_WITHOUT_BACKUP", "PRIMARY_WITH_BACKUP"}
     /\ ~ quit[s]}

\* A cluster never has more than one primary: the tie-break, the adoption and the
\* hand-over on a quit leave no instant at which two servers both believe
\* they serve.
AtMostOnePrimary ==
  \A s, t \in Primaries : ServerId[s] = ServerId[t] => s = t

\* A server does not give up a mate that still holds it as its own: with
\* timely threads and a healthy network, heartbeat's patience outlasts the
\* idle wait, the connecting and the count left from an earlier pairing.
GivesUpOnlyTheLost ==
  [][\A s, t \in Servers :
       hbPc[s] = "recv" /\ hbPc'[s] = "sayquit" /\ mate[s] = t =>
         ~ (Up(t) /\ role[t] \in Paired /\ mate[t] = s /\ ~ quit[t])]_timedVars

\* s and t are a pair, and both know it.
PairOf(s, t) ==
  /\ role[s] = "PRIMARY_WITH_BACKUP" /\ mate[s] = t
  /\ role[t] = "BACKUP_WITH_PRIMARY" /\ mate[t] = s

\* Two servers of a cluster that are up and are not told to quit any more
\* end as a pair, and stay one.
Pairs ==
  \A s, t \in Servers :
    s # t /\ ServerId[s] = ServerId[t] =>
      (<>[](Up(s) /\ Up(t)) => <>[](PairOf(s, t) \/ PairOf(t, s)))

=============================================================================
