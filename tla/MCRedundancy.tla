--------------------------- MODULE MCRedundancy ---------------------------
(***************************************************************************)
(* Instances of Redundancy for TLC.  Servers are numbers, and the order of *)
(* the numbers is that of the addresses.                                   *)
(***************************************************************************)
EXTENDS Redundancy

MCIp == [s \in Servers |-> s]

\* Every server belongs to the same cluster.
MCOneCluster == [s \in Servers |-> 1]

\* A message is lost, or a server killed and one restarted, or a key pressed.
OneMishap ==
  /\ crashes + faults + keys <= 1
  /\ Cardinality({s \in Servers : starts[s] > 1}) <= crashes

\* A server is killed, or a key pressed, when no datagram waits to be read.
BetweenDatagrams ==
  crashes' + keys' > crashes + keys => \A s \in Servers : udp[s] = <<>>

\* The state without what nobody will read: negotiate's `role' outside of its
\* receive, and its count of rounds once the server has decided.
Undecided(s) ==
  role[s] = "WHO_AM_I" \/ (negPc[s] = "recv" /\ negRole[s] = "WHO_AM_I")
LiveState ==
  <<main, shared, negPc, negPeer, hbVars, net, budget,
    [s \in Servers |-> IF negPc[s] = "recv" THEN negRole[s] ELSE "unread"],
    [s \in Servers |-> IF Undecided(s) THEN negCount[s] ELSE 0]>>

=============================================================================
