------------------------- MODULE MCRedundancyTimed -------------------------
(***************************************************************************)
(* Instances of RedundancyTimed for TLC, numbered as in MCRedundancy.      *)
(***************************************************************************)
EXTENDS RedundancyTimed

MCIp == [s \in Servers |-> s]

\* Every server belongs to the same cluster.
MCOneCluster == [s \in Servers |-> 1]

\* Odd servers are one cluster, even ones another.
MCTwoClusters == [s \in Servers |-> s % 2]

\* A server is killed, or told to quit by a key, once at most.
KilledOrQuit == crashes' + keys' <= 1

=============================================================================
