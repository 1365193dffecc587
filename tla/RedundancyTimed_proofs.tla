----------------------- MODULE RedundancyTimed_proofs -----------------------
(***************************************************************************)
(* The clock only takes behaviours away: every behaviour of RedundancyTimed *)
(* is one of Redundancy, so what Redundancy_proofs shows of the protocol,  *)
(* however its threads are delayed, holds of its timely behaviours.        *)
(***************************************************************************)
EXTENDS RedundancyTimed, Redundancy_proofs

\* A step of a thread or of the outside is one of the untimed protocol's; a
\* tick is none of its business.
LEMMA TimedStep == ASSUME [TimedNext]_timedVars PROVE [Next]_vars
<1>1. CASE Tick
  BY <1>1 DEF Tick
<1>2. ASSUME NEW s \in Servers,
             TimedNegotiate(s) \/ TimedHeartbeat(s) \/ TimedMain(s) \/ Outside(s)
      PROVE  Next
  BY <1>2 DEF TimedNegotiate, TimedHeartbeat, TimedMain, Outside, Next
<1>3. CASE UNCHANGED timedVars
  BY <1>3 DEF timedVars
<1> QED
  BY <1>1, <1>2, <1>3 DEF TimedNext

\* The timed protocol implements the untimed one: timeouts that come when the
\* threads' waits are over are timeouts, and the other steps are the same.
THEOREM TimedImplementsUntimed == TimedSpec => Spec
<1>1. TimedInit => Init
  BY DEF TimedInit
<1>2. [TimedNext]_timedVars => [Next]_vars
  BY TimedStep
<1> QED
  BY <1>1, <1>2, PTL DEF TimedSpec, Spec

\* With timely threads too a server with a paired role holds the address of
\* another server of its own cluster, except while negotiate is between
\* set_my_role and the copy of the address.
THEOREM TimedMateKnown == TimedSpec => []PairedKnowsMate
BY TimedImplementsUntimed, MateKnown, PTL

\* Under the clock as without it: no two servers are each other's backup, and a
\* role is only written over the roles from which the code means to.
THEOREM TimedRoles == TimedSpec => []NeverMutualBackups /\ RoleSteps
BY TimedImplementsUntimed, SomebodyLeads, RoleOrder, PTL

=============================================================================
