----------------------------- MODULE MCTunnel -----------------------------
(***************************************************************************)
(* Instances of Tunnel for TLC: the end here connects.  It writes as much as  *)
(* the other's buffer holds, and the path fails once, or loses something and  *)
(* fails again; or more, and closes, and the other may go away; both write,   *)
(* the first one closes, and the path fails once; or it writes more than both *)
(* buffers hold, and closes.                                                 *)
(***************************************************************************)
EXTENDS Tunnel

MCMss == <<2, 1>>

Plan(l, r, n, c, d) ==
  [write |-> [p \in End |-> IF p = Initiator THEN l ELSE r], faults |-> n,
   close |-> c, destroy |-> d]
MCPlans ==
  LET mate == End \ {Initiator}
  IN {Plan(4, 0, 1, {}, {}), Plan(4, 0, 2, {}, {}), Plan(5, 0, 0, {Initiator}, mate),
      Plan(1, 1, 1, {Initiator}, {}), Plan(7, 0, 0, {Initiator}, {})}

\* Of two faults the first is a loss.
LossFirst ==
  plan.faults = 2 /\ faults = 0 /\ faults' = 1 =>
    tcp' = tcp /\ \E p \in End : Len(wire'[p]) < Len(wire[p])

=============================================================================
