---------------------------- MODULE MCVNChannel ----------------------------
(***************************************************************************)
(* Instances of VNChannel for TLC: small layouts of a message.  A value is *)
(* as long as the number that stands for it.                               *)
(***************************************************************************)
EXTENDS VNChannel

MCDataLength == [d \in Data |-> d]

=============================================================================
