-------------------------------- MODULE Fifo --------------------------------
(***************************************************************************)
(* What a receive queue of VNClib promises: messages leave in the order in *)
(* which they came, each of them once, and a receive returns one of them   *)
(* or reports a timeout.  It never reports RS_Failed.                      *)
(***************************************************************************)
EXTENDS Sequences

CONSTANTS Msg, Consumers

VARIABLES
  items,   \* the messages that wait, oldest first
  result   \* what each consumer's last receive returned

Put(m) == items' = Append(items, m) /\ UNCHANGED result

Get(c) ==
  /\ items # <<>>
  /\ items' = Tail(items)
  /\ result' = [result EXCEPT ![c] = Head(items)]

Miss(c) == result' = [result EXCEPT ![c] = "RS_Timeout"] /\ UNCHANGED items

Clear == items' = <<>> /\ UNCHANGED result

Init == items = <<>> /\ result = [c \in Consumers |-> "none"]

Next ==
  \/ \E m \in Msg : Put(m)
  \/ \E c \in Consumers : Get(c) \/ Miss(c)
  \/ Clear

Spec == Init /\ [][Next]_<<items, result>>

=============================================================================
