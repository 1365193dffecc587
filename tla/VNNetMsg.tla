----------------------------- MODULE VNNetMsg -----------------------------
(***************************************************************************)
(* CVNNetMsg: a buffer that holds a header and typed parameters behind it. *)
(* A message is a record of the object's fields and of what the buffer     *)
(* says: max (m_MaxLength), pos (m_Pos), the header's length and count,    *)
(* and the parameters in the order in which they were added.               *)
(***************************************************************************)
EXTENDS Integers, Sequences

CONSTANTS
  EndOfHeader,          \* 24 bytes
  ParamDataStart_Offset,\* 6 bytes before the data of each parameter
  DEF_MSG_LENGTH,       \* 128 bytes
  IdSpace,              \* 256: parameter ids are stored in a byte
  CountSpace,           \* 65536: the header counts parameters in two bytes
  Data,                 \* what a parameter may hold, with its type
  DataLength            \* its length in bytes

ASSUME LayoutAssumption ==
  /\ EndOfHeader \in Nat \ {0} /\ ParamDataStart_Offset \in Nat \ {0}
  /\ DEF_MSG_LENGTH \in Nat
  /\ IdSpace \in Nat \ {0, 1} /\ CountSpace \in Nat \ {0}
  /\ DataLength \in [Data -> Nat]

Param == [id : 0 .. IdSpace - 1, data : Data]

NetMsg == [max : Nat, pos : Nat, length : Nat, count : Nat,
           params : Seq(Param)]

\* InitEmptyMsg, with the buffer made to hold a header at least.
EmptyMsg(defMsgLength) ==
  [max |-> IF defMsgLength < EndOfHeader THEN EndOfHeader ELSE defMsgLength,
   pos |-> EndOfHeader, length |-> 0, count |-> 0, params |-> <<>>]

\* GetParam with a buffer that is large enough finds the first one with the
\* id, which it compares as an int with the byte.
HasParam(m, id) == \E i \in 1 .. Len(m.params) : m.params[i].id = id

Required(d) == ParamDataStart_Offset + DataLength[d]

\* Mutant: the parameter is not looked for.
AddParamAgain(m, id, d) ==
  [m EXCEPT !.max = IF m.pos + Required(d) > @ THEN m.pos + Required(d) ELSE @,
            !.pos = @ + Required(d), !.length = @ + Required(d),
            !.count = (@ + 1) % CountSpace,
            !.params = Append(@, [id |-> id % IdSpace, data |-> d])]

\* AddParam: refuses an id the message has, lets the buffer grow to what the
\* new parameter needs, and keeps the header's count and length up.
AddParam(m, id, d) ==
  IF HasParam(m, id) THEN m
  ELSE [m EXCEPT
          !.max = IF m.pos + Required(d) > @ THEN m.pos + Required(d) ELSE @,
          !.pos = @ + Required(d), !.length = @ + Required(d),
          !.count = (@ + 1) % CountSpace,
          !.params = Append(@, [id |-> id % IdSpace, data |-> d])]

\* What every operation relies on: the write position is behind what the
\* header announces and inside the buffer, and no parameter hides another.
WellFormed(m) ==
  /\ m \in NetMsg
  /\ m.pos = EndOfHeader + m.length /\ m.pos <= m.max
  /\ \A i, j \in 1 .. Len(m.params) :
       m.params[i].id = m.params[j].id => i = j

=============================================================================
