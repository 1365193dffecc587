------------------------- MODULE TelecomLine_proofs -------------------------
(***************************************************************************)
(* Proofs about TelecomLine: its types, what MakeCallMutex is for, that no *)
(* line stays active without a call, and that the counters agree with the  *)
(* lines.                                                                  *)
(***************************************************************************)
EXTENDS TelecomLine, FiniteSetTheorems, TLAPS

EventOf == [type : EventType, crn : 0 .. MaxCalls]
WorkPc == {"lock", "handle", "switch", "toIdle", "toActive", "reopen"}

-----------------------------------------------------------------------------
(* Types.                                                                  *)

\* The board's part of the type invariant is kept by whatever signals.
LEMMA SignalsType ==
  ASSUME LineTypeOK, NEW l \in Lines, NEW p \in Phase, NEW type \in EventType,
         Signals(l, p, type)
  PROVE  /\ phase' \in [Lines -> Phase]
         /\ events' \in [Lines -> Seq(EventOf)]
<1>1. crn[l] \in 0 .. MaxCalls
  BY DEF LineTypeOK
<1>2. Event(type, crn[l]) \in EventOf
  BY <1>1 DEF Event, EventOf
<1>3. events \in [Lines -> Seq(EventOf)] /\ phase \in [Lines -> Phase]
  BY DEF LineTypeOK, EventOf
<1>4. Append(events[l], Event(type, crn[l])) \in Seq(EventOf)
  BY <1>2, <1>3
<1> QED
  BY <1>3, <1>4 DEF Signals

\* So is it by a call of the library about m_crn.
LEMMA AsksType ==
  ASSUME LineTypeOK, NEW l \in Lines, NEW from, NEW p \in Phase,
         NEW type \in EventType, Asks(l, from, p, type)
  PROVE  /\ phase' \in [Lines -> Phase]
         /\ events' \in [Lines -> Seq(EventOf)]
<1>1. CASE Signals(l, p, type)
  BY <1>1, SignalsType
<1>2. CASE UNCHANGED <<phase, events>>
  BY <1>2 DEF LineTypeOK, EventOf
<1> QED
  BY <1>1, <1>2 DEF Asks

\* setState keeps the types of the line's state and of the counters.
LEMMA SetStateType ==
  ASSUME LineTypeOK, NEW l \in Lines, NEW s \in LineState, SetState(l, s)
  PROVE  /\ State' \in [Lines -> LineState]
         /\ Total' \in [LineState -> 0 .. CountSpace - 1]
<1>1. State \in [Lines -> LineState] /\ Total \in [LineState -> 0 .. CountSpace - 1]
  BY DEF LineTypeOK
<1>2. CountSpace \in Nat \ {0}
  BY LineAssumption
<1>3. \A n \in Int : n % CountSpace \in 0 .. CountSpace - 1
  BY <1>2
<1> DEFINE less == [Total EXCEPT ![State[l]] = (@ - 1) % CountSpace]
<1>4. (Total[State[l]] - 1) % CountSpace \in 0 .. CountSpace - 1
  BY <1>1, <1>3
<1>5. less \in [LineState -> 0 .. CountSpace - 1]
  BY <1>1, <1>4
<1>6. (less[s] + 1) % CountSpace \in 0 .. CountSpace - 1
  BY <1>3, <1>5
<1>7. Total' = [less EXCEPT ![s] = (@ + 1) % CountSpace]
  BY DEF SetState
<1>8. Total' \in [LineState -> 0 .. CountSpace - 1]
  <2> HIDE DEF less
  <2> QED BY <1>5, <1>6, <1>7
<1> QED
  BY <1>1, <1>8 DEF SetState


LEMMA InitType == TelInit => LineTypeOK
<1> SUFFICES ASSUME TelInit PROVE LineTypeOK
  OBVIOUS
<1>1. CountSpace \in Nat \ {0} /\ MaxCalls \in Nat /\ MaxAlarms \in Nat /\ MaxFatal \in Nat
  BY LineAssumption
<1>2. Cardinality(Lines) \in Nat
  BY LineAssumption, FS_CardinalityType
<1>3. \A n \in Int : n % CountSpace \in 0 .. CountSpace - 1
  BY <1>1
<1>4. Total \in [LineState -> 0 .. CountSpace - 1]
  <2>1. Total = [s \in LineState |->
                   CASE s = "CLOSED" -> (4 - Cardinality(Lines)) % CountSpace
                     [] s = "UNINITIALIZED" -> Cardinality(Lines) % CountSpace
                     [] OTHER -> 0]
    BY DEF TelInit
  <2>2. /\ (4 - Cardinality(Lines)) % CountSpace \in 0 .. CountSpace - 1
        /\ Cardinality(Lines) % CountSpace \in 0 .. CountSpace - 1
    BY <1>2, <1>3
  <2>3. 0 \in 0 .. CountSpace - 1
    BY <1>1
  <2> QED
    BY ONLY <2>1, <2>2, <2>3
<1>5. events \in [Lines -> Seq(EventOf)]
  <2>1. \A l \in Lines : Event(IF l \in blocked THEN "BLOCKED" ELSE "UNBLOCKED", 0) \in EventOf
    BY <1>1 DEF Event, EventOf, EventType
  <2> QED BY <2>1 DEF TelInit
<1> QED
  BY <1>1, <1>4, <1>5 DEF TelInit, LineTypeOK, LineState, TCallState, Phase, Idle, Wait, EventOf

\* The steps of the board and of the application.
LEMMA BoardType ==
  ASSUME LineTypeOK, NEW l \in Lines, UNCHANGED <<lineVars, app, work>>,
         Detect(l) \/ Digit(l) \/ Progress(l) \/ FarEnds(l) \/ Alarm(l) \/ Fatal(l)
  PROVE  LineTypeOK'
<1> USE DEF lineVars
<1>1. MaxCalls \in Nat /\ MaxAlarms \in Nat /\ MaxFatal \in Nat
  BY LineAssumption
<1>2. CASE Detect(l)
  <2>1. calls + 1 \in 0 .. MaxCalls
    BY <1>1, <1>2 DEF Detect, LineTypeOK
  <2>2. Event("DETECTED", calls + 1) \in EventOf
    BY <2>1 DEF Event, EventOf, EventType
  <2>3. events' \in [Lines -> Seq(EventOf)]
    <3>1. events \in [Lines -> Seq(EventOf)]
      BY DEF LineTypeOK, EventOf
    <3>2. Append(events[l], Event("DETECTED", calls + 1)) \in Seq(EventOf)
      BY <2>2, <3>1
    <3> QED
      BY <1>2, <3>1, <3>2 DEF Detect
  <2>4. phase' \in [Lines -> Phase]
    BY <1>2 DEF Detect, LineTypeOK, Phase
  <2>5. crn' \in [Lines -> 0 .. MaxCalls] /\ calls' \in 0 .. MaxCalls
    BY <1>2, <2>1 DEF Detect, LineTypeOK
  <2> QED
    BY <1>2, <2>3, <2>4, <2>5 DEF Detect, LineTypeOK, restVars, EventOf
<1>3. CASE Digit(l)
  <2>1. PICK p \in {"detected", "offered"} :
          Signals(l, p, IF p = "offered" THEN "OFFERED" ELSE "DIGITS")
    BY <1>3 DEF Digit
  <2>2. phase' \in [Lines -> Phase] /\ events' \in [Lines -> Seq(EventOf)]
    BY <2>1, SignalsType DEF Phase, EventType
  <2> QED
    BY <1>3, <2>2 DEF Digit, LineTypeOK, restVars, EventOf
<1>4. CASE Progress(l)
  <2>1. PICK j \in 1 .. 5 : j > 1 /\ Signals(l, Outgoing[j], Outgoing[j])
    BY <1>4 DEF Progress
  <2>2. Outgoing[j] \in Phase /\ Outgoing[j] \in EventType
    BY <2>1 DEF Phase, EventType, Outgoing
  <2>3. phase' \in [Lines -> Phase] /\ events' \in [Lines -> Seq(EventOf)]
    BY <2>1, <2>2, SignalsType
  <2> QED
    BY <1>4, <2>3 DEF Progress, LineTypeOK, restVars, EventOf
<1>5. CASE FarEnds(l)
  <2>1. phase' \in [Lines -> Phase] /\ events' \in [Lines -> Seq(EventOf)]
    BY <1>5, SignalsType DEF FarEnds, Phase, EventType
  <2> QED
    BY <1>5, <2>1 DEF FarEnds, LineTypeOK, restVars, EventOf
<1>6. CASE Alarm(l)
  <2>0. phase[l] \in Phase
    BY DEF LineTypeOK
  <2>1. phase' \in [Lines -> Phase] /\ events' \in [Lines -> Seq(EventOf)]
    BY <1>6, <2>0, SignalsType DEF Alarm, EventType
  <2>2. blocked' \subseteq Lines /\ alarms' \in 0 .. MaxAlarms
    BY <1>1, <1>6 DEF Alarm, LineTypeOK
  <2> QED
    BY <1>6, <2>1, <2>2 DEF Alarm, LineTypeOK, EventOf
<1>7. CASE Fatal(l)
  <2>0. phase[l] \in Phase
    BY DEF LineTypeOK
  <2>1. phase' \in [Lines -> Phase] /\ events' \in [Lines -> Seq(EventOf)]
    BY <1>7, <2>0, SignalsType DEF Fatal, EventType
  <2>2. fatal' \in [Lines -> 0 .. MaxFatal]
    BY <1>1, <1>7 DEF Fatal, LineTypeOK
  <2> QED
    BY <1>7, <2>1, <2>2 DEF Fatal, LineTypeOK, EventOf
<1> QED
  BY <1>2, <1>3, <1>4, <1>5, <1>6, <1>7

LEMMA ApplicationType == LineTypeOK /\ Application => LineTypeOK'
<1> SUFFICES ASSUME LineTypeOK, Application PROVE LineTypeOK'
  OBVIOUS
<1> USE DEF lineVars, boardVars
<1>1. MaxCalls \in Nat
  BY LineAssumption
<1>2. CASE \E l \in Lines : AppAsks(l)
  <2> PICK l \in Lines : AppAsks(l)
    BY <1>2
  <2>1. phase' \in [Lines -> Phase] /\ events' \in [Lines -> Seq(EventOf)]
    BY AsksType DEF AppAsks, AcceptCall, AnswerCall, HangupCall, Phase, EventType, Outgoing
  <2> QED
    BY <2>1 DEF AppAsks, LineTypeOK, restVars, EventOf
<1>3. CASE \E l \in Lines : AppMakeCall(l)
  <2> PICK l \in Lines : AppMakeCall(l)
    BY <1>3
  <2>1. calls + 1 \in 0 .. MaxCalls
    BY <1>1 DEF AppMakeCall, LineTypeOK
  <2>2. phase' \in [Lines -> Phase]
    BY DEF AppMakeCall, LineTypeOK, Phase, Outgoing
  <2>3. {m_crn', crn'} \subseteq [Lines -> 0 .. MaxCalls] /\ calls' \in 0 .. MaxCalls
    BY <2>1 DEF AppMakeCall, LineTypeOK
  <2>4. app' \in [pc : {"register", "active"}, line : Lines]
    BY DEF AppMakeCall
  <2> QED
    BY <2>2, <2>3, <2>4 DEF AppMakeCall, LineTypeOK, restVars, EventOf
<1>4. CASE AppRegister
  <2>1. app \in [pc : {"register", "active"}, line : Lines]
    BY <1>4 DEF AppRegister, LineTypeOK, Idle
  <2>2. CallState' \in [Lines -> TCallState] /\ mine' \in [Lines -> 0 .. MaxCalls]
    <3>1. m_crn[app.line] \in 0 .. MaxCalls
      BY <2>1 DEF LineTypeOK
    <3>2. "OUTBOUND_INITIATED" \in TCallState
      BY DEF TCallState
    <3>3. CallState \in [Lines -> TCallState] /\ mine \in [Lines -> 0 .. MaxCalls]
      BY DEF LineTypeOK
    <3> QED
      BY <1>4, <3>1, <3>2, <3>3 DEF AppRegister
  <2>3. app' \in {Idle} \union [pc : {"register", "active"}, line : Lines]
    BY <1>4, <2>1 DEF AppRegister
  <2> QED
    BY <1>4, <2>2, <2>3 DEF AppRegister, LineTypeOK, EventOf
<1>5. CASE AppActive
  <2>1. app.line \in Lines
    BY <1>5 DEF AppActive, LineTypeOK, Idle
  <2>2. /\ State' \in [Lines -> LineState]
        /\ Total' \in [LineState -> 0 .. CountSpace - 1]
    BY <1>5, <2>1, SetStateType DEF AppActive, LineState
  <2> QED
    BY <1>5, <2>2 DEF AppActive, LineTypeOK, EventOf
<1> QED
  BY <1>2, <1>3, <1>4, <1>5 DEF Application, MakingCall


\* Where the work thread can be when it is not waiting.
LEMMA WorkIs ==
  ASSUME LineTypeOK, work.pc # "wait"
  PROVE  /\ work \in [pc : WorkPc, line : Lines, ev : EventOf]
         /\ work.line \in Lines /\ work.ev \in EventOf
         /\ work.ev.crn \in 0 .. MaxCalls
BY DEF LineTypeOK, Wait, WorkPc, EventOf

LEMMA WorkType == LineTypeOK /\ WorkThread => LineTypeOK'
<1> SUFFICES ASSUME LineTypeOK, WorkThread PROVE LineTypeOK'
  OBVIOUS
<1> USE DEF lineVars, boardVars
<1> DEFINE AtWork == [pc : WorkPc, line : Lines, ev : EventOf]
<1>0. LineTypeOK' <=>
        /\ State' \in [Lines -> LineState] /\ CallState' \in [Lines -> TCallState]
        /\ {m_crn', mine', crn'} \subseteq [Lines -> 0 .. MaxCalls]
        /\ Total' \in [LineState -> 0 .. CountSpace - 1]
        /\ app' \in {Idle} \union [pc : {"register", "active"}, line : Lines]
        /\ work' = Wait \/ work' \in AtWork
        /\ phase' \in [Lines -> Phase] /\ waiting' \in [Lines -> BOOLEAN]
        /\ calls' \in 0 .. MaxCalls /\ alarms' \in 0 .. MaxAlarms /\ blocked' \subseteq Lines
        /\ fatal' \in [Lines -> 0 .. MaxFatal]
        /\ events' \in [Lines -> Seq(EventOf)]
  BY DEF LineTypeOK, EventOf, WorkPc
<1>T. /\ State \in [Lines -> LineState] /\ CallState \in [Lines -> TCallState]
      /\ {m_crn, mine, crn} \subseteq [Lines -> 0 .. MaxCalls]
      /\ Total \in [LineState -> 0 .. CountSpace - 1]
      /\ app \in {Idle} \union [pc : {"register", "active"}, line : Lines]
      /\ work = Wait \/ work \in AtWork
      /\ phase \in [Lines -> Phase] /\ waiting \in [Lines -> BOOLEAN]
      /\ calls \in 0 .. MaxCalls /\ alarms \in 0 .. MaxAlarms /\ blocked \subseteq Lines
      /\ fatal \in [Lines -> 0 .. MaxFatal]
      /\ events \in [Lines -> Seq(EventOf)]
  BY DEF LineTypeOK, EventOf, WorkPc
<1>1. CASE \E l \in Lines : WorkTake(l)
  <2> PICK l \in Lines : WorkTake(l)
    BY <1>1
  <2>1. Head(events[l]) \in EventOf /\ Tail(events[l]) \in Seq(EventOf)
    BY <1>T DEF WorkTake
  <2>2. work' \in AtWork
    BY <2>1 DEF WorkTake, WorkPc
  <2>3. events' \in [Lines -> Seq(EventOf)]
    BY <1>T, <2>1 DEF WorkTake
  <2> QED
    BY <1>0, <1>T, <2>2, <2>3 DEF WorkTake, restVars
<1>2. CASE Handler
  <2>1. work.pc # "wait"
    BY <1>2 DEF Handler, WorkLock, WorkSeizure, WorkOffered, WorkCall, WorkHangup,
         WorkDropped, WorkReleased, WorkSwitch, WorkSetState, WorkAlarm, WorkFatal,
         WorkClosed, WorkReopen
  <2>2. work \in AtWork /\ work.line \in Lines /\ work.ev.crn \in 0 .. MaxCalls
    BY <2>1, WorkIs
  <2>3. CASE WorkLock
    BY <1>0, <1>T, <2>2, <2>3 DEF WorkLock, WorkPc
  <2>4. CASE WorkSeizure
    <3>1. CallState' \in [Lines -> TCallState] /\ mine' \in [Lines -> 0 .. MaxCalls]
      <4>1. "SEIZURE" \in TCallState /\ 0 \in 0 .. MaxCalls
        BY LineAssumption DEF TCallState
      <4> QED BY <1>T, <2>2, <2>4, <4>1 DEF WorkSeizure
    <3>2. work' = Wait \/ work' \in AtWork
      BY <2>2, <2>4 DEF WorkSeizure, WorkPc
    <3> QED
      BY <1>0, <1>T, <2>4, <3>1, <3>2 DEF WorkSeizure
  <2>5. CASE WorkOffered
    <3>1. Becomes("OFFERED") \in TCallState
      BY DEF Becomes, TCallState
    <3>2. m_crn' \in [Lines -> 0 .. MaxCalls]
      <4>1. m_crn' = [m_crn EXCEPT ![work.line] = work.ev.crn]
        BY <2>5 DEF WorkOffered
      <4> QED BY <1>T, <2>2, <4>1
    <3>3. CallState' \in [Lines -> TCallState]
      <4>1. \/ CallState' = [CallState EXCEPT ![work.line] = Becomes("OFFERED")]
            \/ CallState' = CallState
        BY <2>5 DEF WorkOffered
      <4> QED BY <1>T, <3>1, <4>1
    <3>4. mine' \in [Lines -> 0 .. MaxCalls]
      <4>1. mine' = [mine EXCEPT ![work.line] = work.ev.crn] \/ mine' = mine
        BY <2>5 DEF WorkOffered
      <4> QED BY <1>T, <2>2, <4>1
    <3> QED
      BY <1>0, <1>T, <2>5, <3>2, <3>3, <3>4 DEF WorkOffered
  <2>6. CASE WorkCall
    <3>1. Becomes(work.ev.type) \in TCallState
      BY <2>6 DEF WorkCall, Becomes, TCallState, OutboundEvent
    <3>2. CallState' \in [Lines -> TCallState]
      BY <1>T, <2>2, <2>6, <3>1 DEF WorkCall
    <3>3. work' = Wait \/ work' \in AtWork
      BY <2>2, <2>6 DEF WorkCall, WorkPc, EventOf, EventType
    <3> QED
      BY <1>0, <1>T, <2>6, <3>2, <3>3 DEF WorkCall
  <2>7. CASE WorkHangup
    <3>1. phase' \in [Lines -> Phase] /\ events' \in [Lines -> Seq(EventOf)]
      BY <2>2, <2>7, AsksType DEF WorkHangup, HangupCall, Phase, EventType
    <3> QED
      BY <1>0, <1>T, <2>7, <3>1 DEF WorkHangup, restVars
  <2>8. CASE WorkDropped
    <3>1. phase' \in [Lines -> Phase] /\ events' \in [Lines -> Seq(EventOf)]
      <4>1. CASE ReleaseCall(work.line)
        BY <2>2, <4>1, AsksType DEF ReleaseCall, Phase, EventType
      <4>2. CASE UNCHANGED <<phase, events>>
        BY <1>T, <4>2
      <4> QED
        BY <2>8, <4>1, <4>2 DEF WorkDropped
    <3>2. CallState' \in [Lines -> TCallState]
      <4>1. Becomes("DROPCALL") \in TCallState
        BY DEF Becomes, TCallState
      <4> QED BY <1>T, <2>2, <2>8, <4>1 DEF WorkDropped
    <3> QED
      BY <1>0, <1>T, <2>8, <3>1, <3>2 DEF WorkDropped, restVars
  <2>9. CASE WorkReleased
    <3>1. CallState' \in [Lines -> TCallState] /\ mine' \in [Lines -> 0 .. MaxCalls]
      <4>1. Becomes("RELEASECALL") \in TCallState /\ 0 \in 0 .. MaxCalls
        BY LineAssumption DEF Becomes, TCallState
      <4> QED BY <1>T, <2>2, <2>9, <4>1 DEF WorkReleased
    <3>2. work' \in AtWork
      BY <2>2, <2>9 DEF WorkReleased, WorkPc
    <3> QED
      BY <1>0, <1>T, <2>9, <3>1, <3>2 DEF WorkReleased
  <2>10. CASE WorkSwitch
    BY <1>0, <1>T, <2>2, <2>10 DEF WorkSwitch, WorkPc
  <2>11. CASE WorkSetState
    <3>1. State' \in [Lines -> LineState] /\ Total' \in [LineState -> 0 .. CountSpace - 1]
      BY <2>2, <2>11, SetStateType DEF WorkSetState, LineState
    <3> QED
      BY <1>0, <1>T, <2>11, <3>1 DEF WorkSetState
  <2>12. CASE WorkAlarm
    <3>1. State' \in [Lines -> LineState] /\ Total' \in [LineState -> 0 .. CountSpace - 1]
      <4>1. CASE UNCHANGED <<State, Total>>
        BY <1>T, <4>1
      <4>2. CASE \E s \in {"BLOCKING", "IDLE"} : SetState(work.line, s)
        BY <2>2, <4>2, SetStateType DEF LineState
      <4> QED
        BY <2>12, <4>1, <4>2 DEF WorkAlarm
    <3>2. waiting' \in [Lines -> BOOLEAN]
      BY <1>T, <2>2, <2>12 DEF WorkAlarm
    <3> QED
      BY <1>0, <1>T, <2>12, <3>1, <3>2 DEF WorkAlarm, restVars
  <2>13. CASE WorkFatal
    <3>1. phase' \in [Lines -> Phase] /\ events' \in [Lines -> Seq(EventOf)]
      BY <2>2, <2>13, SignalsType DEF WorkFatal, Phase, EventType
    <3>2. waiting' \in [Lines -> BOOLEAN]
      BY <1>T, <2>2, <2>13 DEF WorkFatal
    <3> QED
      BY <1>0, <1>T, <2>13, <3>1, <3>2 DEF WorkFatal, restVars
  <2>14. CASE WorkClosed
    <3>1. State' \in [Lines -> LineState] /\ Total' \in [LineState -> 0 .. CountSpace - 1]
      BY <2>2, <2>14, SetStateType DEF WorkClosed, LineState
    <3>2. work' \in AtWork
      BY <2>2, <2>14 DEF WorkClosed, WorkPc
    <3> QED
      BY <1>0, <1>T, <2>14, <3>1, <3>2 DEF WorkClosed
  <2>15. CASE WorkReopen
    <3>1. State' \in [Lines -> LineState] /\ Total' \in [LineState -> 0 .. CountSpace - 1]
      <4>1. CASE UNCHANGED <<State, Total>>
        BY <1>T, <4>1
      <4>2. CASE SetState(work.line, "UNINITIALIZED")
        BY <2>2, <4>2, SetStateType DEF LineState
      <4> QED
        BY <2>15, <4>1, <4>2 DEF WorkReopen
    <3>2. waiting' \in [Lines -> BOOLEAN]
      BY <1>T, <2>2, <2>15 DEF WorkReopen
    <3> QED
      BY <1>0, <1>T, <2>15, <3>1, <3>2 DEF WorkReopen, restVars
  <2> QED
    BY <1>2, <2>3, <2>4, <2>5, <2>6, <2>7, <2>8, <2>9, <2>10, <2>11, <2>12, <2>13,
       <2>14, <2>15 DEF Handler
<1> QED
  BY <1>1, <1>2 DEF WorkThread

LEMMA NextType == LineTypeOK /\ [TelNext]_telVars => LineTypeOK'
<1> SUFFICES ASSUME LineTypeOK, [TelNext]_telVars PROVE LineTypeOK'
  OBVIOUS
<1>1. CASE Board
  <2>1. PICK l \in Lines :
          /\ UNCHANGED <<lineVars, app, work>>
          /\ Detect(l) \/ Digit(l) \/ Progress(l) \/ FarEnds(l) \/ Alarm(l) \/ Fatal(l)
    BY <1>1 DEF Board
  <2> QED
    BY <2>1, BoardType
<1>2. CASE UNCHANGED telVars
  BY <1>2 DEF telVars, lineVars, boardVars, LineTypeOK
<1> QED
  BY <1>1, <1>2, ApplicationType, WorkType DEF TelNext

\* Every variable keeps its type: every counter of lines stays in its range
\* whatever it is counted up and down by.
THEOREM LineTypeCorrect == TelSpec => []LineTypeOK
<1>1. TelInit => LineTypeOK
  BY InitType
<1>2. LineTypeOK /\ [TelNext]_telVars => LineTypeOK'
  BY NextType
<1> QED
  BY <1>1, <1>2, PTL DEF TelSpec

-----------------------------------------------------------------------------
(* MakeCallMutex.                                                          *)

\* Nothing carries the number of a call that has not been made.
Numbered ==
  /\ \A l \in Lines : crn[l] <= calls
  /\ \A l \in Lines : \A i \in 1 .. Len(events[l]) : events[l][i].crn <= calls
  /\ work.ev.crn <= calls

\* Appending an event keeps a bound on the events' numbers.
LEMMA AppendBounded ==
  ASSUME NEW s \in Seq(EventOf), NEW e \in EventOf, NEW n \in Nat,
         \A i \in 1 .. Len(s) : s[i].crn <= n, e.crn <= n
  PROVE  \A i \in 1 .. Len(Append(s, e)) : Append(s, e)[i].crn <= n
<1>1. /\ Len(Append(s, e)) = Len(s) + 1
      /\ \A i \in 1 .. Len(s) : Append(s, e)[i] = s[i]
      /\ Append(s, e)[Len(s) + 1] = e
  OBVIOUS
<1> QED
  BY <1>1

\* The events that wait carry numbers of calls, bounded as Numbered says.
LEMMA EventNumber ==
  ASSUME LineTypeOK, Numbered, NEW l \in Lines, NEW i \in 1 .. Len(events[l])
  PROVE  events[l][i].crn \in Nat /\ events[l][i].crn <= calls
<1>1. events[l] \in Seq(EventOf)
  BY DEF LineTypeOK, EventOf
<1>2. events[l][i] \in EventOf
  BY <1>1
<1> QED
  BY <1>2 DEF EventOf, Numbered

LEMMA SignalsNumbered ==
  ASSUME LineTypeOK, Numbered, NEW l \in Lines, NEW p \in Phase, NEW type \in EventType,
         Signals(l, p, type), UNCHANGED <<crn, calls>>, work'.ev.crn <= calls
  PROVE  Numbered'
<1>1. /\ crn[l] <= calls /\ calls \in Nat
      /\ events \in [Lines -> Seq(EventOf)]
      /\ Event(type, crn[l]) \in EventOf /\ Event(type, crn[l]).crn = crn[l]
  <2>1. crn[l] \in 0 .. MaxCalls /\ calls \in Nat /\ crn[l] <= calls
    BY DEF LineTypeOK, Numbered
  <2>2. events \in [Lines -> Seq(EventOf)]
    BY DEF LineTypeOK, EventOf
  <2> QED
    BY <2>1, <2>2 DEF EventOf, Event
<1>2. events' = [events EXCEPT ![l] = Append(events[l], Event(type, crn[l]))]
  BY DEF Signals
<1>3. \A i \in 1 .. Len(events'[l]) : events'[l][i].crn <= calls
  BY <1>1, <1>2, AppendBounded DEF Numbered
<1>4. \A k \in Lines \ {l} : events'[k] = events[k]
  BY <1>1, <1>2
<1> QED
  BY <1>3, <1>4 DEF Numbered

LEMMA AsksNumbered ==
  ASSUME LineTypeOK, Numbered, NEW l \in Lines, NEW from, NEW p \in Phase,
         NEW type \in EventType, Asks(l, from, p, type), UNCHANGED <<crn, calls>>,
         work'.ev.crn <= calls
  PROVE  Numbered'
<1>1. CASE Signals(l, p, type)
  BY <1>1, SignalsNumbered
<1>2. CASE UNCHANGED <<phase, events>>
  BY <1>2 DEF Numbered
<1> QED
  BY <1>1, <1>2 DEF Asks

LEMMA NumberedStep ==
  LineTypeOK /\ Numbered /\ [TelNext]_telVars => Numbered'
<1> SUFFICES ASSUME LineTypeOK, Numbered, [TelNext]_telVars PROVE Numbered'
  OBVIOUS
<1> USE DEF lineVars, boardVars, restVars
<1>0. calls \in Nat /\ work.ev.crn <= calls /\ 0 <= calls
  BY DEF LineTypeOK, Numbered
<1>T. phase \in [Lines -> Phase] /\ events \in [Lines -> Seq(EventOf)]
  BY DEF LineTypeOK, EventOf
<1>1. CASE Board
  <2>1. PICK l \in Lines :
          /\ UNCHANGED <<lineVars, app, work>>
          /\ Detect(l) \/ Digit(l) \/ Progress(l) \/ FarEnds(l) \/ Alarm(l) \/ Fatal(l)
    BY <1>1 DEF Board
  <2>2. CASE Detect(l)
    <3>1. calls + 1 \in 0 .. MaxCalls /\ calls' = calls + 1
      BY <2>2, LineAssumption DEF Detect, LineTypeOK
    <3>2. Event("DETECTED", calls + 1) \in EventOf /\ Event("DETECTED", calls + 1).crn = calls + 1
      BY <3>1 DEF Event, EventOf, EventType
    <3>3. \A i \in 1 .. Len(events[l]) : events[l][i].crn <= calls + 1
      <4> TAKE i \in 1 .. Len(events[l])
      <4>1. events[l][i].crn \in Nat /\ events[l][i].crn <= calls
        BY EventNumber
      <4> QED BY <4>1, <1>0
    <3>4. \A i \in 1 .. Len(events'[l]) : events'[l][i].crn <= calls + 1
      BY <1>0, <1>T, <2>2, <3>2, <3>3, AppendBounded DEF Detect
    <3>5. \A k \in Lines \ {l} : \A i \in 1 .. Len(events'[k]) : events'[k][i].crn <= calls + 1
      <4> TAKE k \in Lines \ {l}
      <4>1. events'[k] = events[k]
        BY <1>T, <2>2 DEF Detect
      <4> TAKE i \in 1 .. Len(events'[k])
      <4>2. events[k][i].crn \in Nat /\ events[k][i].crn <= calls
        BY <4>1, EventNumber
      <4> QED BY <4>1, <4>2, <1>0
    <3>6. \A k \in Lines : crn'[k] <= calls + 1
      BY <1>0, <2>2 DEF Detect, Numbered, LineTypeOK
    <3>7. work'.ev.crn <= calls + 1
      <4>1. work.ev.crn \in Nat
        BY DEF LineTypeOK, Wait, NoEvent, Event
      <4> QED BY <1>0, <2>1, <4>1
    <3> QED
      BY <3>1, <3>4, <3>5, <3>6, <3>7 DEF Numbered
  <2>3. CASE \E p \in Phase, type \in EventType :
               Signals(l, p, type) /\ UNCHANGED <<crn, calls>>
    BY <1>0, <2>1, <2>3, SignalsNumbered
  <2>4. CASE ~ Detect(l)
    <3>1. UNCHANGED <<crn, calls>>
      BY <2>1, <2>4 DEF Digit, Progress, FarEnds, Alarm, Fatal
    <3>2. phase[l] \in Phase
      BY <1>T
    <3>3. \E p \in Phase, type \in EventType : Signals(l, p, type)
      <4>1. CASE Digit(l)
        BY <4>1 DEF Digit, Phase, EventType
      <4>2. CASE Progress(l)
        <5>1. PICK j \in 1 .. 5 : j > 1 /\ Signals(l, Outgoing[j], Outgoing[j])
          BY <4>2 DEF Progress
        <5>2. Outgoing[j] \in Phase /\ Outgoing[j] \in EventType
          BY <5>1 DEF Phase, EventType, Outgoing
        <5> QED BY <5>1, <5>2
      <4>3. CASE FarEnds(l)
        BY <4>3 DEF FarEnds, Phase, EventType
      <4>4. CASE Alarm(l)
        BY <3>2, <4>4 DEF Alarm, EventType
      <4>5. CASE Fatal(l)
        BY <3>2, <4>5 DEF Fatal, EventType
      <4> QED
        BY <2>1, <2>4, <4>1, <4>2, <4>3, <4>4, <4>5
    <3> QED
      BY <2>3, <3>1, <3>3
  <2> QED
    BY <2>2, <2>4
<1>2. CASE \E l \in Lines : AppAsks(l)
  <2> PICK l \in Lines : AppAsks(l)
    BY <1>2
  <2> QED
    BY <1>0, AsksNumbered DEF AppAsks, AcceptCall, AnswerCall, HangupCall, Phase, EventType, Outgoing
<1>3. CASE \E l \in Lines : AppMakeCall(l)
  <2> PICK l \in Lines : AppMakeCall(l)
    BY <1>3
  <2>1. calls' = calls + 1 /\ events' = events /\ work' = work
    BY DEF AppMakeCall
  <2>2. \A k \in Lines : \A i \in 1 .. Len(events[k]) : events[k][i].crn <= calls + 1
    <3> TAKE k \in Lines
    <3> TAKE i \in 1 .. Len(events[k])
    <3>1. events[k][i].crn \in Nat /\ events[k][i].crn <= calls
      BY EventNumber
    <3> QED BY <3>1, <1>0
  <2>3. \A k \in Lines : crn'[k] <= calls + 1
    BY <1>0 DEF AppMakeCall, Numbered, LineTypeOK
  <2>4. work.ev.crn \in Nat
    BY DEF LineTypeOK, Wait, NoEvent, Event
  <2> QED
    BY <1>0, <2>1, <2>2, <2>3, <2>4 DEF Numbered
<1>4. CASE MakingCall
  BY <1>4 DEF MakingCall, AppRegister, AppActive, Numbered
<1>5. CASE \E l \in Lines : WorkTake(l)
  <2> PICK l \in Lines : WorkTake(l)
    BY <1>5
  <2>1. events[l] \in Seq(EventOf) /\ events[l] # <<>>
    BY <1>T DEF WorkTake
  <2>2. work'.ev.crn <= calls
    BY <2>1 DEF WorkTake, Numbered
  <2>3. \A i \in 1 .. Len(Tail(events[l])) : Tail(events[l])[i] = events[l][i + 1]
    BY <2>1
  <2>4. \A i \in 1 .. Len(Tail(events[l])) : Tail(events[l])[i].crn <= calls
    BY <2>1, <2>3 DEF Numbered
  <2>5. /\ events'[l] = Tail(events[l]) /\ UNCHANGED <<crn, calls>>
        /\ \A k \in Lines \ {l} : events'[k] = events[k]
    BY <1>T DEF WorkTake
  <2> QED
    BY <2>2, <2>4, <2>5 DEF Numbered
<1>6. CASE Handler
  <2>1. work.pc # "wait"
    BY <1>6 DEF Handler, WorkLock, WorkSeizure, WorkOffered, WorkCall, WorkHangup,
         WorkDropped, WorkReleased, WorkSwitch, WorkSetState, WorkAlarm, WorkFatal,
         WorkClosed, WorkReopen
  <2>2. work.line \in Lines /\ work \in [pc : WorkPc, line : Lines, ev : EventOf]
    BY <2>1, WorkIs
  <2>3. work'.ev.crn <= calls
    <3>1. CASE work' = Wait
      BY <1>0, <3>1 DEF Wait, NoEvent, Event
    <3>2. CASE work'.ev.crn = work.ev.crn
      BY <1>0, <3>2
    <3>3. work' = Wait \/ work'.ev.crn = work.ev.crn
      <4>1. CASE WorkCall
        BY <2>2, <4>1 DEF WorkCall, EventOf
      <4> QED
        BY <1>6, <2>2, <4>1 DEF Handler, WorkLock, WorkSeizure, WorkOffered, WorkHangup,
           WorkDropped, WorkReleased, WorkSwitch, WorkSetState, WorkAlarm, WorkFatal,
           WorkClosed, WorkReopen
    <3> QED
      BY <3>1, <3>2, <3>3
  <2>4. UNCHANGED <<crn, calls>>
    BY <1>6 DEF Handler, WorkLock, WorkSeizure, WorkOffered, WorkCall, WorkHangup,
         WorkDropped, WorkReleased, WorkSwitch, WorkSetState, WorkAlarm, WorkFatal,
         WorkClosed, WorkReopen
  <2>5. CASE UNCHANGED events
    BY <2>3, <2>4, <2>5 DEF Numbered
  <2>6. CASE HangupCall(work.line)
    BY <2>2, <2>3, <2>4, <2>6, AsksNumbered DEF HangupCall, Phase, EventType
  <2>7. CASE ReleaseCall(work.line)
    BY <2>2, <2>3, <2>4, <2>7, AsksNumbered DEF ReleaseCall, Phase, EventType
  <2>8. CASE Signals(work.line, "null", "RESETLINEDEV")
    BY <2>2, <2>3, <2>4, <2>8, SignalsNumbered DEF Phase, EventType
  <2> QED
    BY <1>6, <2>5, <2>6, <2>7, <2>8 DEF Handler, WorkLock, WorkSeizure, WorkOffered, WorkCall,
         WorkHangup, WorkDropped, WorkReleased, WorkSwitch, WorkSetState, WorkAlarm, WorkFatal,
         WorkClosed, WorkReopen
<1>7. CASE UNCHANGED telVars
  BY <1>7 DEF telVars, Numbered
<1> QED
  BY <1>1, <1>2, <1>3, <1>4, <1>5, <1>6, <1>7 DEF TelNext, Application, WorkThread

LEMMA OutboundHeardStep ==
  LineTypeOK /\ Numbered /\ OutboundHeard /\ [TelNext]_telVars => OutboundHeard'
<1> SUFFICES ASSUME LineTypeOK, Numbered, OutboundHeard, [TelNext]_telVars
             PROVE  OutboundHeard'
  OBVIOUS
<1>1. CASE \E l \in Lines : AppMakeCall(l)
  <2> PICK l \in Lines : AppMakeCall(l)
    BY <1>1
  <2>1. m_crn'[l] = calls + 1 /\ app'.line = l /\ work' = work
    BY DEF AppMakeCall, LineTypeOK
  <2>2. work.ev.crn <= calls /\ work.ev.crn \in Nat /\ calls \in Nat
    BY DEF Numbered, LineTypeOK, Wait, NoEvent, Event
  <2> QED
    BY <2>1, <2>2 DEF OutboundHeard
<1>2. CASE \E l \in Lines : WorkTake(l)
  BY <1>2 DEF WorkTake, Locks, OutboundHeard
<1>3. CASE WorkLock
  BY <1>3 DEF WorkLock, Held, OutboundHeard
<1>4. CASE Handler /\ ~ WorkLock
  <2>1. work'.pc # "handle"
    <3>1. CASE work' = Wait
      BY <3>1 DEF Wait
    <3>2. CASE work' # Wait
      <4>1. work.pc # "wait"
        BY <1>4 DEF Handler, WorkLock, WorkSeizure, WorkOffered, WorkCall, WorkHangup,
             WorkDropped, WorkReleased, WorkSwitch, WorkSetState, WorkAlarm, WorkFatal,
             WorkClosed, WorkReopen
      <4>2. work \in [pc : WorkPc, line : Lines, ev : EventOf]
        BY <4>1, WorkIs
      <4> QED
        BY <1>4, <3>2, <4>2 DEF Handler, WorkSeizure, WorkOffered, WorkCall, WorkHangup,
             WorkDropped, WorkReleased, WorkSwitch, WorkSetState, WorkAlarm, WorkFatal,
             WorkClosed, WorkReopen
    <3> QED
      BY <3>1, <3>2
  <2> QED
    BY <2>1 DEF OutboundHeard
<1>5. CASE MakingCall
  <2>1. app'.pc # "register"
    BY <1>5 DEF MakingCall, AppRegister, AppActive, Idle, LineTypeOK
  <2> QED
    BY <2>1 DEF OutboundHeard
<1>6. CASE UNCHANGED <<app, work, m_crn>>
  BY <1>6 DEF OutboundHeard
<1> QED
  BY <1>1, <1>2, <1>3, <1>4, <1>5, <1>6 DEF TelNext, Application, WorkThread, Board,
     AppAsks, telVars, lineVars

\* For any number of lines and calls, no event of an outgoing call is acted on
\* before makeCall has registered the call: what the lock and unlock at the
\* beginning of the handlers is for.
THEOREM NoEventBeforeItsCall == TelSpec => []OutboundHeard
<1>1. TelInit => Numbered /\ OutboundHeard
  BY DEF TelInit, Numbered, OutboundHeard, Idle, Wait, NoEvent, Event
<1>2. LineTypeOK /\ (Numbered /\ OutboundHeard) /\ [TelNext]_telVars
        => (Numbered /\ OutboundHeard)'
  BY NumberedStep, OutboundHeardStep
<1> QED
  BY <1>1, <1>2, LineTypeCorrect, PTL DEF TelSpec

-----------------------------------------------------------------------------
(* No line stays active without a call.                                    *)

At(l, i, type) == i \in 1 .. Len(events[l]) /\ events[l][i].type = type
InHand(l, type) ==
  work.pc \in {"lock", "handle"} /\ work.line = l /\ work.ev.type = type

\* On a line that is never reset, the call that has been dropped is the last
\* one to be dropped or released, and a release that is still to be reported is
\* that of the call in CallState.
NoFatal(l) ==
  ~ InHand(l, "FATALERROR") /\ \A i : ~ At(l, i, "FATALERROR")
DropIsOfDropped(l) ==
  /\ InHand(l, "DROPCALL") => phase[l] = "dropped"
  /\ \A i : At(l, i, "DROPCALL") => phase[l] = "dropped" /\ ~ InHand(l, "DROPCALL")
DropIsLast(l) ==
  \A i, j : At(l, i, "DROPCALL") /\ j > i =>
    ~ At(l, j, "DROPCALL") /\ ~ At(l, j, "RELEASECALL")
DropInHandIsLast(l) ==
  InHand(l, "DROPCALL") => \A j : ~ At(l, j, "RELEASECALL")
ReleaseIsOfCall(l) ==
  /\ InHand(l, "RELEASECALL") => CallState[l] # "INVALID"
  /\ \A i : At(l, i, "RELEASECALL") =>
       CallState[l] # "INVALID" /\ ~ InHand(l, "RELEASECALL")
ReleaseIsLast(l) ==
  \A i, j : At(l, i, "RELEASECALL") /\ j > i => ~ At(l, j, "RELEASECALL")

TeardownOf(l) ==
  /\ NoFatal(l) /\ DropIsOfDropped(l) /\ DropIsLast(l) /\ DropInHandIsLast(l)
  /\ ReleaseIsOfCall(l) /\ ReleaseIsLast(l)

Teardown == \A l \in Lines : fatal[l] = 0 => TeardownOf(l)

\* Whoever is about to count a line as active has a call for it.
ActivatedOf(l) ==
  /\ app.pc = "active" /\ app.line = l =>
       /\ CallState[l] # "INVALID"
       /\ ~ (work.pc = "handle" /\ work.line = l /\ work.ev.type = "RELEASECALL")
  /\ work.pc = "toActive" /\ work.line = l => CallState[l] # "INVALID"

Activated == \A l \in Lines : fatal[l] = 0 => ActivatedOf(l)


Ends == {"DROPCALL", "RELEASECALL", "FATALERROR"}

\* The work thread takes up no event about which Teardown says something, and
\* neither the board's call nor CallState leaves what Teardown says of them.
Quiet(l) ==
  /\ \A type \in Ends : InHand(l, type)' => InHand(l, type)
  /\ phase[l] = "dropped" => phase'[l] = "dropped"
  /\ CallState[l] # "INVALID" => CallState'[l] # "INVALID"

LEMMA QuietKeeps ==
  ASSUME NEW l \in Lines, TeardownOf(l), Quiet(l), events'[l] = events[l]
  PROVE  TeardownOf(l)'
<1>1. \A i, type : At(l, i, type)' <=> At(l, i, type)
  BY DEF At
<1> QED
  BY <1>1 DEF TeardownOf, NoFatal, DropIsOfDropped, DropIsLast,
     DropInHandIsLast, ReleaseIsOfCall, ReleaseIsLast, Quiet, Ends

\* Where the events are after one has been appended.
LEMMA AtAppend ==
  ASSUME LineTypeOK, NEW l \in Lines, NEW type \in EventType, NEW c \in 0 .. MaxCalls,
         events'[l] = Append(events[l], Event(type, c))
  PROVE  /\ \A i, t : At(l, i, t)' <=> At(l, i, t) \/ (i = Len(events[l]) + 1 /\ t = type)
         /\ \A i, t : At(l, i, t) => i \in Nat /\ i < Len(events[l]) + 1
         /\ Len(events[l]) + 1 \in Nat
<1>1. events[l] \in Seq(EventOf) /\ Event(type, c) \in EventOf
  BY DEF LineTypeOK, EventOf, Event
<1>2. /\ Len(events[l]) \in Nat /\ Len(events'[l]) = Len(events[l]) + 1
      /\ \A i \in 1 .. Len(events[l]) : events'[l][i] = events[l][i]
      /\ events'[l][Len(events[l]) + 1] = Event(type, c)
  BY <1>1
<1>3. Event(type, c).type = type
  BY DEF Event
<1>4. \A i : i \in 1 .. Len(events'[l]) <=>
              i \in 1 .. Len(events[l]) \/ i = Len(events[l]) + 1
  BY <1>2
<1>5. Len(events[l]) + 1 \notin 1 .. Len(events[l])
  BY <1>2
<1>6. \A i, t : At(l, i, t)' <=> At(l, i, t) \/ (i = Len(events[l]) + 1 /\ t = type)
  BY <1>2, <1>3, <1>4, <1>5 DEF At
<1>7. \A i, t : At(l, i, t) => i \in Nat /\ i < Len(events[l]) + 1
  BY <1>2 DEF At
<1> QED
  BY <1>2, <1>6, <1>7

LEMMA QuietSignal ==
  ASSUME LineTypeOK, NEW l \in Lines, NEW type \in EventType \ Ends,
         NEW c \in 0 .. MaxCalls,
         events'[l] = Append(events[l], Event(type, c)), TeardownOf(l), Quiet(l)
  PROVE  TeardownOf(l)'
<1>1. \A i, t : At(l, i, t)' <=> At(l, i, t) \/ (i = Len(events[l]) + 1 /\ t = type)
  BY AtAppend
<1>2. \A i, t : t \in Ends => (At(l, i, t)' <=> At(l, i, t))
  BY <1>1
<1> QED
  BY <1>2 DEF TeardownOf, NoFatal, DropIsOfDropped, DropIsLast,
     DropInHandIsLast, ReleaseIsOfCall, ReleaseIsLast, Quiet, Ends

\* The board takes hangupCall.
LEMMA HangupKeeps ==
  ASSUME LineTypeOK, NEW l \in Lines, TeardownOf(l), Quiet(l),
         phase[l] # "dropped", Signals(l, "dropped", "DROPCALL")
  PROVE  TeardownOf(l)'
<1>1. events'[l] = Append(events[l], Event("DROPCALL", crn[l])) /\ crn[l] \in 0 .. MaxCalls
  BY DEF Signals, LineTypeOK
<1> DEFINE n == Len(events[l]) + 1
<1>2. /\ \A i, t : At(l, i, t)' <=> At(l, i, t) \/ (i = n /\ t = "DROPCALL")
      /\ \A i, t : At(l, i, t) => i \in Nat /\ i < n
      /\ n \in Nat
  BY <1>1, AtAppend DEF EventType
<1>3. phase'[l] = "dropped"
  BY DEF Signals, LineTypeOK
<1>4. ~ InHand(l, "DROPCALL") /\ \A i : ~ At(l, i, "DROPCALL")
  BY DEF TeardownOf, DropIsOfDropped
<1> HIDE DEF n
<1>5. \A i : At(l, i, "DROPCALL")' <=> i = n
  BY <1>2, <1>4
<1>6. \A i : /\ At(l, i, "RELEASECALL")' <=> At(l, i, "RELEASECALL")
             /\ At(l, i, "FATALERROR")' <=> At(l, i, "FATALERROR")
  BY <1>2
<1>7. NoFatal(l)' /\ ReleaseIsOfCall(l)' /\ ReleaseIsLast(l)'
  BY <1>6 DEF TeardownOf, NoFatal, ReleaseIsOfCall, ReleaseIsLast, Quiet, Ends
<1>8. DropIsOfDropped(l)' /\ DropInHandIsLast(l)'
  BY <1>3, <1>4, <1>5 DEF DropIsOfDropped, DropInHandIsLast, Quiet, Ends
<1>9. DropIsLast(l)'
  <2>1. \A j : j > n => j # n /\ ~ At(l, j, "RELEASECALL")
    <3> SUFFICES ASSUME NEW j, j > n PROVE j # n /\ ~ At(l, j, "RELEASECALL")
      OBVIOUS
    <3>1. At(l, j, "RELEASECALL") => j \in Nat /\ j < n
      BY <1>2
    <3> QED
      BY <1>2, <3>1
  <2> QED
    BY <1>5, <1>6, <2>1 DEF DropIsLast
<1> QED
  BY <1>7, <1>8, <1>9 DEF TeardownOf

\* OnDisconnected releases the call.
LEMMA ReleaseKeeps ==
  ASSUME LineTypeOK, NEW l \in Lines, TeardownOf(l), InHand(l, "DROPCALL"),
         \A type \in Ends : ~ InHand(l, type)', CallState'[l] # "INVALID",
         Signals(l, "null", "RELEASECALL")
  PROVE  TeardownOf(l)'
<1>1. events'[l] = Append(events[l], Event("RELEASECALL", crn[l])) /\ crn[l] \in 0 .. MaxCalls
  BY DEF Signals, LineTypeOK
<1> DEFINE n == Len(events[l]) + 1
<1>2. /\ \A i, t : At(l, i, t)' <=> At(l, i, t) \/ (i = n /\ t = "RELEASECALL")
      /\ n \in Nat
  BY <1>1, AtAppend DEF EventType
<1> HIDE DEF n
<1>3. \A i, t : t \in Ends => ~ At(l, i, t)
  BY DEF TeardownOf, NoFatal, DropIsOfDropped, DropInHandIsLast, Ends
<1>4. \A i : /\ At(l, i, "RELEASECALL")' <=> i = n
             /\ ~ At(l, i, "DROPCALL")' /\ ~ At(l, i, "FATALERROR")'
  BY <1>2, <1>3 DEF Ends
<1>5. \A j : j > n => j # n
  BY <1>2
<1> QED
  BY <1>4, <1>5 DEF TeardownOf, NoFatal, DropIsOfDropped, DropIsLast,
     DropInHandIsLast, ReleaseIsOfCall, ReleaseIsLast, Ends

\* The work thread takes the first event.
LEMMA TakeKeeps ==
  ASSUME LineTypeOK, NEW l \in Lines, WorkTake(l), TeardownOf(l)
  PROVE  TeardownOf(l)'
<1> DEFINE q == events[l]
<1>1. q \in Seq(EventOf) /\ q # <<>> /\ events'[l] = Tail(q)
  BY DEF WorkTake, LineTypeOK, EventOf
<1>2. /\ Len(q) \in Nat \ {0} /\ Len(events'[l]) = Len(q) - 1
      /\ \A i \in 1 .. Len(events'[l]) : events'[l][i] = q[i + 1]
      /\ Head(q) = q[1]
  BY <1>1
<1>3. \A i, t : At(l, i, t)' => i \in Nat /\ i > 0 /\ i + 1 > 1 /\ At(l, i + 1, t)
  <2> SUFFICES ASSUME NEW i, NEW t, At(l, i, t)'
               PROVE  i \in Nat /\ i > 0 /\ i + 1 > 1 /\ At(l, i + 1, t)
    OBVIOUS
  <2>1. i \in 1 .. Len(events'[l]) /\ events'[l][i].type = t
    BY DEF At
  <2>2. i \in Nat /\ i > 0 /\ i + 1 \in 1 .. Len(q) /\ q[i + 1].type = t
    BY <1>2, <2>1
  <2> QED
    BY <2>2 DEF At
<1>4. \A t : InHand(l, t)' => At(l, 1, t)
  BY <1>2 DEF WorkTake, InHand, At
<1>5. phase'[l] = phase[l] /\ CallState'[l] = CallState[l]
  BY DEF WorkTake, lineVars
<1> HIDE DEF q
<1>6. NoFatal(l)'
  BY <1>3, <1>4 DEF TeardownOf, NoFatal
<1>7. DropIsOfDropped(l)' /\ ReleaseIsOfCall(l)'
  BY <1>3, <1>4, <1>5 DEF TeardownOf, DropIsOfDropped, DropIsLast, ReleaseIsOfCall, ReleaseIsLast
<1>8. DropInHandIsLast(l)'
  BY <1>3, <1>4 DEF TeardownOf, DropIsLast, DropInHandIsLast
<1>9. \A i, j, t, u : At(l, i, t)' /\ At(l, j, u)' /\ j > i =>
        At(l, i + 1, t) /\ At(l, j + 1, u) /\ j + 1 > i + 1
  <2> SUFFICES ASSUME NEW i, NEW j, NEW t, NEW u, At(l, i, t)', At(l, j, u)', j > i
               PROVE  At(l, i + 1, t) /\ At(l, j + 1, u) /\ j + 1 > i + 1
    OBVIOUS
  <2>1. i \in Nat /\ j \in Nat /\ At(l, i + 1, t) /\ At(l, j + 1, u)
    BY <1>3
  <2> QED
    BY <2>1
<1>10. DropIsLast(l)' /\ ReleaseIsLast(l)'
  BY <1>9 DEF TeardownOf, DropIsLast, ReleaseIsLast
<1> QED
  BY <1>6, <1>7, <1>8, <1>10 DEF TeardownOf


\* One step of the board, of the application and of the work thread, as one
\* line sees it.
LEMMA BoardTeardown ==
  ASSUME LineTypeOK, NEW l \in Lines, UNCHANGED <<lineVars, app, work>>,
         Detect(l) \/ Digit(l) \/ Progress(l) \/ FarEnds(l) \/ Alarm(l),
         TeardownOf(l)
  PROVE  TeardownOf(l)'
<1> USE DEF lineVars
<1>0. \A t : InHand(l, t)' <=> InHand(l, t)
  BY DEF InHand
<1>T. phase \in [Lines -> Phase] /\ events \in [Lines -> Seq(EventOf)]
      /\ crn[l] \in 0 .. MaxCalls /\ calls \in 0 .. MaxCalls
  BY DEF LineTypeOK, EventOf
<1>1. CASE \E p \in Phase, type \in EventType \ Ends :
             Signals(l, p, type) /\ (phase[l] = "dropped" => p = "dropped")
  <2> PICK p \in Phase, type \in EventType \ Ends :
             Signals(l, p, type) /\ (phase[l] = "dropped" => p = "dropped")
    BY <1>1
  <2>1. Quiet(l)
    BY <1>0, <1>T DEF Quiet, Signals
  <2>2. events'[l] = Append(events[l], Event(type, crn[l]))
    BY <1>T DEF Signals
  <2> QED
    BY <1>T, <2>1, <2>2, QuietSignal
<1>2. CASE Detect(l)
  <2>1. Quiet(l)
    BY <1>0, <1>2 DEF Quiet, Detect
  <2>2. events'[l] = Append(events[l], Event("DETECTED", calls + 1))
    BY <1>2, <1>T DEF Detect
  <2>3. calls + 1 \in 0 .. MaxCalls
    BY <1>2, <1>T, LineAssumption DEF Detect
  <2> QED
    BY <2>1, <2>2, <2>3, QuietSignal DEF EventType, Ends
<1>3. CASE Digit(l)
  BY <1>1, <1>3 DEF Digit, Phase, EventType, Ends
<1>4. CASE Progress(l)
  <2>1. PICK i, j \in 1 .. 5 :
          i < j /\ phase[l] = Outgoing[i] /\ Signals(l, Outgoing[j], Outgoing[j])
    BY <1>4 DEF Progress
  <2>2. phase[l] # "dropped" /\ Outgoing[j] \in Phase /\ Outgoing[j] \in EventType \ Ends
    BY <2>1 DEF Phase, EventType, Outgoing, Ends
  <2> QED
    BY <1>1, <2>1, <2>2
<1>5. CASE FarEnds(l)
  BY <1>1, <1>5 DEF FarEnds, Phase, EventType, Ends
<1>6. CASE Alarm(l)
  <2>1. phase[l] \in Phase
    BY <1>T
  <2> QED
    BY <1>1, <1>6, <2>1 DEF Alarm, EventType, Ends
<1> QED
  BY <1>2, <1>3, <1>4, <1>5, <1>6

\* A call of the library about m_crn that the board may refuse.
LEMMA HangupTeardown ==
  ASSUME LineTypeOK, NEW l \in Lines, HangupCall(l), TeardownOf(l),
         CallState[l] # "INVALID" => CallState'[l] # "INVALID",
         \A t \in Ends : InHand(l, t)' => InHand(l, t)
  PROVE  TeardownOf(l)'
<1>1. CASE UNCHANGED <<phase, events>>
  BY <1>1, QuietKeeps DEF Quiet
<1>2. CASE phase[l] # "dropped" /\ Signals(l, "dropped", "DROPCALL")
  BY <1>2, HangupKeeps DEF Quiet
<1> QED
  BY <1>1, <1>2 DEF HangupCall, Asks

LEMMA ApplicationTeardown ==
  ASSUME LineTypeOK, Application, NEW k \in Lines, TeardownOf(k)
  PROVE  TeardownOf(k)'
<1> USE DEF lineVars, boardVars
<1>0. work' = work
  BY DEF Application, MakingCall, AppAsks, AppMakeCall, AppRegister, AppActive
<1>1. \A t : InHand(k, t)' <=> InHand(k, t)
  BY <1>0 DEF InHand
<1>T. phase \in [Lines -> Phase] /\ events \in [Lines -> Seq(EventOf)]
      /\ CallState \in [Lines -> TCallState] /\ crn[k] \in 0 .. MaxCalls
  BY DEF LineTypeOK, EventOf
<1>2. CASE \E l \in Lines : AppAsks(l)
  <2> PICK l \in Lines : AppAsks(l)
    BY <1>2
  <2>0. CallState' = CallState
    BY DEF AppAsks
  <2>1. CASE k # l \/ UNCHANGED <<phase, events>>
    <3>1. phase'[k] = phase[k] /\ events'[k] = events[k]
      BY <1>T, <2>1 DEF AppAsks, AcceptCall, AnswerCall, HangupCall, Asks, Signals
    <3> QED
      BY <1>1, <2>0, <3>1, QuietKeeps DEF Quiet
  <2>2. CASE k = l /\ HangupCall(l)
    BY <1>1, <2>0, <2>2, HangupTeardown
  <2>3. CASE k = l /\ phase[l] # "dropped"
               /\ \E type \in {"ACCEPT", "ANSWERED"}, p \in Phase : Signals(l, p, type)
    <3> PICK type \in {"ACCEPT", "ANSWERED"}, p \in Phase : Signals(l, p, type)
      BY <2>3
    <3>1. type \in EventType \ Ends
      BY DEF EventType, Ends
    <3>2. events'[k] = Append(events[k], Event(type, crn[k]))
      BY <1>T, <2>3 DEF Signals
    <3>3. Quiet(k)
      BY <1>1, <2>0, <2>3 DEF Quiet
    <3> QED
      BY <1>T, <3>1, <3>2, <3>3, QuietSignal
  <2> QED
    BY <2>1, <2>2, <2>3 DEF AppAsks, AcceptCall, AnswerCall, Asks, Phase, Outgoing
<1>3. CASE \E l \in Lines : AppMakeCall(l)
  <2> PICK l \in Lines : AppMakeCall(l)
    BY <1>3
  <2>1. events' = events /\ CallState' = CallState
    BY DEF AppMakeCall
  <2>2. phase[k] = "dropped" => phase'[k] = "dropped"
    BY <1>T DEF AppMakeCall
  <2> QED
    BY <1>1, <2>1, <2>2, QuietKeeps DEF Quiet
<1>4. CASE MakingCall
  <2>1. events' = events /\ phase' = phase
    BY <1>4 DEF MakingCall, AppRegister, AppActive
  <2>2. CallState[k] # "INVALID" => CallState'[k] # "INVALID"
    BY <1>4, <1>T DEF MakingCall, AppRegister, AppActive
  <2> QED
    BY <1>1, <2>1, <2>2, QuietKeeps DEF Quiet
<1> QED
  BY <1>2, <1>3, <1>4 DEF Application


\* After a handler is done, or has come to setCallState's second half, the work
\* thread holds no event.
LEMMA HandlerHand ==
  ASSUME LineTypeOK, Handler
  PROVE  /\ work.pc # "wait"
         /\ work \in [pc : WorkPc, line : Lines, ev : EventOf]
         /\ \A k, t : t \in Ends /\ InHand(k, t)' => WorkLock /\ InHand(k, t)
<1>1. work.pc # "wait"
  BY DEF Handler, WorkLock, WorkSeizure, WorkOffered, WorkCall, WorkHangup,
     WorkDropped, WorkReleased, WorkSwitch, WorkSetState, WorkAlarm, WorkFatal,
     WorkClosed, WorkReopen
<1>2. work \in [pc : WorkPc, line : Lines, ev : EventOf]
  BY <1>1, WorkIs
<1>3. ASSUME NEW k, NEW t \in Ends, InHand(k, t)' PROVE WorkLock /\ InHand(k, t)
  <2>1. CASE WorkLock
    BY <1>2, <1>3, <2>1 DEF WorkLock, InHand
  <2>2. CASE work' = Wait
    BY <1>3, <2>2 DEF InHand, Wait
  <2>3. CASE WorkCall
    BY <1>2, <1>3, <2>2, <2>3 DEF WorkCall, InHand, Ends, EventOf
  <2>4. CASE work'.pc \in {"toActive", "toIdle", "switch", "reopen"}
    BY <1>3, <2>4 DEF InHand
  <2> QED
    BY <1>2, <2>1, <2>2, <2>3, <2>4 DEF Handler, WorkSeizure, WorkOffered, WorkHangup,
       WorkDropped, WorkReleased, WorkSwitch, WorkSetState, WorkAlarm, WorkFatal,
       WorkClosed, WorkReopen
<1> QED
  BY <1>1, <1>2, <1>3

LEMMA HandlerTeardown ==
  ASSUME LineTypeOK, Handler, NEW k \in Lines, TeardownOf(k)
  PROVE  TeardownOf(k)'
<1> USE DEF lineVars, boardVars
<1>1. /\ work \in [pc : WorkPc, line : Lines, ev : EventOf] /\ work.line \in Lines
      /\ \A t : t \in Ends /\ InHand(k, t)' => WorkLock /\ InHand(k, t)
  BY HandlerHand
<1>T. phase \in [Lines -> Phase] /\ events \in [Lines -> Seq(EventOf)]
      /\ CallState \in [Lines -> TCallState] /\ crn \in [Lines -> 0 .. MaxCalls]
  BY DEF LineTypeOK, EventOf
<1>2. CASE UNCHANGED <<phase, events>>
           /\ (CallState[k] # "INVALID" => CallState'[k] # "INVALID")
  BY <1>1, <1>2, QuietKeeps DEF Quiet
<1>3. CASE WorkLock \/ WorkSwitch \/ WorkSetState \/ WorkAlarm \/ WorkClosed \/ WorkReopen
  <2>1. UNCHANGED <<phase, events, CallState>>
    BY <1>3 DEF WorkLock, WorkSwitch, WorkSetState, WorkAlarm, WorkClosed, WorkReopen
  <2> QED
    BY <1>2, <2>1
<1>4. CASE WorkSeizure
  <2>1. CallState[k] # "INVALID" => CallState'[k] # "INVALID"
    BY <1>4, <1>T, <1>1 DEF WorkSeizure
  <2> QED
    BY <1>2, <1>4, <2>1 DEF WorkSeizure
<1>5. CASE WorkOffered
  <2>1. CallState[k] # "INVALID" => CallState'[k] # "INVALID"
    BY <1>5, <1>T, <1>1 DEF WorkOffered, Becomes
  <2> QED
    BY <1>2, <1>5, <2>1 DEF WorkOffered
<1>6. CASE WorkCall
  <2>1. Becomes(work.ev.type) # "INVALID"
    BY <1>6 DEF WorkCall, Becomes, OutboundEvent
  <2>2. CallState[k] # "INVALID" => CallState'[k] # "INVALID"
    BY <1>6, <1>T, <1>1, <2>1 DEF WorkCall
  <2> QED
    BY <1>2, <1>6, <2>2 DEF WorkCall
<1>7. CASE WorkHangup
  <2>1. CASE k = work.line
    BY <1>1, <1>7, <2>1, HangupTeardown DEF WorkHangup
  <2>2. CASE k # work.line
    <3>1. phase'[k] = phase[k] /\ events'[k] = events[k] /\ CallState' = CallState
      BY <1>7, <1>T, <1>1, <2>2 DEF WorkHangup, HangupCall, Asks, Signals
    <3> QED
      BY <1>1, <3>1, QuietKeeps DEF Quiet
  <2> QED
    BY <2>1, <2>2
<1>8. CASE WorkDropped
  <2>0. Becomes("DROPCALL") # "INVALID"
    BY DEF Becomes
  <2>1. CallState[k] # "INVALID" => CallState'[k] # "INVALID"
    BY <1>8, <1>T, <1>1, <2>0 DEF WorkDropped
  <2>2. CASE k # work.line
    <3>1. phase'[k] = phase[k] /\ events'[k] = events[k]
      BY <1>8, <1>T, <1>1, <2>2 DEF WorkDropped, ReleaseCall, Asks, Signals
    <3> QED
      BY <1>1, <2>1, <3>1, QuietKeeps DEF Quiet
  <2>3. CASE UNCHANGED <<phase, events>>
    BY <1>2, <2>1, <2>3
  <2>4. CASE k = work.line /\ Signals(k, "null", "RELEASECALL")
                            /\ CallState[k] \in Heard("DROPCALL")
    <3>1. CallState'[k] # "INVALID"
      BY <1>T, <2>1, <2>4 DEF Heard
    <3>2. InHand(k, "DROPCALL") /\ ~ WorkLock
      BY <1>8, <2>4 DEF WorkDropped, InHand, WorkLock
    <3>3. \A type \in Ends : ~ InHand(k, type)'
      BY <1>1, <3>2
    <3> QED
      BY <2>4, <3>1, <3>2, <3>3, ReleaseKeeps
  <2> QED
    BY <1>8, <2>2, <2>3, <2>4 DEF WorkDropped, ReleaseCall, Asks
<1>9. CASE WorkReleased
  <2>1. events' = events /\ phase' = phase /\ \A t : t \in Ends => ~ InHand(k, t)'
    BY <1>1, <1>9 DEF WorkReleased, WorkLock
  <2>2. CASE k # work.line
    BY <1>2, <1>9, <1>T, <2>1, <2>2 DEF WorkReleased
  <2>3. CASE k = work.line
    <3>1. InHand(k, "RELEASECALL")
      BY <1>9, <2>3 DEF WorkReleased, InHand
    <3>2. \A i : ~ At(k, i, "RELEASECALL")
      BY <3>1 DEF TeardownOf, ReleaseIsOfCall
    <3>3. \A i, t : At(k, i, t)' <=> At(k, i, t)
      BY <2>1 DEF At
    <3> QED
      BY <2>1, <3>2, <3>3 DEF TeardownOf, NoFatal, DropIsOfDropped, DropIsLast,
         DropInHandIsLast, ReleaseIsOfCall, ReleaseIsLast, Ends
  <2> QED
    BY <2>2, <2>3
<1>10. CASE WorkFatal
  <2>1. k # work.line
    BY <1>10 DEF WorkFatal, TeardownOf, NoFatal, InHand
  <2>2. phase'[k] = phase[k] /\ events'[k] = events[k] /\ CallState' = CallState
    BY <1>10, <1>T, <1>1, <2>1 DEF WorkFatal, Signals
  <2> QED
    BY <1>1, <2>2, QuietKeeps DEF Quiet
<1> QED
  BY <1>3, <1>4, <1>5, <1>6, <1>7, <1>8, <1>9, <1>10 DEF Handler

LEMMA TeardownStep == LineTypeOK /\ Teardown /\ [TelNext]_telVars => Teardown'
<1> SUFFICES ASSUME LineTypeOK, Teardown, [TelNext]_telVars,
                    NEW k \in Lines, fatal'[k] = 0
             PROVE  TeardownOf(k)'
  BY DEF Teardown
<1> USE DEF lineVars, boardVars, restVars
<1>1. CASE Board
  <2>1. PICK l \in Lines :
          /\ UNCHANGED <<lineVars, app, work>>
          /\ Detect(l) \/ Digit(l) \/ Progress(l) \/ FarEnds(l) \/ Alarm(l) \/ Fatal(l)
    BY <1>1 DEF Board
  <2>2. /\ fatal \in [Lines -> 0 .. MaxFatal] /\ MaxFatal \in Nat
        /\ phase \in [Lines -> Phase] /\ events \in [Lines -> Seq(EventOf)]
    BY LineAssumption DEF LineTypeOK, EventOf
  <2>3. fatal[k] = 0
    BY <2>1, <2>2 DEF Detect, Digit, Progress, FarEnds, Alarm, Fatal
  <2>4. TeardownOf(k)
    BY <2>3 DEF Teardown
  <2>5. CASE k = l
    <3>1. ~ Fatal(l)
      BY <2>2, <2>3, <2>5 DEF Fatal
    <3> QED
      BY <2>1, <2>4, <2>5, <3>1, BoardTeardown
  <2>6. CASE k # l
    <3>1. phase'[k] = phase[k] /\ events'[k] = events[k]
      BY <2>1, <2>2, <2>6 DEF Detect, Digit, Progress, FarEnds, Alarm, Fatal, Signals
    <3> QED
      BY <2>1, <2>4, <3>1, QuietKeeps DEF Quiet, InHand
  <2> QED
    BY <2>5, <2>6
<1>2. CASE Application \/ WorkThread \/ UNCHANGED telVars
  <2>1. fatal' = fatal
    BY <1>2 DEF Application, MakingCall, AppAsks, AppMakeCall, AppRegister, AppActive,
       WorkThread, Handler, WorkTake, WorkLock, WorkSeizure, WorkOffered, WorkCall,
       WorkHangup, WorkDropped, WorkReleased, WorkSwitch, WorkSetState, WorkAlarm,
       WorkFatal, WorkClosed, WorkReopen, telVars
  <2>2. TeardownOf(k)
    BY <2>1 DEF Teardown
  <2>3. CASE \E l \in Lines : WorkTake(l)
    <3> PICK l \in Lines : WorkTake(l)
      BY <2>3
    <3>1. CASE k = l
      BY <2>2, <3>1, TakeKeeps
    <3>2. CASE k # l
      <4>1. events'[k] = events[k] /\ phase' = phase /\ CallState' = CallState
        BY <3>2 DEF WorkTake, LineTypeOK
      <4>2. \A t : ~ InHand(k, t)'
        BY <3>2 DEF WorkTake, InHand
      <4> QED
        BY <2>2, <4>1, <4>2, QuietKeeps DEF Quiet
    <3> QED
      BY <3>1, <3>2
  <2>4. CASE UNCHANGED telVars
    BY <2>2, <2>4, QuietKeeps DEF Quiet, InHand, telVars
  <2> QED
    BY <1>2, <2>2, <2>3, <2>4, ApplicationTeardown, HandlerTeardown DEF WorkThread
<1> QED
  BY <1>1, <1>2 DEF TelNext

\* Only OnReleased takes a call's state away, and it goes on to setCallState.
LEMMA CallStays ==
  ASSUME LineTypeOK, [TelNext]_telVars, NEW k \in Lines, CallState[k] # "INVALID",
         CallState'[k] = "INVALID"
  PROVE  WorkReleased /\ work.line = k
<1> USE DEF lineVars, boardVars
<1>1. /\ CallState \in [Lines -> TCallState]
      /\ app.pc = "register" => app.line \in Lines
      /\ CallState' # CallState
  BY DEF LineTypeOK, Idle
<1>2. work.pc # "wait" => work.line \in Lines
  BY WorkIs
<1>3. ASSUME NEW l \in Lines, NEW c \in TCallState \ {"INVALID"},
             CallState' = [CallState EXCEPT ![l] = c]
      PROVE  FALSE
  BY <1>1, <1>3
<1>6. CASE WorkSeizure \/ WorkOffered \/ WorkCall \/ WorkDropped \/ AppRegister
  <2>1. /\ Becomes("OFFERED") \in TCallState \ {"INVALID"}
        /\ Becomes("DROPCALL") \in TCallState \ {"INVALID"}
        /\ {"SEIZURE", "OUTBOUND_INITIATED"} \subseteq TCallState \ {"INVALID"}
    BY DEF Becomes, TCallState
  <2>2. CASE WorkCall
    <3>1. Becomes(work.ev.type) \in TCallState \ {"INVALID"}
      BY <2>2 DEF WorkCall, Becomes, OutboundEvent, TCallState
    <3> QED
      BY <1>1, <1>2, <1>3, <2>2, <3>1 DEF WorkCall
  <2>3. CASE AppRegister
    BY <1>1, <1>3, <2>1, <2>3 DEF AppRegister
  <2>4. CASE WorkSeizure
    BY <1>1, <1>2, <1>3, <2>1, <2>4 DEF WorkSeizure
  <2>5. CASE WorkOffered
    BY <1>1, <1>2, <1>3, <2>1, <2>5 DEF WorkOffered
  <2>6. CASE WorkDropped
    BY <1>1, <1>2, <1>3, <2>1, <2>6 DEF WorkDropped
  <2> QED
    BY <1>6, <2>2, <2>3, <2>4, <2>5, <2>6
<1>4. CASE WorkReleased
  BY <1>1, <1>2, <1>4 DEF WorkReleased
<1>5. CASE \/ Board \/ AppActive \/ UNCHANGED telVars
           \/ \E l \in Lines : AppAsks(l) \/ AppMakeCall(l) \/ WorkTake(l)
           \/ WorkLock \/ WorkHangup \/ WorkSwitch \/ WorkSetState
           \/ WorkAlarm \/ WorkFatal \/ WorkClosed \/ WorkReopen
  <2>1. CallState' = CallState
    BY <1>5 DEF Board, AppActive, telVars, AppAsks, AppMakeCall, WorkTake, WorkLock,
       WorkHangup, WorkSwitch, WorkSetState, WorkAlarm, WorkFatal, WorkClosed, WorkReopen
  <2> QED
    BY <1>1, <2>1
<1> QED
  BY <1>4, <1>5, <1>6 DEF TelNext, Application, MakingCall, WorkThread, Handler

\* Fatal errors are never undone.
LEMMA FatalStays ==
  ASSUME LineTypeOK, [TelNext]_telVars, NEW k \in Lines, fatal'[k] = 0
  PROVE  fatal[k] = 0
<1> USE DEF lineVars, boardVars, restVars
<1>1. fatal \in [Lines -> 0 .. MaxFatal] /\ MaxFatal \in Nat
  BY LineAssumption DEF LineTypeOK
<1>2. CASE \E l \in Lines : Fatal(l)
  BY <1>1, <1>2 DEF Fatal
<1>3. CASE fatal' = fatal
  BY <1>3
<1> QED
  BY <1>2, <1>3 DEF TelNext, Board, Detect, Digit, Progress, FarEnds, Alarm,
     Application, MakingCall, AppAsks, AppMakeCall, AppRegister, AppActive,
     WorkThread, Handler, WorkTake, WorkLock, WorkSeizure, WorkOffered, WorkCall,
     WorkHangup, WorkDropped, WorkReleased, WorkSwitch, WorkSetState, WorkAlarm,
     WorkFatal, WorkClosed, WorkReopen, telVars

LEMMA ActivatedStep ==
  LineTypeOK /\ Teardown /\ Activated /\ [TelNext]_telVars => Activated'
<1> SUFFICES ASSUME LineTypeOK, Teardown, Activated, [TelNext]_telVars,
                    NEW k \in Lines, fatal'[k] = 0
             PROVE  ActivatedOf(k)'
  BY DEF Activated
<1> USE DEF lineVars, boardVars
<1>1. ActivatedOf(k) /\ TeardownOf(k)
  BY FatalStays DEF Activated, Teardown
<1>2. /\ CallState \in [Lines -> TCallState]
      /\ work.pc # "wait" => work \in [pc : WorkPc, line : Lines, ev : EventOf]
      /\ app.pc # "idle" => app \in [pc : {"register", "active"}, line : Lines]
  <2>1. CallState \in [Lines -> TCallState]
    BY DEF LineTypeOK
  <2>2. work.pc # "wait" => work \in [pc : WorkPc, line : Lines, ev : EventOf]
    BY WorkIs
  <2>3. app.pc # "idle" => app \in [pc : {"register", "active"}, line : Lines]
    BY DEF LineTypeOK, Idle
  <2> QED
    BY <2>1, <2>2, <2>3
<1> DEFINE Releasing == work.pc = "handle" /\ work.line = k /\ work.ev.type = "RELEASECALL"
<1> DEFINE Making == app.pc = "active" /\ app.line = k
\* The application comes to setCallState's second half.
<1>3. CASE Making' /\ ~ Making
  <2>1. AppRegister /\ app.line = k /\ CallState[k] = "INVALID"
        /\ CallState'[k] = "OUTBOUND_INITIATED" /\ work' = work
    <3>1. AppRegister
      BY <1>3 DEF TelNext, Board, Application, MakingCall, AppAsks, AppMakeCall, AppActive,
         Idle, WorkThread, Handler, WorkTake, WorkLock, WorkSeizure, WorkOffered, WorkCall,
         WorkHangup, WorkDropped, WorkReleased, WorkSwitch, WorkSetState, WorkAlarm,
         WorkFatal, WorkClosed, WorkReopen, telVars
    <3> QED
      BY <1>2, <1>3, <3>1 DEF AppRegister, Idle
  <2>2. ~ Releasing
    BY <1>1, <2>1 DEF TeardownOf, ReleaseIsOfCall, InHand
  <2> QED
    BY <2>1, <2>2 DEF ActivatedOf
\* The mutex keeps the work thread out of OnReleased while it is there.
<1>4. ASSUME Making, Making' PROVE ~ Releasing'
  <2>1. ~ Releasing
    BY <1>1, <1>4 DEF ActivatedOf
  <2>2. CASE work' = work
    BY <2>1, <2>2
  <2>3. CASE WorkLock
    BY <1>4, <2>3 DEF WorkLock, Held
  <2>4. CASE \E l \in Lines : WorkTake(l)
    BY <2>4 DEF WorkTake, Locks, Locking
  <2>5. CASE WorkCall
    BY <2>5, HandlerHand DEF Handler, Ends, InHand, WorkLock, WorkCall
  <2>6. CASE work' = Wait \/ work'.pc \in {"toActive", "toIdle", "switch", "reopen"}
    BY <2>6 DEF Wait
  <2> QED
    BY <1>2, <2>2, <2>3, <2>4, <2>5, <2>6, WorkIs DEF TelNext, Board, Application, MakingCall, AppAsks, AppMakeCall,
       AppRegister, AppActive, WorkThread, Handler, WorkSeizure, WorkOffered, WorkHangup,
       WorkDropped, WorkReleased, WorkSwitch, WorkSetState, WorkAlarm, WorkFatal,
       WorkClosed, WorkReopen, telVars
<1>5. Making /\ Making' => CallState'[k] # "INVALID"
  BY <1>1, <1>4, CallStays DEF ActivatedOf, WorkReleased
<1>6. ASSUME work'.pc = "toActive", work'.line = k PROVE CallState'[k] # "INVALID"
  <2>1. CASE work.pc = "toActive" /\ work.line = k
    BY <1>1, <2>1, CallStays DEF ActivatedOf, WorkReleased
  <2>2. CASE WorkSeizure
    <3>1. work.line = k /\ CallState' = [CallState EXCEPT ![k] = "SEIZURE"]
      BY <1>2, <1>6, <2>2 DEF WorkSeizure, Wait
    <3> QED
      BY <1>2, <3>1
  <2>3. CASE WorkSwitch
    BY <1>2, <1>6, <2>3 DEF WorkSwitch
  <2>4. CASE work' = work
    BY <1>6, <2>1, <2>4
  <2>5. CASE work' = Wait
    BY <1>6, <2>5 DEF Wait
  <2>6. CASE WorkLock \/ WorkCall \/ WorkReleased \/ WorkClosed
    <3>1. work'.pc \in {"handle", "lock", "wait", "switch", "reopen"}
      <4>1. CASE WorkLock
        BY <1>2, <4>1 DEF WorkLock
      <4>2. CASE WorkCall
        BY <1>2, <4>2 DEF WorkCall, Wait
      <4>3. CASE WorkReleased \/ WorkClosed
        BY <1>2, <4>3 DEF WorkReleased, WorkClosed
      <4> QED
        BY <2>6, <4>1, <4>2, <4>3
    <3> QED
      BY <1>6, <3>1
  <2>7. CASE \E l \in Lines : WorkTake(l)
    BY <1>6, <2>7 DEF WorkTake
  <2> QED
    BY <2>2, <2>3, <2>4, <2>5, <2>6, <2>7 DEF TelNext, Board, Application, MakingCall,
       AppAsks, AppMakeCall, AppRegister, AppActive, WorkThread, Handler, WorkOffered,
       WorkHangup, WorkDropped, WorkSetState, WorkAlarm, WorkFatal, WorkReopen, telVars
<1> QED
  BY <1>3, <1>4, <1>5, <1>6 DEF ActivatedOf

\* Which steps count a line as active.
LEMMA MadeActive ==
  ASSUME LineTypeOK, [TelNext]_telVars, NEW k \in Lines, State'[k] = "ACTIVE",
         State[k] # "ACTIVE"
  PROVE  \/ app.pc = "active" /\ app.line = k
         \/ work.pc = "toActive" /\ work.line = k
<1> USE DEF lineVars, boardVars
<1>1. State \in [Lines -> LineState] /\ State' # State
  BY DEF LineTypeOK
<1>2. CASE AppActive
  BY <1>1, <1>2 DEF AppActive, SetState
<1>3. CASE WorkSetState
  BY <1>1, <1>3 DEF WorkSetState, SetState
<1>4. CASE \E s \in LineState \ {"ACTIVE"} : SetState(work.line, s)
  BY <1>1, <1>4 DEF SetState
<1>5. CASE WorkAlarm \/ WorkClosed \/ WorkReopen
  BY <1>1, <1>4, <1>5 DEF WorkAlarm, WorkClosed, WorkReopen, LineState
<1> QED
  BY <1>1, <1>2, <1>3, <1>5 DEF TelNext, Board, Application, MakingCall, AppAsks,
     AppMakeCall, AppRegister, WorkThread, Handler, WorkTake, WorkLock, WorkSeizure,
     WorkOffered, WorkCall, WorkHangup, WorkDropped, WorkReleased, WorkSwitch, WorkFatal,
     telVars

LEMMA ActiveHasCallStep ==
  LineTypeOK /\ Activated /\ ActiveHasCall /\ [TelNext]_telVars => ActiveHasCall'
<1> SUFFICES ASSUME LineTypeOK, Activated, ActiveHasCall, [TelNext]_telVars,
                    NEW k \in Lines, State'[k] = "ACTIVE", CallState'[k] = "INVALID",
                    fatal'[k] = 0
             PROVE  work'.pc \in {"switch", "toIdle"} /\ work'.line = k
  BY DEF ActiveHasCall
<1> USE DEF lineVars, boardVars
<1>1. fatal[k] = 0 /\ ActivatedOf(k)
  BY FatalStays DEF Activated
<1>2. work.pc # "wait" => work \in [pc : WorkPc, line : Lines, ev : EventOf]
  BY WorkIs
<1>3. CASE CallState[k] # "INVALID"
  <2>1. WorkReleased /\ work.line = k
    BY <1>3, CallStays
  <2> QED
    BY <1>2, <2>1 DEF WorkReleased
<1>4. CASE CallState[k] = "INVALID"
  <2>1. State[k] = "ACTIVE"
    BY <1>1, <1>4, MadeActive DEF ActivatedOf
  <2>2. work.pc \in {"switch", "toIdle"} /\ work.line = k
    BY <1>1, <1>4, <2>1 DEF ActiveHasCall
  <2>3. CASE WorkSwitch
    BY <1>2, <1>4, <2>2, <2>3 DEF WorkSwitch
  <2>4. CASE WorkSetState
    <3>1. SetState(k, "IDLE")
      BY <2>2, <2>4 DEF WorkSetState
    <3>2. State'[k] = "IDLE"
      BY <3>1 DEF SetState, LineTypeOK
    <3> QED
      BY <3>2
  <2>5. CASE work' = work
    BY <2>2, <2>5
  <2> QED
    BY <2>2, <2>3, <2>4, <2>5 DEF TelNext, Board, Application, MakingCall, AppAsks,
       AppMakeCall, AppRegister, AppActive, WorkThread, Handler, WorkTake, WorkLock,
       WorkSeizure, WorkOffered, WorkCall, WorkHangup, WorkDropped, WorkReleased,
       WorkAlarm, WorkFatal, WorkClosed, WorkReopen, telVars
<1> QED
  BY <1>3, <1>4

LEMMA InitTeardown == TelInit => Teardown /\ Activated /\ ActiveHasCall
<1> SUFFICES ASSUME TelInit PROVE Teardown /\ Activated /\ ActiveHasCall
  OBVIOUS
<1>1. \A l \in Lines : \A i, t : At(l, i, t) => t \in {"BLOCKED", "UNBLOCKED"}
  BY DEF TelInit, At, Event
<1>2. \A l \in Lines : \A t : ~ InHand(l, t)
  BY DEF TelInit, Wait, InHand
<1>3. Teardown
  BY <1>1, <1>2 DEF Teardown, TeardownOf, NoFatal, DropIsOfDropped, DropIsLast,
     DropInHandIsLast, ReleaseIsOfCall, ReleaseIsLast
<1>4. Activated
  BY DEF TelInit, Activated, ActivatedOf, Idle, Wait
<1>5. ActiveHasCall
  BY DEF TelInit, ActiveHasCall
<1> QED
  BY <1>3, <1>4, <1>5

\* A line that is never reset does not stay active without a call, though
\* setCallState writes the call's state and the line's in two steps and the two
\* threads' steps mix.
THEOREM NoLineActiveWithoutCall == TelSpec => []ActiveHasCall
<1>1. TelInit => Teardown /\ Activated /\ ActiveHasCall
  BY InitTeardown
<1>2. LineTypeOK /\ (Teardown /\ Activated /\ ActiveHasCall) /\ [TelNext]_telVars
        => (Teardown /\ Activated /\ ActiveHasCall)'
  BY TeardownStep, ActivatedStep, ActiveHasCallStep
<1> QED
  BY <1>1, <1>2, LineTypeCorrect, PTL DEF TelSpec

-----------------------------------------------------------------------------
(* The counters.                                                           *)

\* What div and % are.
LEMMA DivMod ==
  ASSUME NEW C \in Nat \ {0}, NEW n \in Int
  PROVE  n \div C \in Int /\ n % C \in 0 .. C - 1 /\ n = C * (n \div C) + (n % C)
OBVIOUS

\* A multiple of C that is positive is at least C.
LEMMA AtLeastOnce == ASSUME NEW C \in Nat \ {0}, NEW x \in Int, x >= 1 PROVE C * x >= C
OBVIOUS

\* Two numbers with a remainder each that are equal have the same remainder.
LEMMA SameRemainder ==
  ASSUME NEW C \in Nat \ {0}, NEW p \in Int, NEW q \in Int,
         NEW r \in 0 .. C - 1, NEW s \in 0 .. C - 1, C * p + r = C * q + s
  PROVE  r = s
<1>1. C * (p - q) = s - r /\ C * (q - p) = r - s
  OBVIOUS
<1>2. CASE p > q
  <2>1. p - q \in Int /\ p - q >= 1
    BY <1>2
  <2> QED
    BY <1>1, <2>1, AtLeastOnce
<1>3. CASE p < q
  <2>1. q - p \in Int /\ q - p >= 1
    BY <1>3
  <2> QED
    BY <1>1, <2>1, AtLeastOnce
<1> QED
  BY <1>2, <1>3

\* A number less a multiple of C, when that is a remainder, is what % says.
LEMMA Remainder ==
  ASSUME NEW C \in Nat \ {0}, NEW n \in Int, NEW q \in Int, NEW r \in 0 .. C - 1, n = C * q + r
  PROVE  n % C = r
<1> DEFINE p == n \div C
           s == n % C
<1>1. p \in Int /\ s \in 0 .. C - 1 /\ n = C * p + s
  BY DivMod
<1> HIDE DEF p, s
<1>2. s = r
  BY <1>1, SameRemainder
<1> QED
  BY <1>2 DEF s

\* An unsigned counter goes up as the number does that it stands for.
LEMMA CountUp ==
  ASSUME NEW C \in Nat \ {0}, NEW n \in Int
  PROVE  ((n % C) + 1) % C = (n + 1) % C
<1> DEFINE q == n \div C
           r == n % C
<1>1. q \in Int /\ r \in 0 .. C - 1 /\ n = C * q + r
  BY DivMod
<1> HIDE DEF q, r
<1>2. CASE r + 1 < C
  <2>1. r + 1 \in 0 .. C - 1 /\ n + 1 = C * q + (r + 1) /\ r + 1 = C * 0 + (r + 1)
    BY <1>1, <1>2
  <2>2. (n + 1) % C = r + 1 /\ (r + 1) % C = r + 1
    BY <1>1, <2>1, Remainder
  <2> QED
    BY <2>2 DEF r
<1>3. CASE r + 1 = C
  <2>1. /\ 0 \in 0 .. C - 1 /\ q + 1 \in Int
        /\ n + 1 = C * (q + 1) + 0 /\ r + 1 = C * 1 + 0
    BY <1>1, <1>3
  <2>2. (n + 1) % C = 0 /\ (r + 1) % C = 0
    BY <1>1, <2>1, Remainder
  <2> QED
    BY <2>2 DEF r
<1> QED
  BY <1>1, <1>2, <1>3

\* And it goes down with it.
LEMMA CountDown ==
  ASSUME NEW C \in Nat \ {0}, NEW n \in Int
  PROVE  ((n % C) - 1) % C = (n - 1) % C
<1> DEFINE q == n \div C
           r == n % C
<1>1. q \in Int /\ r \in 0 .. C - 1 /\ n = C * q + r
  BY DivMod
<1> HIDE DEF q, r
<1>2. CASE r > 0
  <2>1. r - 1 \in 0 .. C - 1 /\ n - 1 = C * q + (r - 1) /\ r - 1 = C * 0 + (r - 1)
    BY <1>1, <1>2
  <2>2. (n - 1) % C = r - 1 /\ (r - 1) % C = r - 1
    BY <1>1, <2>1, Remainder
  <2> QED
    BY <2>2 DEF r
<1>3. CASE r = 0
  <2>1. /\ C - 1 \in 0 .. C - 1 /\ q - 1 \in Int
        /\ n - 1 = C * (q - 1) + (C - 1) /\ r - 1 = C * (-1) + (C - 1)
    BY <1>1, <1>3
  <2>2. (n - 1) % C = C - 1 /\ (r - 1) % C = C - 1
    BY <1>1, <2>1, Remainder
  <2> QED
    BY <2>2 DEF r
<1> QED
  BY <1>1, <1>2, <1>3

\* The lines in a state, and what the counter of the state has besides.
Within(s) == {l \in Lines : State[l] = s}
Besides == [s \in LineState |-> IF s = "CLOSED" THEN 4 - Cardinality(Lines) ELSE 0]
Count == [s \in LineState |-> Cardinality(Within(s)) + Besides[s]]

\* The counters of the code are the sizes of these sets, unsigned.
LEMMA AccountedIsCount == Accounted <=> \A s \in LineState : Total[s] = Count[s] % CountSpace
BY DEF Accounted, Count, Within, Besides

\* The sets are finite, so their sizes are numbers.
LEMMA CountType ==
  /\ \A s \in LineState : /\ IsFiniteSet(Within(s)) /\ Cardinality(Within(s)) \in Nat
                          /\ Besides[s] \in Int /\ Count[s] \in Int
                          /\ Count[s] = Cardinality(Within(s)) + Besides[s]
  /\ CountSpace \in Nat \ {0}
<1>1. Cardinality(Lines) \in Nat /\ CountSpace \in Nat \ {0}
  BY LineAssumption, FS_CardinalityType
<1>2. ASSUME NEW s \in LineState
      PROVE  IsFiniteSet(Within(s)) /\ Cardinality(Within(s)) \in Nat /\ Besides[s] \in Int
  <2>1. Within(s) \subseteq Lines
    BY DEF Within
  <2>2. IsFiniteSet(Within(s)) /\ Cardinality(Within(s)) \in Nat
    BY <2>1, LineAssumption, FS_Subset, FS_CardinalityType
  <2> QED
    BY <1>1, <2>2 DEF Besides
<1>3. \A s \in LineState : Count[s] = Cardinality(Within(s)) + Besides[s]
  BY DEF Count
<1> QED
  BY <1>1, <1>2, <1>3

\* setState moves one line from its state to the next, of both of which the
\* counters go along; it may be the same state.
LEMMA SetStateCounts ==
  ASSUME LineTypeOK, Accounted, NEW l \in Lines, NEW s \in LineState, SetState(l, s)
  PROVE  Accounted'
<1> DEFINE t == State[l]
<1>1. /\ State \in [Lines -> LineState] /\ t \in LineState
      /\ Total \in [LineState -> 0 .. CountSpace - 1]
      /\ \A u \in LineState : Total[u] = Count[u] % CountSpace
  BY AccountedIsCount DEF LineTypeOK
<1>2. State' = [State EXCEPT ![l] = s]
  BY DEF SetState
<1>3. \A u \in LineState :
        /\ IsFiniteSet(Within(u)) /\ Cardinality(Within(u)) \in Nat
        /\ Besides[u] \in Int /\ Count[u] \in Int /\ Count[u] = Cardinality(Within(u)) + Besides[u]
  BY CountType
<1>4. CountSpace \in Nat \ {0}
  BY CountType
<1>5. ASSUME NEW u \in LineState
      PROVE  Count'[u] = Cardinality({k \in Lines : State'[k] = u}) + Besides[u]
  BY DEF Count, Within, Besides
<1>6. CASE s = t
  <2>1. State' = State
    BY <1>1, <1>2, <1>6
  <2>2. Total'[t] = ((((Total[t] - 1) % CountSpace) + 1) % CountSpace)
        /\ \A u \in LineState \ {t} : Total'[u] = Total[u]
    BY <1>1, <1>6 DEF SetState
  <2>3. ((((Count[t] % CountSpace) - 1) % CountSpace) + 1) % CountSpace = Count[t] % CountSpace
    <3>1. Count[t] \in Int /\ Count[t] - 1 \in Int /\ (Count[t] - 1) + 1 = Count[t]
      BY <1>1, <1>3
    <3>2. ((Count[t] % CountSpace) - 1) % CountSpace = (Count[t] - 1) % CountSpace
      BY <1>4, <3>1, CountDown
    <3>3. (((Count[t] - 1) % CountSpace) + 1) % CountSpace = ((Count[t] - 1) + 1) % CountSpace
      BY <1>4, <3>1, CountUp
    <3> QED
      BY <3>1, <3>2, <3>3
  <2>4. Count' = Count
    BY <2>1 DEF Count, Within, Besides
  <2>5. \A u \in LineState : Total'[u] = Count'[u] % CountSpace
    BY <1>1, <2>2, <2>3, <2>4
  <2> QED
    BY <2>5, AccountedIsCount DEF Accounted, Count, Within, Besides
<1>7. CASE s # t
  <2>1. Total'[t] = (Total[t] - 1) % CountSpace /\ Total'[s] = (Total[s] + 1) % CountSpace
        /\ \A u \in LineState \ {s, t} : Total'[u] = Total[u]
    BY <1>1, <1>7 DEF SetState
  <2>2. Count'[t] = Count[t] - 1
    <3>1. {k \in Lines : State'[k] = t} = Within(t) \ {l} /\ l \in Within(t)
      BY <1>1, <1>2, <1>7 DEF Within
    <3>2. Cardinality(Within(t) \ {l}) = Cardinality(Within(t)) - 1
      BY <1>1, <1>3, <3>1, FS_RemoveElement
    <3>3. Count'[t] = Cardinality(Within(t) \ {l}) + Besides[t]
      BY <1>1, <1>5, <3>1
    <3>4. Count[t] = Cardinality(Within(t)) + Besides[t]
      BY <1>1, <1>3
    <3> QED
      BY <1>1, <1>3, <3>2, <3>3, <3>4
  <2>3. Count'[s] = Count[s] + 1
    <3>1. {k \in Lines : State'[k] = s} = Within(s) \union {l} /\ l \notin Within(s)
      BY <1>1, <1>2, <1>7 DEF Within
    <3>2. Cardinality(Within(s) \union {l}) = Cardinality(Within(s)) + 1
      BY <1>3, <3>1, FS_AddElement
    <3>3. Count'[s] = Cardinality(Within(s) \union {l}) + Besides[s]
      BY <1>5, <3>1
    <3>4. Count[s] = Cardinality(Within(s)) + Besides[s]
      BY <1>3
    <3> QED
      BY <1>3, <3>2, <3>3, <3>4
  <2>4. \A u \in LineState \ {s, t} : Count'[u] = Count[u]
    <3>1. ASSUME NEW u \in LineState \ {s, t} PROVE Count'[u] = Count[u]
      <4>1. {k \in Lines : State'[k] = u} = Within(u)
        BY <1>1, <1>2 DEF Within
      <4> QED
        BY <1>3, <1>5, <4>1
    <3> QED
      BY <3>1
  <2>5. Total'[t] = Count'[t] % CountSpace
    BY <1>1, <1>3, <1>4, <2>1, <2>2, CountDown
  <2>6. Total'[s] = Count'[s] % CountSpace
    BY <1>1, <1>3, <1>4, <2>1, <2>3, CountUp
  <2>7. \A u \in LineState : Total'[u] = Count'[u] % CountSpace
    BY <1>1, <2>1, <2>4, <2>5, <2>6
  <2> QED
    BY <2>7 DEF Accounted, Count, Within, Besides
<1> QED
  BY <1>6, <1>7

\* Every step of a line's state is one of setState.
LEMMA AccountedStep == LineTypeOK /\ Accounted /\ [TelNext]_telVars => Accounted'
<1> SUFFICES ASSUME LineTypeOK, Accounted, [TelNext]_telVars PROVE Accounted'
  OBVIOUS
<1> USE DEF lineVars
<1>1. CASE UNCHANGED <<State, Total>>
  BY <1>1 DEF Accounted
<1>2. work.pc # "wait" => work.line \in Lines
  BY WorkIs
<1>3. CASE AppActive
  <2>1. app.line \in Lines /\ SetState(app.line, "ACTIVE")
    BY <1>3 DEF AppActive, LineTypeOK, Idle
  <2> QED
    BY <2>1, SetStateCounts DEF LineState
<1>4. CASE WorkSetState
  <2>1. work.line \in Lines /\ (SetState(work.line, "IDLE") \/ SetState(work.line, "ACTIVE"))
    BY <1>2, <1>4 DEF WorkSetState
  <2> QED
    BY <2>1, SetStateCounts DEF LineState
<1>5. CASE WorkAlarm
  <2>1. \/ UNCHANGED <<State, Total>>
        \/ work.line \in Lines /\ (SetState(work.line, "BLOCKING") \/ SetState(work.line, "IDLE"))
    BY <1>2, <1>5 DEF WorkAlarm
  <2> QED
    BY <1>1, <2>1, SetStateCounts DEF LineState
<1>6. CASE WorkClosed
  <2>1. work.line \in Lines /\ SetState(work.line, "CLOSED")
    BY <1>2, <1>6 DEF WorkClosed
  <2> QED
    BY <2>1, SetStateCounts DEF LineState
<1>7. CASE WorkReopen
  <2>1. \/ UNCHANGED <<State, Total>>
        \/ work.line \in Lines /\ SetState(work.line, "UNINITIALIZED")
    BY <1>2, <1>7 DEF WorkReopen
  <2> QED
    BY <1>1, <2>1, SetStateCounts DEF LineState
<1> QED
  BY <1>1, <1>3, <1>4, <1>5, <1>6, <1>7 DEF TelNext, Board, Application, MakingCall, AppAsks,
     AppMakeCall, AppRegister, WorkThread, Handler, WorkTake, WorkLock, WorkSeizure,
     WorkOffered, WorkCall, WorkHangup, WorkDropped, WorkReleased, WorkSwitch, WorkFatal,
     telVars

\* openLines leaves every line uninitialized, and the counter of the closed
\* ones at four less those.
LEMMA InitAccounted == TelInit => Accounted
<1> SUFFICES ASSUME TelInit, NEW s \in LineState PROVE Total[s] = Count[s] % CountSpace
  BY AccountedIsCount
<1>1. /\ Count[s] = Cardinality(Within(s)) + Besides[s]
      /\ CountSpace \in Nat \ {0} /\ Cardinality(Lines) \in Nat
  BY CountType, LineAssumption, FS_CardinalityType
<1>2. State = [l \in Lines |-> "UNINITIALIZED"]
      /\ Total = [u \in LineState |->
                    CASE u = "CLOSED" -> (4 - Cardinality(Lines)) % CountSpace
                      [] u = "UNINITIALIZED" -> Cardinality(Lines) % CountSpace
                      [] OTHER -> 0]
  BY DEF TelInit
<1>3. CASE s = "UNINITIALIZED"
  <2>1. Within(s) = Lines /\ Besides[s] = 0
    BY <1>2, <1>3 DEF Within, Besides
  <2>2. Count[s] = Cardinality(Lines)
    BY <1>1, <2>1
  <2> QED
    BY <1>2, <1>3, <2>2
<1>4. CASE s # "UNINITIALIZED"
  <2>1. Within(s) = {} /\ Cardinality({}) = 0
    BY <1>2, <1>4, FS_EmptySet DEF Within
  <2>2. CASE s = "CLOSED"
    <3>1. Count[s] = 4 - Cardinality(Lines)
      BY <1>1, <2>1, <2>2 DEF Besides
    <3> QED
      BY <1>2, <2>2, <3>1
  <2>3. CASE s # "CLOSED"
    <3>1. Count[s] = 0
      BY <1>1, <2>1, <2>3 DEF Besides
    <3>2. 0 \in 0 .. CountSpace - 1 /\ 0 = CountSpace * 0 + 0
      BY <1>1
    <3>3. 0 % CountSpace = 0
      BY <1>1, <3>2, Remainder
    <3> QED
      BY <1>2, <1>4, <2>3, <3>1, <3>3
  <2> QED
    BY <2>2, <2>3
<1> QED
  BY <1>3, <1>4

\* tel_TotalLinesInState tells, for each state, how many lines are in it,
\* modulo the width of the counter: setState's two counters never drift from
\* the lines, whichever thread calls it.
THEOREM CountersAgree == TelSpec => []Accounted
<1>1. TelInit => Accounted
  BY InitAccounted
<1>2. LineTypeOK /\ Accounted /\ [TelNext]_telVars => Accounted'
  BY AccountedStep
<1> QED
  BY <1>1, <1>2, LineTypeCorrect, PTL DEF TelSpec

=============================================================================
