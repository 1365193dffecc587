---------------------------- MODULE TelecomLine ----------------------------
(***************************************************************************)
(* TelecomDll: the lines of a telephony board.  One work thread takes the  *)
(* events of the Global Call library, each line's in their order, and      *)
(* keeps the line's state and its call's state; the application makes,     *)
(* accepts, answers and hangs up calls from a thread of its own.  makeCall *)
(* holds MakeCallMutex from gc_MakeCall until the call is registered; the  *)
(* handlers of the events such a call can cause take that mutex first.     *)
(*                                                                         *)
(* The board itself is external: what it accepts and which events it sends *)
(* is modelled from how Line.cpp uses the library.                         *)
(***************************************************************************)
EXTENDS Integers, Sequences, FiniteSets

CONSTANTS
  Lines,
  CountSpace,   \* values of an unsigned counter
  MaxCalls,     \* bound: calls, of all lines
  MaxAlarms,    \* bound: times that a line is blocked
  MaxFatal,     \* bound: fatal errors
  MaxEvents     \* bound: events of a line that are waiting when the board or
                \* the far end adds one of its own accord

ASSUME LineAssumption ==
  /\ IsFiniteSet(Lines) /\ CountSpace \in Nat \ {0}
  /\ MaxCalls \in Nat /\ MaxAlarms \in Nat /\ MaxFatal \in Nat /\ MaxEvents \in Nat

LineState == {"CLOSED", "UNINITIALIZED", "IDLE", "BLOCKING", "OUT_OF_SERVICE", "ACTIVE"}
TCallState == {"INVALID", "SEIZURE", "RECEIVING_DIGITS", "INCOMING", "ACCEPTING",
              "ANSWERING", "REJECTING", "CONNECTED", "DISCONNECTED",
              "OUTBOUND_INITIATED", "PLACING", "PROCEEDING", "ALERTING"}

EventType == {"BLOCKED", "UNBLOCKED", "DETECTED", "DIGITS", "OFFERED", "ACCEPT",
              "ANSWERED", "DIALING", "PROCEEDING", "ALERTING", "CONNECTED",
              "CALLSTATUS", "DISCONNECTED", "DROPCALL", "RELEASECALL",
              "FATALERROR", "RESETLINEDEV"}

VARIABLES
  State,      \* per line
  CallState,  \* per line
  m_crn,      \* per line: the call that the exported calls act on
  Total,      \* TotalLinesInState
  app,        \* where the application is in makeCall, and on which line
  work,       \* where the work thread is, on which line and with which event
  phase,      \* per line: the board's call
  crn,        \* per line: the number of that call, or of the last
  calls,      \* calls so far
  waiting,    \* per line: gc_WaitCall has been issued
  blocked,    \* lines that are blocked
  alarms,     \* times that one has been
  fatal,      \* per line: fatal errors so far
  events,     \* per line: events the work thread has not taken
  mine        \* auxiliary, per line: the call that CallState is about, or 0

lineVars  == <<State, CallState, m_crn, Total, mine>>
boardVars == <<phase, crn, calls, waiting, blocked, alarms, fatal, events>>
restVars  == <<blocked, alarms, fatal>>
telVars   == <<lineVars, app, work, boardVars>>

Event(type, c) == [type |-> type, crn |-> c]
NoEvent == Event("NONE", 0)
Idle == [pc |-> "idle", line |-> 0]
Wait == [pc |-> "wait", line |-> 0, ev |-> NoEvent]

-----------------------------------------------------------------------------
(* The board.                                                              *)

Outgoing == <<"PLACED", "DIALING", "PROCEEDING", "ALERTING", "CONNECTED">>
Phase == {"null", "detected", "offered", "accepted", "disconnected", "dropped"}
           \union {Outgoing[i] : i \in 1 .. 5}

\* The board's call enters a phase, and the event says so.
Signals(l, p, type) ==
  /\ phase' = [phase EXCEPT ![l] = p]
  /\ events' = [events EXCEPT ![l] = Append(@, Event(type, crn[l]))]

\* The line is seized from the far end.
Detect(l) ==
  /\ phase[l] = "null" /\ waiting[l] /\ l \notin blocked /\ calls < MaxCalls
  /\ calls' = calls + 1 /\ crn' = [crn EXCEPT ![l] = calls + 1]
  /\ phase' = [phase EXCEPT ![l] = "detected"]
  /\ events' = [events EXCEPT ![l] = Append(@, Event("DETECTED", calls + 1))]
  /\ UNCHANGED <<waiting, restVars>>

\* A digit of the number comes in, or the number is complete.
Digit(l) ==
  /\ phase[l] = "detected"
  /\ \E p \in {"detected", "offered"} :
       Signals(l, p, IF p = "offered" THEN "OFFERED" ELSE "DIGITS")
  /\ phase'[l] = "detected" => \A i \in 1 .. Len(events[l]) : events[l][i].type # "DIGITS"
  /\ UNCHANGED <<crn, calls, waiting, restVars>>

\* An outgoing call gets on; the protocol may leave out some of the reports.
Progress(l) ==
  /\ \E i, j \in 1 .. 5 :
       i < j /\ phase[l] = Outgoing[i] /\ Signals(l, Outgoing[j], Outgoing[j])
  /\ UNCHANGED <<crn, calls, waiting, restVars>>

\* The far end hangs up, or an outgoing call fails.
FarEnds(l) ==
  /\ phase[l] \notin {"null", "disconnected", "dropped"}
  /\ \/ Signals(l, "disconnected", "DISCONNECTED")
     \/ /\ \E i \in 1 .. 4 : phase[l] = Outgoing[i]
        /\ Signals(l, "disconnected", "CALLSTATUS")
  /\ UNCHANGED <<crn, calls, waiting, restVars>>

\* The trunk is blocked, or free again.
Alarm(l) ==
  /\ \/ /\ l \in blocked
        /\ blocked' = blocked \ {l} /\ UNCHANGED alarms
        /\ Signals(l, phase[l], "UNBLOCKED")
     \/ /\ l \notin blocked /\ alarms < MaxAlarms
        /\ blocked' = blocked \union {l} /\ alarms' = alarms + 1
        /\ Signals(l, phase[l], "BLOCKED")
  /\ UNCHANGED <<crn, calls, waiting, fatal>>

\* GCEV_FATALERROR, GCEV_TASKFAIL.
Fatal(l) ==
  /\ \A k \in Lines : fatal[k] < MaxFatal
  /\ fatal' = [fatal EXCEPT ![l] = @ + 1]
  /\ Signals(l, phase[l], "FATALERROR")
  /\ UNCHANGED <<crn, calls, waiting, blocked, alarms>>

Board == \E l \in Lines :
  /\ Len(events[l]) < MaxEvents
  /\ Detect(l) \/ Digit(l) \/ Progress(l) \/ FarEnds(l) \/ Alarm(l) \/ Fatal(l)
  /\ UNCHANGED <<lineVars, app, work>>

-----------------------------------------------------------------------------
(* A line's functions.                                                     *)

\* Mutant: the counter of the new state goes down as well.
SetStateMiscounted(l, s) ==
  /\ State' = [State EXCEPT ![l] = s]
  /\ Total' = [t \in LineState |-> Total[t] - (IF t \in {State[l], s} THEN 1 ELSE 0)]

\* Mutant: the line stays counted in its old state.
SetStateOnlyUp(l, s) ==
  /\ State' = [State EXCEPT ![l] = s]
  /\ Total' = [Total EXCEPT ![s] = (@ + 1) % CountSpace]

\* setState: the line is counted in its new state and no longer in its old.
SetState(l, s) ==
  /\ State' = [State EXCEPT ![l] = s]
  /\ Total' = LET less == [Total EXCEPT ![State[l]] = (@ - 1) % CountSpace]
              IN  [less EXCEPT ![s] = (@ + 1) % CountSpace]

\* A call of the library about m_crn: the board takes it in the phases `from'
\* of that call only.
Asks(l, from, p, type) ==
  IF phase[l] \in from /\ crn[l] = m_crn[l]
    THEN Signals(l, p, type) ELSE UNCHANGED <<phase, events>>

AcceptCall(l) == Asks(l, {"offered"}, "accepted", "ACCEPT")
AnswerCall(l) == Asks(l, {"offered", "accepted"}, "CONNECTED", "ANSWERED")
HangupCall(l) == Asks(l, Phase \ {"null", "detected", "dropped"}, "dropped", "DROPCALL")
ReleaseCall(l) == Asks(l, {"dropped"}, "null", "RELEASECALL")

-----------------------------------------------------------------------------
(* The application.                                                        *)

\* acceptCall, answerCall and hangupCall, at any time.
AppAsks(l) ==
  /\ app.pc = "idle"
  /\ AcceptCall(l) \/ AnswerCall(l) \/ HangupCall(l)
  /\ UNCHANGED <<lineVars, app, work, crn, calls, waiting, restVars>>

\* makeCall takes the mutex, and the board takes the call.  A mutex that
\* OnClosed has deleted is not taken (see the README).
AppMakeCall(l) ==
  /\ app.pc = "idle" /\ ~ (work.pc = "reopen" /\ work.line = l)
  /\ phase[l] = "null" /\ l \notin blocked /\ calls < MaxCalls
  /\ phase' = [phase EXCEPT ![l] = Outgoing[1]]
  /\ calls' = calls + 1 /\ crn' = [crn EXCEPT ![l] = calls + 1]
  /\ m_crn' = [m_crn EXCEPT ![l] = calls + 1]
  /\ app' = [pc |-> "register", line |-> l]
  /\ UNCHANGED <<State, CallState, Total, mine, work, waiting, restVars, events>>

\* Mutant: OnOutboundInitiated registers whatever the call's state.
AppRegisterAnyway ==
  /\ app.pc = "register"
  /\ CallState' = [CallState EXCEPT ![app.line] = "OUTBOUND_INITIATED"]
  /\ mine' = [mine EXCEPT ![app.line] = m_crn[app.line]]
  /\ app' = [app EXCEPT !.pc = "active"]
  /\ UNCHANGED <<State, m_crn, Total, work, boardVars>>

\* OnOutboundInitiated: the call is registered unless the line still has one.
AppRegister ==
  /\ app.pc = "register"
  /\ IF CallState[app.line] = "INVALID"
       THEN /\ CallState' = [CallState EXCEPT ![app.line] = "OUTBOUND_INITIATED"]
            /\ mine' = [mine EXCEPT ![app.line] = m_crn[app.line]]
            /\ app' = [app EXCEPT !.pc = "active"]
       ELSE app' = Idle /\ UNCHANGED <<CallState, mine>>
  /\ UNCHANGED <<State, m_crn, Total, work, boardVars>>

\* setCallState's second half, and the mutex is free again.
AppActive ==
  /\ app.pc = "active"
  /\ SetState(app.line, "ACTIVE")
  /\ app' = Idle
  /\ UNCHANGED <<CallState, m_crn, mine, work, boardVars>>

MakingCall == AppRegister \/ AppActive
Application == (\E l \in Lines : AppAsks(l) \/ AppMakeCall(l)) \/ MakingCall

-----------------------------------------------------------------------------
(* The work thread.                                                        *)

\* Which states of a call an event is heard in, and what it makes of them.
\* OnReleased looks at none.
Heard(type) ==
  CASE type = "DIGITS" -> {"SEIZURE"}
    [] type = "OFFERED" -> {"SEIZURE", "RECEIVING_DIGITS"}
    [] type = "ACCEPT" -> {"INCOMING"}
    [] type = "DIALING" -> {"OUTBOUND_INITIATED"}
    [] type = "PROCEEDING" -> {"OUTBOUND_INITIATED", "PLACING"}
    [] type = "ALERTING" -> {"OUTBOUND_INITIATED", "PLACING", "PROCEEDING"}
    [] type = "CONNECTED" -> {"ANSWERING", "ACCEPTING", "OUTBOUND_INITIATED",
                              "PLACING", "PROCEEDING", "ALERTING"}
    [] type = "ANSWERED" -> {"INCOMING", "ACCEPTING"}
    [] type = "DROPCALL" -> TCallState \ {"INVALID"}
    [] type = "RELEASECALL" -> TCallState
    [] OTHER -> {}

Becomes(type) ==
  CASE type = "DIGITS" -> "RECEIVING_DIGITS"
    [] type = "OFFERED" -> "INCOMING"
    [] type = "ACCEPT" -> "ACCEPTING"
    [] type = "DIALING" -> "PLACING"
    [] type = "ANSWERED" -> "ANSWERING"
    [] type = "DROPCALL" -> "DISCONNECTED"
    [] type = "RELEASECALL" -> "INVALID"
    [] OTHER -> type

OutboundEvent == {"DIALING", "PROCEEDING", "ALERTING", "CONNECTED"}

\* The events whose handlers wait for MakeCallMutex.
Locking == OutboundEvent \union {"DROPCALL", "RELEASECALL"}

\* Mutant: only the handlers that end a call take the mutex.
LocksToEnd(type) == type \in {"DROPCALL", "RELEASECALL"}

Locks(type) == type \in Locking

Held(l) == app.pc # "idle" /\ app.line = l

\* sr_waitevtEx: the next event of some line.
WorkTake(l) ==
  /\ work.pc = "wait" /\ events[l] # <<>>
  /\ work' = [pc |-> IF Locks(Head(events[l]).type) THEN "lock" ELSE "handle",
              line |-> l, ev |-> Head(events[l])]
  /\ events' = [events EXCEPT ![l] = Tail(@)]
  /\ UNCHANGED <<lineVars, app, phase, crn, calls, waiting, restVars>>

\* The handler takes the mutex and lets it go.
WorkLock ==
  /\ work.pc = "lock" /\ ~ Held(work.line)
  /\ work' = [work EXCEPT !.pc = "handle"]
  /\ UNCHANGED <<lineVars, app, boardVars>>

\* OnSeizureDetected: only an idle line takes the call.
WorkSeizure ==
  /\ work.pc = "handle" /\ work.ev.type = "DETECTED"
  /\ IF State[work.line] = "IDLE"
       THEN /\ CallState' = [CallState EXCEPT ![work.line] = "SEIZURE"]
            /\ mine' = [mine EXCEPT ![work.line] = 0]
            /\ work' = [work EXCEPT !.pc = "toActive"]
       ELSE work' = Wait /\ UNCHANGED <<CallState, mine>>
  /\ UNCHANGED <<State, m_crn, Total, app, boardVars>>

\* Mutant: the number of an incoming call is not kept.
WorkOfferedUnnumbered ==
  /\ work.pc = "handle" /\ work.ev.type = "OFFERED"
  /\ LET l == work.line IN
       IF CallState[l] \in Heard("OFFERED")
         THEN /\ CallState' = [CallState EXCEPT ![l] = Becomes("OFFERED")]
              /\ mine' = [mine EXCEPT ![l] = work.ev.crn]
         ELSE UNCHANGED <<CallState, mine>>
  /\ work' = Wait
  /\ UNCHANGED <<State, m_crn, Total, app, boardVars>>

\* GCEV_OFFERED: the call's number is kept, then OnIncoming.
WorkOffered ==
  /\ work.pc = "handle" /\ work.ev.type = "OFFERED"
  /\ LET l == work.line IN
     /\ m_crn' = [m_crn EXCEPT ![l] = work.ev.crn]
     /\ IF CallState[l] \in Heard("OFFERED")
          THEN /\ CallState' = [CallState EXCEPT ![l] = Becomes("OFFERED")]
               /\ mine' = [mine EXCEPT ![l] = work.ev.crn]
          ELSE UNCHANGED <<CallState, mine>>
  /\ work' = Wait
  /\ UNCHANGED <<State, Total, app, boardVars>>

\* The handlers that move a call on.  GCEV_ANSWERED goes on to OnConnected.
WorkCall ==
  /\ work.pc = "handle"
  /\ work.ev.type \in {"DIGITS", "ACCEPT", "ANSWERED"} \union OutboundEvent
  /\ CallState' = IF CallState[work.line] \in Heard(work.ev.type)
                    THEN [CallState EXCEPT ![work.line] = Becomes(work.ev.type)]
                    ELSE CallState
  /\ work' = IF work.ev.type = "ANSWERED"
               THEN [work EXCEPT !.pc = "lock", !.ev.type = "CONNECTED"] ELSE Wait
  /\ UNCHANGED <<State, m_crn, Total, mine, app, boardVars>>

\* GCEV_DISCONNECTED, GCEV_CALLSTATUS: the near end hangs up.
WorkHangup ==
  /\ work.pc = "handle" /\ work.ev.type \in {"DISCONNECTED", "CALLSTATUS"}
  /\ HangupCall(work.line)
  /\ work' = Wait
  /\ UNCHANGED <<lineVars, app, crn, calls, waiting, restVars>>

\* OnDisconnected: a call in no state is not released.
WorkDropped ==
  /\ work.pc = "handle" /\ work.ev.type = "DROPCALL"
  /\ IF CallState[work.line] \in Heard("DROPCALL")
       THEN /\ CallState' = [CallState EXCEPT ![work.line] = Becomes("DROPCALL")]
            /\ ReleaseCall(work.line)
       ELSE UNCHANGED <<CallState, phase, events>>
  /\ work' = Wait
  /\ UNCHANGED <<State, m_crn, Total, mine, app, crn, calls, waiting, restVars>>

\* OnReleased, setCallState's first half.
WorkReleased ==
  /\ work.pc = "handle" /\ work.ev.type = "RELEASECALL"
  /\ CallState' = [CallState EXCEPT ![work.line] = Becomes("RELEASECALL")]
  /\ mine' = [mine EXCEPT ![work.line] = 0]
  /\ work' = [work EXCEPT !.pc = "switch"]
  /\ UNCHANGED <<State, m_crn, Total, app, boardVars>>

\* setCallState reads CallState again: makeCall may have written it since.
WorkSwitch ==
  /\ work.pc = "switch"
  /\ work' = [work EXCEPT !.pc = IF CallState[work.line] = "INVALID" THEN "toIdle"
                                                                   ELSE "toActive"]
  /\ UNCHANGED <<lineVars, app, boardVars>>

\* setCallState's second half.
WorkSetState ==
  /\ \/ work.pc = "toIdle" /\ SetState(work.line, "IDLE")
     \/ work.pc = "toActive" /\ SetState(work.line, "ACTIVE")
  /\ work' = Wait
  /\ UNCHANGED <<CallState, m_crn, mine, app, boardVars>>

\* OnBlock; gc_WaitCall and OnUnblock.
WorkAlarm ==
  /\ work.pc = "handle"
  /\ \/ /\ work.ev.type = "BLOCKED"
        /\ SetState(work.line, "BLOCKING") /\ UNCHANGED waiting
     \/ /\ work.ev.type = "UNBLOCKED"
        /\ waiting' = [waiting EXCEPT ![work.line] = TRUE]
        /\ IF State[work.line] = "BLOCKING" THEN SetState(work.line, "IDLE")
                                            ELSE UNCHANGED <<State, Total>>
  /\ work' = Wait
  /\ UNCHANGED <<CallState, m_crn, mine, app, phase, crn, calls, restVars, events>>

\* gc_ResetLineDev: the board gives up the call.
WorkFatal ==
  /\ work.pc = "handle" /\ work.ev.type = "FATALERROR"
  /\ Signals(work.line, "null", "RESETLINEDEV")
  /\ waiting' = [waiting EXCEPT ![work.line] = FALSE]
  /\ work' = Wait
  /\ UNCHANGED <<lineVars, app, crn, calls, restVars>>

\* OnClosed.  To delete a mutex that is held is undefined: not modelled.
WorkClosed ==
  /\ work.pc = "handle" /\ work.ev.type = "RESETLINEDEV" /\ ~ Held(work.line)
  /\ SetState(work.line, "CLOSED")
  /\ work' = [work EXCEPT !.pc = "reopen"]
  /\ UNCHANGED <<CallState, m_crn, mine, app, boardVars>>

\* OnOpened, gc_WaitCall, and OnUnblock, which finds the line not blocked.
WorkReopen ==
  /\ work.pc = "reopen"
  /\ IF State[work.line] = "CLOSED" THEN SetState(work.line, "UNINITIALIZED")
                                    ELSE UNCHANGED <<State, Total>>
  /\ waiting' = [waiting EXCEPT ![work.line] = TRUE]
  /\ work' = Wait
  /\ UNCHANGED <<CallState, m_crn, mine, app, phase, crn, calls, restVars, events>>

Handler ==
  \/ WorkLock \/ WorkSeizure \/ WorkOffered \/ WorkCall \/ WorkHangup
  \/ WorkDropped \/ WorkReleased \/ WorkSwitch \/ WorkSetState
  \/ WorkAlarm \/ WorkFatal \/ WorkClosed \/ WorkReopen

WorkThread == Handler \/ \E l \in Lines : WorkTake(l)

-----------------------------------------------------------------------------

\* openLines has opened every line: the counter of closed ones started at 4.
\* A line is in service from the first, or blocked.
TelInit ==
  /\ State = [l \in Lines |-> "UNINITIALIZED"]
  /\ CallState = [l \in Lines |-> "INVALID"]
  /\ m_crn = [l \in Lines |-> 0] /\ mine = [l \in Lines |-> 0]
  /\ Total = [s \in LineState |->
                CASE s = "CLOSED" -> (4 - Cardinality(Lines)) % CountSpace
                  [] s = "UNINITIALIZED" -> Cardinality(Lines) % CountSpace
                  [] OTHER -> 0]
  /\ app = Idle /\ work = Wait
  /\ phase = [l \in Lines |-> "null"] /\ crn = [l \in Lines |-> 0]
  /\ waiting = [l \in Lines |-> FALSE]
  /\ fatal = [l \in Lines |-> 0]
  /\ calls = 0 /\ alarms = 0 /\ blocked \in SUBSET Lines
  /\ events = [l \in Lines |->
                 <<Event(IF l \in blocked THEN "BLOCKED" ELSE "UNBLOCKED", 0)>>]

TelNext == Board \/ Application \/ WorkThread
TelSpec == TelInit /\ [][TelNext]_telVars

\* The work thread takes every line's events in turn, and makeCall goes on.
TelFairSpec ==
  /\ TelSpec /\ WF_telVars(Handler) /\ WF_telVars(MakingCall)
  /\ \A l \in Lines : SF_telVars(WorkTake(l))

-----------------------------------------------------------------------------

\* Every variable has its type.
LineTypeOK ==
  /\ State \in [Lines -> LineState] /\ CallState \in [Lines -> TCallState]
  /\ {m_crn, mine, crn} \subseteq [Lines -> 0 .. MaxCalls]
  /\ Total \in [LineState -> 0 .. CountSpace - 1]
  /\ app \in {Idle} \union [pc : {"register", "active"}, line : Lines]
  /\ work = Wait \/ work \in [pc : {"lock", "handle", "switch", "toIdle",
                                   "toActive", "reopen"},
                              line : Lines, ev : [type : EventType, crn : 0 .. MaxCalls]]
  /\ phase \in [Lines -> Phase] /\ waiting \in [Lines -> BOOLEAN]
  /\ calls \in 0 .. MaxCalls /\ alarms \in 0 .. MaxAlarms /\ blocked \subseteq Lines
  /\ fatal \in [Lines -> 0 .. MaxFatal]
  /\ events \in [Lines -> Seq([type : EventType, crn : 0 .. MaxCalls])]

\* tel_TotalLinesInState tells how many lines are in a state, whichever thread
\* has moved them; of the closed ones it counts four, less those opened, and
\* wraps (openLines, setState).
Accounted ==
  \A s \in LineState :
    Total[s] = (Cardinality({l \in Lines : State[l] = s})
                 + (IF s = "CLOSED" THEN 4 - Cardinality(Lines) ELSE 0)) % CountSpace

\* The work thread acts on an event of an outgoing call only after makeCall has
\* registered the call: else the guard on CallState would drop the event
\* (MakeCallMutex).
OutboundHeard ==
  app.pc = "register" /\ work.pc = "handle" /\ work.line = app.line
      /\ work.ev.type \in Locking
    => work.ev.crn # m_crn[app.line]

\* A line that is never reset does not stay active without a call, whatever its
\* two threads write in whichever order (setCallState, OnReleased).
ActiveHasCall ==
  \A l \in Lines :
    State[l] = "ACTIVE" /\ CallState[l] = "INVALID" /\ fatal[l] = 0 =>
      work.pc \in {"switch", "toIdle"} /\ work.line = l

Ended(l) == mine[l] # 0 /\ mine[l] = crn[l] /\ phase[l] \in {"disconnected", "dropped"}

\* A call that the line knows of is dropped and released at the board once
\* either end has hung up, on a line that is never reset: an event from before
\* the reset may give m_crn back the number of a call that is gone
\* (processGlobeCallEvent).
EndedIsReleased ==
  \A l \in Lines : Ended(l) ~> phase[l] = "null" \/ fatal[l] > 0

=============================================================================
