-------------------------------- MODULE Reload --------------------------------
(***************************************************************************)
(* Reload: two services of Windows.  ClientService works until a fault     *)
(* stops it, and asks ReloadService through a pipe to start it again.      *)
(* Both have the main loop of Run and the handlers that the service        *)
(* control manager (SCM) calls from a thread of its own.  The SCM and the  *)
(* pipe are external.  The time limits of the loop's waits are left out: a *)
(* wait ends at once when its event is set, else by its time limit.        *)
(***************************************************************************)
EXTENDS Naturals

CONSTANTS
  MaxControls,   \* bound: controls that the user sends
  MaxFaults      \* bound: faults of the client

Service == {"reload", "client"}

VARIABLES
  at,        \* per service: where Run is
  event,     \* per service: which of m_hStop, m_hPause, m_hContinue are set
  status,    \* per service: m_ssStatus.dwCurrentState, as the SCM has it
  pipe,      \* the pipe's one instance
  controls,  \* controls so far
  faults     \* faults so far

reloadVars == <<at, event, status, pipe, controls, faults>>
worldVars == <<status, pipe, controls, faults>>

Goes(s, place) == at' = [at EXCEPT ![s] = place]
Reports(s, state) == status' = [status EXCEPT ![s] = state]

-----------------------------------------------------------------------------
(* The handlers, and who calls them.                                       *)

\* The handles of the events are those of open objects.
Open(s) == at[s] \notin {"off", "starting"}

\* SetEvent.
Sets(s, e) ==
  event' = IF Open(s) THEN [event EXCEPT ![s] = @ \union {e}] ELSE event

Stop(s) == Reports(s, "STOP_PENDING") /\ Sets(s, "stop")
Pause(s) == Reports(s, "PAUSED") /\ Sets(s, "pause")
Continue(s) == Reports(s, "RUNNING") /\ Sets(s, "continue")
Shutdown(s) == UNCHANGED status /\ Sets(s, "stop")

\* The SCM passes a control on to a service that accepts controls.
Control(s) ==
  /\ controls < MaxControls /\ controls' = controls + 1
  /\ status[s] \in {"RUNNING", "PAUSED"}
  /\ Stop(s) \/ Pause(s) \/ Continue(s) \/ Shutdown(s)
  /\ UNCHANGED <<at, pipe, faults>>

\* StartService, by the user.
StartByHand(s) ==
  /\ status[s] = "STOPPED" /\ controls < MaxControls /\ controls' = controls + 1
  /\ Reports(s, "START_PENDING") /\ Goes(s, "starting")
  /\ UNCHANGED <<event, pipe, faults>>

-----------------------------------------------------------------------------
(* The loop of both services.                                              *)

\* Run up to its loop: new events, and ReloadService's new pipe.
Begin(s) ==
  /\ at[s] = "starting"
  /\ event' = [event EXCEPT ![s] = {}]
  /\ pipe' = IF s = "reload" THEN "created" ELSE pipe
  /\ Reports(s, "RUNNING") /\ Goes(s, "loop")
  /\ UNCHANGED <<controls, faults>>

\* The loop's condition.
TestStop(s) ==
  /\ at[s] = "loop"
  /\ Goes(s, IF "stop" \in event[s] THEN "leaving" ELSE "testPause")
  /\ UNCHANGED <<event, worldVars>>

TestPause(s) ==
  /\ at[s] = "testPause"
  /\ Goes(s, IF "pause" \in event[s] THEN "paused" ELSE "working")
  /\ UNCHANGED <<event, worldVars>>

\* The wait for m_hContinue ends: the events are reset, or m_hPause, which is
\* still set, is looked at.
Paused(s) ==
  /\ at[s] = "paused"
  /\ IF "continue" \in event[s]
       THEN Goes(s, "working") /\ event' = [event EXCEPT ![s] = @ \ {"pause", "continue"}]
       ELSE Goes(s, "pausedStill") /\ UNCHANGED event
  /\ UNCHANGED worldVars

PausedStill(s) ==
  /\ at[s] = "pausedStill"
  /\ Goes(s, IF "pause" \in event[s] THEN "leaving" ELSE "paused")
  /\ UNCHANGED <<event, worldVars>>

\* Run ends: the handles are closed, and ServiceMain reports.
Leave(s) ==
  /\ at[s] = "leaving"
  /\ Goes(s, "off") /\ Reports(s, "STOPPED")
  /\ pipe' = IF s = "reload" THEN "none" ELSE pipe
  /\ UNCHANGED <<event, controls, faults>>

-----------------------------------------------------------------------------
(* What each does in its loop.                                             *)

\* ClientService divides by a number that may be 0.
Works ==
  /\ at["client"] = "working"
  /\ \/ Goes("client", "loop") /\ UNCHANGED faults
     \/ /\ faults < MaxFaults /\ faults' = faults + 1
        /\ Goes("client", "asking")
  /\ UNCHANGED <<event, status, pipe, controls>>

\* It opens the pipe, if there is one to be opened, writes, closes it and stops.
AsksForReload ==
  /\ at["client"] = "asking"
  /\ pipe' = CASE pipe = "created" -> "asked early"
               [] pipe = "listening" -> "asked"
               [] OTHER -> pipe
  /\ Stop("client") /\ Goes("client", "loop")
  /\ UNCHANGED <<controls, faults>>

\* ConnectNamedPipe: a client that has been there already is an error.
Connects ==
  /\ at["reload"] = "working"
  /\ IF pipe = "asked early"
       THEN pipe' = "disconnected" /\ Goes("reload", "loop")
       ELSE pipe' = "listening" /\ Goes("reload", "listening")
  /\ UNCHANGED <<event, status, controls, faults>>

\* ConnectNamedPipe returns; the byte is read.
Connected ==
  /\ at["reload"] = "listening" /\ pipe = "asked"
  /\ Goes("reload", "asleep")
  /\ UNCHANGED <<event, worldVars>>

\* After three seconds: QueryStatus, Start, DisconnectNamedPipe.
Restarts ==
  /\ at["reload"] = "asleep"
  /\ IF status["client"] = "STOPPED"
       THEN /\ Reports("client", "START_PENDING")
            /\ at' = [at EXCEPT !["reload"] = "loop", !["client"] = "starting"]
       ELSE Goes("reload", "loop") /\ UNCHANGED status
  /\ pipe' = "disconnected"
  /\ UNCHANGED <<event, controls, faults>>

-----------------------------------------------------------------------------

\* The SCM has started both.
ReloadInit ==
  /\ at = [s \in Service |-> "starting"]
  /\ status = [s \in Service |-> "START_PENDING"]
  /\ event = [s \in Service |-> {}]
  /\ pipe = "none" /\ controls = 0 /\ faults = 0

Run(s) ==
  Begin(s) \/ TestStop(s) \/ TestPause(s) \/ Paused(s) \/ PausedStill(s) \/ Leave(s)

ReloadNext ==
  \/ \E s \in Service : Control(s) \/ StartByHand(s) \/ Run(s)
  \/ Works \/ AsksForReload \/ Connects \/ Connected \/ Restarts

ReloadSpec == ReloadInit /\ [][ReloadNext]_reloadVars

-----------------------------------------------------------------------------

\* "if the service got a "pause" request, wait until the user wants to
\* "continue"" (ReloadService.cpp:52-53, ClientService.cpp:48-49): a service
\* that waits leaves the wait only when it has been told to continue.
PauseWaits ==
  [][\A s \in Service :
       at[s] \in {"paused", "pausedStill"} /\ at'[s] \notin {"paused", "pausedStill"} =>
         "continue" \in event[s]]_reloadVars

=============================================================================
