------------------------------ MODULE EdgeStatus ------------------------------
(***************************************************************************)
(* Is the edge connected?  The connectivity part of an Edge's status and   *)
(* everyone who writes it: the agent-proxy handlers (edge_status.go), the  *)
(* LifecycleReconciler and the reporter of the agent.  Patches change      *)
(* fields whatever the version; updates write a whole object back and fail *)
(* unless it is still the one that was read, so no copies are kept here    *)
(* (EdgeRegistration, about the other half of the status, keeps them).     *)
(* One edge, one provider replica (EdgeTunnel has several).                *)
(***************************************************************************)
EXTENDS Naturals

CONSTANTS
    MaxConns,       \* tunnels the agent opens
    MaxAttempts,    \* Steps of retry.DefaultRetry (5 in the code)
    MaxCrashes,     \* crashes of the provider
    CleanReconnect  \* does the agent redial only after the old handler ended?

ASSUME StatusAssumption ==
    /\ MaxConns \in Nat /\ MaxAttempts \in Nat \ {0} /\ MaxCrashes \in Nat
    /\ CleanReconnect \in BOOLEAN

Conns == 1..MaxConns
NoConn == 0
\* Who updates whole objects: the handlers and the reconciler.
LifecycleCtl == MaxConns + 1
Updaters == 1..(MaxConns + 1)

VARIABLES
    edge,       \* the connectivity fields of the Edge object
    heartbeat,  \* age of status.lastHeartbeatTime: "none", "fresh" or "stale"
    rvCurrent,  \* the updaters that read the current resourceVersion
    conn,       \* conn[t]: "idle", "open" or "closed" (the handler of tunnel t)
    entry,      \* the tunnel ConnManager holds for the edge
    marking,    \* marking[t]: where markEdgeConnected is ("none": not running)
    attempts,   \* attempts[t]: tries of its retry loop
    closing,    \* closing[t]: markEdgeDisconnected is under way
    lifecycle,  \* what LifecycleReconciler is about to write
    crashes,    \* crashes so far
    agentUp,    \* the agent process runs
    agentConn,  \* the tunnel the agent believes in
    credential, \* the agent can reach the API itself, so its reporter runs
    stateChan,  \* the cap-1 stateChannel: "empty", "up" or "down"
    tunnelConnected, \* EdgeReporter.tunnelConnected
    report      \* the heartbeat patch in flight: "idle", "up" or "down"

objVars == <<edge, heartbeat, rvCurrent>>
handlerVars == <<conn, entry, marking, attempts, closing>>
hubVars == <<handlerVars, lifecycle, crashes>>
agentVars == <<agentUp, agentConn, credential>>
reportVars == <<stateChan, tunnelConnected, report>>
vars == <<objVars, hubVars, agentVars, reportVars>>

Edges == [connected : BOOLEAN, phase : {"", "Ready", "Disconnected"}]
NewEdge == [connected |-> FALSE, phase |-> ""]

TypeOK ==
    /\ edge \in Edges
    /\ heartbeat \in {"none", "fresh", "stale"}
    /\ rvCurrent \subseteq Updaters
    /\ conn \in [Conns -> {"idle", "open", "closed"}]
    /\ entry \in Conns \cup {NoConn} /\ (entry # NoConn => conn[entry] = "open")
    /\ marking \in [Conns -> {"none", "get", "update"}]
    /\ attempts \in [Conns -> 0..MaxAttempts]
    /\ closing \in [Conns -> BOOLEAN]
    /\ lifecycle \in {"idle", "disconnect", "phase"}
    /\ crashes \in 0..MaxCrashes
    /\ agentUp \in BOOLEAN /\ agentConn \in Conns \cup {NoConn}
    /\ credential \in BOOLEAN
    /\ stateChan \in {"empty", "up", "down"}
    /\ tunnelConnected \in BOOLEAN /\ report \in {"idle", "up", "down"}

Init ==
    /\ edge = NewEdge /\ heartbeat = "none"
    /\ rvCurrent = {}
    /\ conn = [t \in Conns |-> "idle"] /\ entry = NoConn
    /\ marking = [t \in Conns |-> "none"]
    /\ attempts = [t \in Conns |-> 0]
    /\ closing = [t \in Conns |-> FALSE]
    /\ lifecycle = "idle" /\ crashes = 0
    /\ agentUp = TRUE /\ agentConn = NoConn /\ credential = FALSE
    /\ stateChan = "empty" /\ tunnelConnected = FALSE /\ report = "idle"

-----------------------------------------------------------------------------
(* The API server. *)

ReadEdge(a) ==
    /\ rvCurrent' = rvCurrent \cup {a}
    /\ UNCHANGED <<edge, heartbeat>>

(* A MergePatch: whoever read the object before has an old version now.    *)
PatchEdge(e) ==
    /\ edge' = e
    /\ rvCurrent' = {}

(* Update and UpdateStatus.                                                *)
UpdateEdge(a, e) ==
    /\ a \in rvCurrent
    /\ edge' = e
    /\ rvCurrent' = {}
    /\ UNCHANGED heartbeat

Conflict(a) ==
    /\ a \notin rvCurrent
    /\ UNCHANGED objVars

(* The other writers of the object: the clearing of the join token, the    *)
(* label LifecycleReconciler stamps on an edge it first meets, the token   *)
(* and version reconcilers, a user.                                        *)
OtherWrite ==
    /\ rvCurrent # {}
    /\ PatchEdge(edge)
    /\ UNCHANGED <<heartbeat, hubVars, agentVars, reportVars>>

-----------------------------------------------------------------------------
(* LifecycleReconciler: the switch of Reconcile, then its update. *)

HasConnection == entry # NoConn

LifecycleRead ==
    /\ lifecycle = "idle"
    /\ \/ /\ edge.connected /\ (~HasConnection \/ heartbeat = "stale")
          /\ lifecycle' = "disconnect"
       \/ ~edge.connected /\ edge.phase = "Ready" /\ lifecycle' = "phase"
    /\ ReadEdge(LifecycleCtl)
    /\ UNCHANGED <<handlerVars, crashes, agentVars, reportVars>>

LifecycleTarget ==
    IF lifecycle = "disconnect"
    THEN [edge EXCEPT !.connected = FALSE, !.phase = "Disconnected"]
    ELSE [edge EXCEPT !.phase = "Disconnected"]

LifecycleWrite ==
    /\ lifecycle # "idle"
    /\ \/ UpdateEdge(LifecycleCtl, LifecycleTarget)
       \/ Conflict(LifecycleCtl)
    /\ lifecycle' = "idle"
    /\ UNCHANGED <<handlerVars, crashes, agentVars, reportVars>>

-----------------------------------------------------------------------------
(* The agent's tunnel and its handler. *)

(* A tunnel opens and markEdgeConnected starts; with the upgrade the agent *)
(* may get the credential its reporter needs.                              *)
Connect(t) ==
    /\ conn[t] = "idle" /\ \A u \in 1..(t - 1) : conn[u] # "idle"
    /\ agentUp /\ agentConn = NoConn
    /\ CleanReconnect => \A u \in Conns : conn[u] # "open"
    /\ conn' = [conn EXCEPT ![t] = "open"]
    /\ entry' = t
    /\ marking' = [marking EXCEPT ![t] = "get"]
    /\ agentConn' = t
    /\ credential' \in {credential, TRUE}
    /\ stateChan' = "up"
    /\ UNCHANGED <<objVars, attempts, closing, lifecycle, crashes, agentUp,
                   tunnelConnected, report>>

(* startTunneler returns: the tunnel ended, or none could be opened.       *)
(* sendTunnelState drops a value nobody has read.                          *)
AgentLoseNoDrain ==
    /\ agentUp
    /\ agentConn' = NoConn
    /\ stateChan' = IF stateChan = "empty" THEN "down" ELSE stateChan
    /\ UNCHANGED <<objVars, hubVars, agentUp, credential, tunnelConnected, report>>
AgentLose ==
    /\ agentUp
    /\ agentConn' = NoConn
    /\ stateChan' = "down"
    /\ UNCHANGED <<objVars, hubVars, agentUp, credential, tunnelConnected, report>>

(* The agent dies; a heartbeat in flight may still arrive.                 *)
AgentDie ==
    /\ agentUp
    /\ agentUp' = FALSE
    /\ agentConn' = NoConn
    /\ stateChan' = "empty" /\ tunnelConnected' = FALSE
    /\ UNCHANGED <<objVars, hubVars, credential, report>>

AgentStart ==
    /\ ~agentUp
    /\ agentUp' = TRUE
    /\ UNCHANGED <<objVars, hubVars, agentConn, credential, reportVars>>

(* dialer.Done: the heartbeats stop, ConnManager forgets the key, and      *)
(* markEdgeDisconnected starts.                                            *)
HandlerCloseNoDelete(t) ==
    /\ conn[t] = "open"
    /\ conn' = [conn EXCEPT ![t] = "closed"]
    /\ closing' = [closing EXCEPT ![t] = TRUE]
    /\ UNCHANGED <<objVars, entry, marking, attempts, lifecycle, crashes, agentVars, reportVars>>
HandlerClose(t) ==
    /\ conn[t] = "open"
    /\ conn' = [conn EXCEPT ![t] = "closed"]
    /\ entry' = NoConn
    /\ closing' = [closing EXCEPT ![t] = TRUE]
    /\ UNCHANGED <<objVars, marking, attempts, lifecycle, crashes, agentVars, reportVars>>

(* The retry loop of markEdgeConnected.                                    *)
MarkGet(t) ==
    /\ marking[t] = "get"
    /\ ReadEdge(t)
    /\ marking' = [marking EXCEPT ![t] = "update"]
    /\ attempts' = [attempts EXCEPT ![t] = @ + 1]
    /\ UNCHANGED <<conn, entry, closing, lifecycle, crashes, agentVars, reportVars>>

MarkReturn(t) ==
    /\ marking' = [marking EXCEPT ![t] = "none"]
    /\ attempts' = [attempts EXCEPT ![t] = 0]

MarkUpdate(t) ==
    /\ marking[t] = "update"
    /\ \/ /\ UpdateEdge(t, [edge EXCEPT !.connected = TRUE, !.phase = "Ready"])
          /\ MarkReturn(t)
       \/ Conflict(t) /\ attempts[t] = MaxAttempts /\ MarkReturn(t)
       \/ /\ Conflict(t) /\ attempts[t] < MaxAttempts
          /\ marking' = [marking EXCEPT ![t] = "get"]
          /\ UNCHANGED attempts
    /\ UNCHANGED <<conn, entry, closing, lifecycle, crashes, agentVars, reportVars>>

(* runEdgeHeartbeatLoop, while pongs arrive.                               *)
StampHeartbeat(t) ==
    /\ conn[t] = "open" /\ agentConn = t
    /\ heartbeat' = "fresh"
    /\ PatchEdge(edge)
    /\ UNCHANGED <<hubVars, agentVars, reportVars>>

MarkDisconnected(t) ==
    /\ closing[t]
    /\ PatchEdge([edge EXCEPT !.connected = FALSE, !.phase = "Disconnected"])
    /\ closing' = [closing EXCEPT ![t] = FALSE]
    /\ UNCHANGED <<heartbeat, conn, entry, marking, attempts, lifecycle, crashes,
                   agentVars, reportVars>>

(* 90 seconds pass without a stamp: no tunnel has pongs, and the agent, if *)
(* it reports, fails to.                                                   *)
HeartbeatAges ==
    /\ heartbeat = "fresh"
    /\ \A t \in Conns : ~(conn[t] = "open" /\ agentConn = t)
    /\ heartbeat' = "stale"
    /\ UNCHANGED <<edge, rvCurrent, hubVars, agentVars, reportVars>>

(* The provider dies with all its goroutines and comes back.               *)
Crash ==
    /\ crashes < MaxCrashes
    /\ crashes' = crashes + 1
    /\ conn' = [t \in Conns |-> IF conn[t] = "open" THEN "closed" ELSE conn[t]]
    /\ entry' = NoConn
    /\ marking' = [t \in Conns |-> "none"]
    /\ closing' = [t \in Conns |-> FALSE]
    /\ attempts' = [t \in Conns |-> 0]
    /\ lifecycle' = "idle"
    /\ rvCurrent' = {}
    /\ UNCHANGED <<edge, heartbeat, agentVars, reportVars>>

-----------------------------------------------------------------------------
(* EdgeReporter, which runs once the agent has a credential of its own. *)

UpDown(b) == IF b THEN "up" ELSE "down"

ReportState ==
    /\ agentUp /\ credential /\ report = "idle" /\ stateChan # "empty"
    /\ tunnelConnected' = (stateChan = "up")
    /\ stateChan' = "empty"
    /\ report' = stateChan
    /\ UNCHANGED <<objVars, hubVars, agentVars>>

ReportTick ==
    /\ agentUp /\ credential /\ report = "idle"
    /\ report' = UpDown(tunnelConnected)
    /\ UNCHANGED <<objVars, hubVars, agentVars, stateChan, tunnelConnected>>

ReportLandPhaseOnly ==
    /\ report # "idle"
    /\ PatchEdge([edge EXCEPT !.phase = "Ready"])
    /\ heartbeat' = "fresh"
    /\ report' = "idle"
    /\ UNCHANGED <<hubVars, agentVars, stateChan, tunnelConnected>>
ReportLand ==
    /\ report # "idle"
    /\ PatchEdge([edge EXCEPT !.connected = (report = "up"), !.phase = "Ready"])
    /\ heartbeat' = "fresh"
    /\ report' = "idle"
    /\ UNCHANGED <<hubVars, agentVars, stateChan, tunnelConnected>>

(* heartbeatTimeout.                                                       *)
ReportFail ==
    /\ report # "idle"
    /\ report' = "idle"
    /\ UNCHANGED <<objVars, hubVars, agentVars, stateChan, tunnelConnected>>

-----------------------------------------------------------------------------
HandlerStep(t) ==
    \/ MarkGet(t) \/ MarkUpdate(t) \/ MarkDisconnected(t)
    \/ StampHeartbeat(t) \/ HandlerClose(t)
LifecycleStep == LifecycleRead \/ LifecycleWrite
AgentStep == AgentLose \/ AgentDie \/ AgentStart
ReporterStep == ReportState \/ ReportTick \/ ReportLand \/ ReportFail

Next ==
    \/ \E t \in Conns : Connect(t) \/ HandlerStep(t)
    \/ OtherWrite \/ LifecycleStep \/ HeartbeatAges \/ Crash
    \/ AgentStep \/ ReporterStep

Spec == Init /\ [][Next]_vars

(* Goroutines run and requests return.  The periodic writers leave gaps of *)
(* seconds, so an update that is tried again and again wins at last (SF),  *)
(* and so does a heartbeat of the agent.                                   *)
StatusFairness ==
    /\ \A t \in Conns :
          /\ WF_vars(MarkGet(t)) /\ WF_vars(MarkUpdate(t)) /\ WF_vars(MarkDisconnected(t))
          /\ WF_vars(agentConn # t /\ HandlerClose(t))
          /\ WF_vars(agentConn = t /\ conn[t] = "closed" /\ AgentLose)
    /\ WF_vars(LifecycleStep) /\ SF_vars(LifecycleCtl \in rvCurrent /\ LifecycleWrite)
    /\ SF_vars(ReportState) /\ WF_vars(ReportTick) /\ SF_vars(ReportLand)

FairSpec == Spec /\ StatusFairness

-----------------------------------------------------------------------------
(* However the tunnel ended (a clean close, a dead agent, a crash of the   *)
(* provider), the Edge of an agent that stays away is shown disconnected,  *)
(* and a late report or markEdgeConnected does not bring it back.          *)
DeadEdgeShownDisconnected == <>[](entry = NoConn) => <>[](~edge.connected)

(* The Edge of an agent with a credential and a stable tunnel is shown     *)
(* connected, although markEdgeDisconnected of an earlier tunnel may land  *)
(* late and markEdgeConnected may lose all its attempts.                   *)
LiveEdgeShownConnected ==
    \A t \in Conns :
        <>[](agentConn = t /\ conn[t] = "open" /\ credential) => <>[](edge.connected)

(* "Marking the edge Ready here on every tunnel open is safe and ensures   *)
(* the hub view is always up-to-date": a stable tunnel that has once been  *)
(* marked is shown connected from then on, with or without a reporter.     *)
HubViewUpToDate ==
    \A t \in Conns :
        /\ <>[](agentConn = t /\ conn[t] = "open")
        /\ <>(conn[t] = "open" /\ marking[t] = "none" /\ edge.connected)
        => <>[](edge.connected)
===============================================================================
