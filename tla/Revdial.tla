------------------------------- MODULE Revdial -------------------------------
(***************************************************************************)
(* The reverse-dial protocol of provider-sdk/revdial: the hub's Dialer and *)
(* the agent's Listener share one control connection; a Dial makes the hub *)
(* send "conn-ready", the agent's grabConn answers with a pick-up socket   *)
(* or with "pickup-failed", and the hub hands either to SOME waiting Dial: *)
(* answers are not correlated with the Dial that caused them.              *)
(*                                                                         *)
(* A Dial call d also names the request it causes.  Keep-alives and pongs  *)
(* are left out: they arrive exactly while the link and the agent live, so *)
(* what they decide is when the 60s read deadlines fire.                   *)
(***************************************************************************)
EXTENDS Naturals, FiniteSets

CONSTANTS
    Dials,        \* Dial calls users make, each once
    Backlog,      \* capacity of Listener.connc (8 in the code)
    AllowCancel   \* may the context of a Dial end first?

ASSUME RevdialAssumption ==
    /\ IsFiniteSet(Dials)
    /\ {"select", "read", "exit"} \cap Dials = {}
    /\ Backlog \in Nat
    /\ AllowCancel \in BOOLEAN

VARIABLES
    linkUp,   \* the control connection still carries bytes
    donec,    \* Dialer.donec is closed (and the dialer is unregistered)
    lnClosed, \* Listener.closed (connc and donec are closed)
    panicked, \* the agent process died in a send on the closed connc
    dial,     \* dial[d]: where the call is
    req,      \* req[d]: where the request caused by d, or its answer, is
    agentEnd, \* agentEnd[d]: where the agent's end of pick-up socket d is
    writer,   \* the hub's write loop: "select", "exit" or the Dial it serves
    reader    \* the hub's read loop: "read", "exit" or the failure it holds

hubVars == <<donec, writer, reader>>
agentVars == <<lnClosed, panicked, agentEnd>>
dialVars == <<linkUp, hubVars, agentVars, dial, req>>

DialStates == {"idle", "ready", "waiting", "conn", "error"}
ReqStates == {"none", "sending", "asked", "grabbing", "matching", "failmsg",
              "failed", "done", "lost", "leaked"}
AgentEnds == {"none", "dialed", "queued", "accepted", "dropped"}

\* A request whose answer can still reach a Dial.
Pending == {d \in Dials : req[d] \in {"sending", "asked", "grabbing", "matching",
                                      "failmsg", "failed"}}
Waiting == {d \in Dials : dial[d] = "waiting"}

(* Types, and what ties the loops to the requests: a loop that holds a     *)
(* request holds one in the matching state, and a Dial that serve has not  *)
(* accepted has caused nothing.                                            *)
DialTypeOK ==
    /\ linkUp \in BOOLEAN /\ donec \in BOOLEAN
    /\ lnClosed \in BOOLEAN /\ panicked \in BOOLEAN
    /\ dial \in [Dials -> DialStates]
    /\ req \in [Dials -> ReqStates]
    /\ agentEnd \in [Dials -> AgentEnds]
    /\ writer \in Dials \cup {"select", "exit"}
    /\ reader \in Dials \cup {"read", "exit"}
    /\ writer \in Dials => req[writer] = "sending" \/ donec
    /\ reader \in Dials => req[reader] = "failed"
    /\ \A d \in Dials : dial[d] \in {"idle", "ready"} => req[d] = "none"

DialInit ==
    /\ linkUp = TRUE /\ donec = FALSE /\ lnClosed = FALSE /\ panicked = FALSE
    /\ dial = [d \in Dials |-> "idle"]
    /\ req = [d \in Dials |-> "none"]
    /\ agentEnd = [d \in Dials |-> "none"]
    /\ writer = "select"
    /\ reader = "read"

-----------------------------------------------------------------------------
(* The hub: Dialer. *)

SetDial(d, s) == dial' = [dial EXCEPT ![d] = s]
SetReq(d, s) == req' = [req EXCEPT ![d] = s]

(* Dial enters its first select. *)
DialCall(d) ==
    /\ dial[d] = "idle"
    /\ SetDial(d, "ready")
    /\ UNCHANGED <<linkUp, hubVars, agentVars, req>>

(* The rendezvous on connReady with the write loop of serve. *)
ConnReady(d) ==
    /\ dial[d] = "ready" /\ writer = "select" /\ ~donec
    /\ SetDial(d, "waiting")
    /\ SetReq(d, "sending")
    /\ writer' = d
    /\ UNCHANGED <<linkUp, donec, reader, agentVars>>

(* The write loop sends conn-ready and goes round (keep-alive included).   *)
(* On a dead link the bytes go no further than the socket buffer.          *)
WriterSend(d) ==
    /\ writer = d /\ ~donec
    /\ SetReq(d, IF linkUp /\ ~lnClosed THEN "asked" ELSE "lost")
    /\ writer' = "select"
    /\ UNCHANGED <<linkUp, donec, reader, agentVars, dial>>

(* A write fails (its deadline, a reset): serve returns and closes.        *)
WriterError ==
    /\ ~donec /\ writer # "exit" /\ (~linkUp \/ lnClosed)
    /\ donec' = TRUE
    /\ writer' = "exit"
    /\ UNCHANGED <<linkUp, reader, agentVars, dial, req>>

WriterDone ==
    /\ donec /\ writer # "exit"
    /\ writer' = "exit"
    /\ UNCHANGED <<linkUp, donec, reader, agentVars, dial, req>>

(* The read loop takes a pickup-failed message and blocks until SOME Dial  *)
(* takes the error.                                                        *)
ReadFailure(d) ==
    /\ reader = "read" /\ ~donec /\ req[d] = "failmsg"
    /\ reader' = d
    /\ SetReq(d, "failed")
    /\ UNCHANGED <<linkUp, donec, writer, agentVars, dial>>

\* Mutant: the read loop keeps the failure it has handed over.
DeliverFailureKept(d, e) ==
    /\ reader = d /\ dial[e] = "waiting"
    /\ SetDial(e, "error")
    /\ SetReq(d, "done")
    /\ UNCHANGED <<linkUp, hubVars, agentVars>>

DeliverFailure(d, e) ==
    /\ reader = d /\ dial[e] = "waiting"
    /\ SetDial(e, "error")
    /\ SetReq(d, "done")
    /\ reader' = "read"
    /\ UNCHANGED <<linkUp, donec, writer, agentVars>>

\* Mutant: no read deadline, only the peer's close ends a read.
ReaderTimeoutNone ==
    /\ reader = "read" /\ ((linkUp /\ lnClosed) \/ donec)
    /\ reader' = "exit"
    /\ donec' = TRUE
    /\ UNCHANGED <<linkUp, writer, agentVars, dial, req>>

(* EOF or the read deadline, which only a reader that reads can meet.      *)
ReaderTimeout ==
    /\ reader = "read" /\ (~linkUp \/ lnClosed \/ donec)
    /\ reader' = "exit"
    /\ donec' = TRUE
    /\ UNCHANGED <<linkUp, writer, agentVars, dial, req>>

ReaderDone ==
    /\ donec /\ reader \in Dials
    /\ reader' = "exit"
    /\ UNCHANGED <<linkUp, donec, writer, agentVars, dial, req>>

(* ConnHandler -> matchConn: the pick-up socket d goes to SOME Dial.       *)
DeliverConn(d, e) ==
    /\ req[d] = "matching" /\ dial[e] = "waiting"
    /\ SetDial(e, "conn")
    /\ SetReq(d, "done")
    /\ UNCHANGED <<linkUp, hubVars, agentVars>>

(* matchConn gives up on a closed dialer; nothing closes the socket.       *)
MatchDone(d) ==
    /\ donec /\ req[d] = "matching"
    /\ SetReq(d, "leaked")
    /\ UNCHANGED <<linkUp, hubVars, agentVars, dial>>

\* Mutant: the second select of Dial does not listen to donec.
DialClosedReadyOnly(d) ==
    /\ donec /\ dial[d] = "ready"
    /\ SetDial(d, "error")
    /\ UNCHANGED <<linkUp, hubVars, agentVars, req>>

(* Both selects of Dial give up on a closed dialer. *)
DialClosed(d) ==
    /\ donec /\ dial[d] \in {"ready", "waiting"}
    /\ SetDial(d, "error")
    /\ UNCHANGED <<linkUp, hubVars, agentVars, req>>

(* ... and on the end of the caller's context. *)
DialCancel(d) ==
    /\ AllowCancel /\ dial[d] \in {"ready", "waiting"}
    /\ SetDial(d, "error")
    /\ UNCHANGED <<linkUp, hubVars, agentVars, req>>

-----------------------------------------------------------------------------
(* The agent: Listener. *)

(* run reads conn-ready and starts grabConn. *)
ReadConnReady(d) ==
    /\ req[d] = "asked" /\ linkUp /\ ~lnClosed
    /\ SetReq(d, "grabbing")
    /\ UNCHANGED <<linkUp, hubVars, agentVars, dial>>

(* The pick-up dial succeeds: the hub found the dialer and upgraded.       *)
GrabDialed(d) ==
    /\ req[d] = "grabbing" /\ ~donec /\ ~panicked
    /\ SetReq(d, "matching")
    /\ agentEnd' = [agentEnd EXCEPT ![d] = "dialed"]
    /\ UNCHANGED <<linkUp, hubVars, lnClosed, panicked, dial>>

\* Mutant: a failed pick-up is only logged.
GrabFailedSilently(d) ==
    /\ req[d] = "grabbing"
    /\ SetReq(d, "lost")
    /\ UNCHANGED <<linkUp, hubVars, agentVars, dial>>

(* The pick-up dial fails (network, timeout, unknown dialer): the failure  *)
(* goes back on the control connection, if there still is one.             *)
GrabFailed(d) ==
    /\ req[d] = "grabbing"
    /\ SetReq(d, IF linkUp /\ ~lnClosed THEN "failmsg" ELSE "lost")
    /\ UNCHANGED <<linkUp, hubVars, agentVars, dial>>

(* grabConn's select.  With the listener closed BOTH cases are ready: the  *)
(* send on the closed connc panics, the receive from donec returns.        *)
GrabQueue(d) ==
    /\ agentEnd[d] = "dialed" /\ ~panicked
    /\ \/ /\ ~lnClosed
          /\ Cardinality({e \in Dials : agentEnd[e] = "queued"}) < Backlog
          /\ agentEnd' = [agentEnd EXCEPT ![d] = "queued"]
          /\ UNCHANGED panicked
       \/ /\ lnClosed
          /\ agentEnd' = [agentEnd EXCEPT ![d] = "dropped"]
          /\ panicked' \in BOOLEAN
    /\ UNCHANGED <<linkUp, hubVars, lnClosed, dial, req>>

(* Accept; what is buffered survives Close. *)
Accept(d) ==
    /\ agentEnd[d] = "queued" /\ ~panicked
    /\ agentEnd' = [agentEnd EXCEPT ![d] = "accepted"]
    /\ UNCHANGED <<linkUp, hubVars, lnClosed, panicked, dial, req>>

(* run's read fails (EOF, deadline) or its owner closes the listener.      *)
ListenerClose ==
    /\ ~lnClosed
    /\ lnClosed' = TRUE
    /\ UNCHANGED <<linkUp, hubVars, panicked, agentEnd, dial, req>>

(* The network silently drops the control connection. *)
LinkDies ==
    /\ linkUp
    /\ linkUp' = FALSE
    /\ UNCHANGED <<hubVars, agentVars, dial, req>>

-----------------------------------------------------------------------------
DialStep(d) == ConnReady(d) \/ DialClosed(d)

HubStep ==
    \/ WriterDone \/ ReaderTimeout \/ ReaderDone
    \/ \E d \in Dials : WriterSend(d) \/ ReadFailure(d)

AgentStep(d) ==
    ReadConnReady(d) \/ GrabDialed(d) \/ GrabFailed(d) \/ GrabQueue(d) \/ Accept(d)

Deliver(d) == MatchDone(d) \/ \E e \in Dials : DeliverConn(d, e) \/ DeliverFailure(d, e)

ListenerTimeout == (~linkUp \/ donec) /\ ListenerClose

DialNext ==
    \/ \E d \in Dials : DialCall(d) \/ DialStep(d) \/ DialCancel(d)
    \/ \E d \in Dials : AgentStep(d) \/ Deliver(d)
    \/ HubStep \/ WriterError
    \/ ListenerClose \/ LinkDies

DialSpec == DialInit /\ [][DialNext]_dialVars

(* Fairness: every goroutine that can run does, and a read on a dead       *)
(* connection ends.  Nothing makes a write fail, a user dial or give up,   *)
(* or the network break.                                                   *)
DialFairness ==
    /\ \A d \in Dials :
          WF_dialVars(DialStep(d)) /\ WF_dialVars(AgentStep(d)) /\ WF_dialVars(Deliver(d))
    /\ WF_dialVars(HubStep)
    /\ WF_dialVars(ListenerTimeout)

DialFairSpec == DialSpec /\ DialFairness

-----------------------------------------------------------------------------
(* Properties. *)

(* No Dial waits for an answer that cannot come: on a live connection      *)
(* there are at least as many answers under way as Dials waiting, although *)
(* answers go to whichever Dial is there and callers give up at any time.  *)
AnswersCoverWaiters ==
    linkUp /\ ~lnClosed /\ ~donec => Cardinality(Waiting) <= Cardinality(Pending)

(* Every Dial returns - with a connection, a failure or "closed" -         *)
(* whatever the network, the agent and the other callers do.               *)
DialReturns == \A d \in Dials : dial[d] \in {"ready", "waiting"} ~> dial[d] \in {"conn", "error"}

(* A silently dead link closes the dialer, so that Done fires and the      *)
(* handler cleans up, unless the read loop is stuck with a failed pick-up  *)
(* that nobody takes any more.                                             *)
DeadTunnelDetectedWhileReading == ~linkUp ~> (donec \/ (reader \in Dials /\ Waiting = {}))

(* The ingress handler relies on it: "revdial's keep-alive/pong loop       *)
(* already detects dead tunnels within ~60s".                              *)
DeadTunnelDetected == ~linkUp ~> donec

(* Close "closes the Listener, making future Accept calls return an        *)
(* error": it does not take the agent process down.                        *)
CloseIsHarmless == ~panicked
=============================================================================
