--------------------------- MODULE EdgeRegistration ---------------------------
(***************************************************************************)
(* How an agent becomes the agent of an edge: the TokenReconciler puts a   *)
(* bootstrap join token into the Edge's status, an agent installed with it *)
(* opens a tunnel, the upgrade delivers a ServiceAccount kubeconfig if the *)
(* RBACReconciler has one, and markEdgeConnected retires the join token.   *)
(*                                                                         *)
(* Updates write a whole object back and fail unless it is the version     *)
(* that was read; patches always succeed.  EdgeStatus has the connectivity *)
(* fields of the same object.                                              *)
(***************************************************************************)
EXTENDS Naturals, FiniteSets

CONSTANTS
    MaxConns,    \* tunnels the agent opens
    Tokens,      \* join tokens generateJoinToken can return
    NoToken,     \* an empty status.joinToken
    MaxAttempts, \* Steps of retry.DefaultRetry (5 in the code)
    MaxCrashes   \* crashes of the provider

ASSUME RegistrationAssumption ==
    /\ MaxConns \in Nat /\ MaxAttempts \in Nat \ {0} /\ MaxCrashes \in Nat
    /\ IsFiniteSet(Tokens) /\ NoToken \notin Tokens

Conns == 1..MaxConns
NoConn == 0
\* Who updates whole objects: the handlers, the token reconciler, and the
\* reconcilers that change other parts of the Edge (lifecycle, version).
TokenCtl == MaxConns + 1
OtherCtl == MaxConns + 2
Updaters == 1..(MaxConns + 2)

VARIABLES
    edge,      \* the registration fields of the Edge object
    copy,      \* copy[a]: the object updater a read
    rvCurrent, \* the updaters whose copy has the current resourceVersion
    issued,    \* the tokens generated so far
    saSecret,  \* the edge's kubeconfig Secret holds a ServiceAccount token
    token,     \* what TokenReconciler is about to write
    other,     \* another reconciler is about to write
    opened,    \* tunnels opened so far
    clear,     \* clear[t]: clearJoinToken of handler t
    marking,   \* marking[t]: where markEdgeConnected is ("none": not running)
    attempts,  \* attempts[t]: tries of its retry loop
    crashes,   \* crashes so far
    agentConn, \* the tunnel the agent believes in
    joinFlag,  \* the join token the agent was installed with
    kubeconfig \* the agent's: "none", "saving" (onAgentToken is running),
               \* "saved", or "lost" (delivered, but not saved)

objVars == <<edge, copy, rvCurrent, issued>>
ctrlVars == <<token, other, saSecret>>
handlerVars == <<opened, clear, marking, attempts>>
agentVars == <<agentConn, joinFlag, kubeconfig>>
vars == <<objVars, ctrlVars, handlerVars, crashes, agentVars>>

Edges == [joinToken : Tokens \cup {NoToken}, registered : {"", "False", "True"},
          regenerate : BOOLEAN]
NewEdge == [joinToken |-> NoToken, registered |-> "", regenerate |-> FALSE]

(* Types, and: only issued tokens are in use; only a handler that clears   *)
(* the token patches it away.                                              *)
TypeOK ==
    /\ edge \in Edges /\ copy \in [Updaters -> Edges]
    /\ rvCurrent \subseteq Updaters
    /\ issued \subseteq Tokens
    /\ edge.joinToken \in issued \cup {NoToken} /\ joinFlag \in issued \cup {NoToken}
    /\ \A a \in Updaters : copy[a].joinToken \in issued \cup {NoToken}
    /\ saSecret \in BOOLEAN /\ token \in {"idle", "annotation", "issue"} /\ other \in BOOLEAN
    /\ opened \in 0..MaxConns
    /\ clear \in [Conns -> BOOLEAN]
    /\ marking \in [Conns -> {"none", "clear", "get", "update"}]
    /\ \A t \in Conns : marking[t] = "clear" => clear[t]
    /\ attempts \in [Conns -> 0..MaxAttempts]
    /\ crashes \in 0..MaxCrashes
    /\ agentConn \in Conns \cup {NoConn}
    /\ kubeconfig \in {"none", "saving", "saved", "lost"}

Init ==
    /\ edge = NewEdge
    /\ copy = [a \in Updaters |-> NewEdge] /\ rvCurrent = {}
    /\ issued = {} /\ saSecret = FALSE
    /\ token = "idle" /\ other = FALSE
    /\ opened = 0
    /\ clear = [t \in Conns |-> FALSE]
    /\ marking = [t \in Conns |-> "none"]
    /\ attempts = [t \in Conns |-> 0]
    /\ crashes = 0
    /\ agentConn = NoConn /\ joinFlag = NoToken /\ kubeconfig = "none"

-----------------------------------------------------------------------------
(* The API server. *)

ReadEdge(a) ==
    /\ copy' = [copy EXCEPT ![a] = edge]
    /\ rvCurrent' = rvCurrent \cup {a}
    /\ UNCHANGED <<edge, issued>>

PatchEdge(e) ==
    /\ edge' = e
    /\ rvCurrent' = {}
    /\ UNCHANGED <<copy, issued>>

(* Update and UpdateStatus: c is what the caller keeps, with the version   *)
(* it created; NewEdge if it has no further use for the object.            *)
UpdateEdgeBlind(a, e, c) ==
    /\ edge' = e
    /\ copy' = [copy EXCEPT ![a] = c]
    /\ rvCurrent' = IF c = e THEN {a} ELSE {}
UpdateEdge(a, e, c) ==
    /\ a \in rvCurrent
    /\ edge' = e
    /\ copy' = [copy EXCEPT ![a] = c]
    /\ rvCurrent' = IF c = e THEN {a} ELSE {}

Conflict(a) ==
    /\ a \notin rvCurrent
    /\ copy' = [copy EXCEPT ![a] = NewEdge]
    /\ UNCHANGED <<edge, rvCurrent, issued>>

-----------------------------------------------------------------------------
(* The reconcilers and the user. *)

TokenReadOnRequest ==
    /\ token = "idle"
    /\ edge.regenerate /\ token' = "annotation"
    /\ ReadEdge(TokenCtl)
    /\ UNCHANGED <<other, saSecret, handlerVars, crashes, agentVars>>
TokenRead ==
    /\ token = "idle"
    /\ \/ edge.regenerate /\ token' = "annotation"
       \/ /\ ~edge.regenerate /\ edge.registered # "True" /\ edge.joinToken = NoToken
          /\ token' = "issue"
    /\ ReadEdge(TokenCtl)
    /\ UNCHANGED <<other, saSecret, handlerVars, crashes, agentVars>>

TokenClearAnnotation ==
    LET e == [copy[TokenCtl] EXCEPT !.regenerate = FALSE] IN
    /\ token = "annotation"
    /\ \/ UpdateEdge(TokenCtl, e, e) /\ token' = "issue" /\ UNCHANGED issued
       \/ Conflict(TokenCtl) /\ token' = "idle"
    /\ UNCHANGED <<other, saSecret, handlerVars, crashes, agentVars>>

(* issueToken.  A conflict ends the attempt; if it was a regeneration, the *)
(* annotation that asked for it is already gone.                           *)
TokenIssue ==
    /\ token = "issue"
    /\ \/ \E k \in Tokens \ issued :
             /\ UpdateEdge(TokenCtl, [copy[TokenCtl] EXCEPT !.joinToken = k, !.registered = "False"],
                           NewEdge)
             /\ issued' = issued \cup {k}
       \/ Conflict(TokenCtl)
    /\ token' = "idle"
    /\ UNCHANGED <<other, saSecret, handlerVars, crashes, agentVars>>

(* RBACReconciler ends with a ServiceAccount token in the Secret.          *)
ProvisionSA ==
    /\ ~saSecret
    /\ saSecret' = TRUE
    /\ UNCHANGED <<objVars, token, other, handlerVars, crashes, agentVars>>

(* A user asks for a new token (while the model has one left).             *)
RequestRegenerate ==
    /\ ~edge.regenerate /\ issued # {} /\ issued # Tokens
    /\ PatchEdge([edge EXCEPT !.regenerate = TRUE])
    /\ UNCHANGED <<ctrlVars, handlerVars, crashes, agentVars>>

(* The lifecycle and version reconcilers put back the registration fields  *)
(* they read.                                                              *)
OtherRead ==
    /\ ~other
    /\ other' = TRUE
    /\ ReadEdge(OtherCtl)
    /\ UNCHANGED <<token, saSecret, handlerVars, crashes, agentVars>>

OtherUpdateBlind ==
    /\ other
    /\ UpdateEdgeBlind(OtherCtl, copy[OtherCtl], NewEdge) /\ UNCHANGED issued
    /\ other' = FALSE
    /\ UNCHANGED <<token, saSecret, handlerVars, crashes, agentVars>>
OtherUpdate ==
    /\ other
    /\ \/ UpdateEdge(OtherCtl, copy[OtherCtl], NewEdge) /\ UNCHANGED issued
       \/ Conflict(OtherCtl)
    /\ other' = FALSE
    /\ UNCHANGED <<token, saSecret, handlerVars, crashes, agentVars>>

-----------------------------------------------------------------------------
(* The agent and its handlers. *)

(* The agent is (re)installed with the token the Edge shows.               *)
Install ==
    /\ agentConn = NoConn
    /\ edge.joinToken \notin {NoToken, joinFlag}
    /\ joinFlag' = edge.joinToken
    /\ UNCHANGED <<objVars, ctrlVars, handlerVars, crashes, agentConn, kubeconfig>>

(* clearJoinToken of the handler: not authenticated by a join token, or    *)
(* the kubeconfig goes out with the upgrade.                               *)
clearJoinTokenAlways(byJoinToken, delivered) == TRUE
clearJoinToken(byJoinToken, delivered) == ~byJoinToken \/ delivered

(* An agent authenticates with its join token or as its ServiceAccount.    *)
(* One with a static token of the hub (agent_proxy_builder_v2.go:125) is   *)
(* left out: it is sent no kubeconfig, and the join token is cleared.      *)
Connect(t) ==
    LET byJoinToken == kubeconfig # "saved"
        delivered == byJoinToken /\ saSecret IN
    /\ t = opened + 1
    /\ agentConn = NoConn
    /\ byJoinToken => joinFlag # NoToken /\ joinFlag = edge.joinToken
    /\ opened' = t
    /\ clear' = [clear EXCEPT ![t] = clearJoinToken(byJoinToken, delivered)]
    /\ marking' = [marking EXCEPT ![t] = IF clear'[t] THEN "clear" ELSE "get"]
    /\ agentConn' = t
    /\ kubeconfig' = IF delivered THEN "saving" ELSE kubeconfig
    /\ UNCHANGED <<objVars, ctrlVars, attempts, crashes, joinFlag>>

(* onAgentToken ends: the kubeconfig is saved and its token used from now  *)
(* on, or saving it failed (or the agent died) and the join token is all   *)
(* the agent has.                                                          *)
Save ==
    /\ kubeconfig = "saving"
    /\ kubeconfig' \in {"saved", "lost"}
    /\ UNCHANGED <<objVars, ctrlVars, handlerVars, crashes, agentConn, joinFlag>>

(* The tunnel ends.  (In a cluster the agent exits as soon as it has saved *)
(* the kubeconfig, and starts again.)                                      *)
AgentLose ==
    /\ agentConn # NoConn /\ kubeconfig # "saving"
    /\ agentConn' = NoConn
    /\ UNCHANGED <<objVars, ctrlVars, handlerVars, crashes, joinFlag, kubeconfig>>

MarkClear(t) ==
    /\ marking[t] = "clear"
    /\ PatchEdge([edge EXCEPT !.joinToken = NoToken])
    /\ marking' = [marking EXCEPT ![t] = "get"]
    /\ UNCHANGED <<ctrlVars, opened, clear, attempts, crashes, agentVars>>

MarkGet(t) ==
    /\ marking[t] = "get"
    /\ ReadEdge(t)
    /\ marking' = [marking EXCEPT ![t] = "update"]
    /\ attempts' = [attempts EXCEPT ![t] = @ + 1]
    /\ UNCHANGED <<ctrlVars, opened, clear, crashes, agentVars>>

MarkTarget(t) ==
    [copy[t] EXCEPT !.registered = "True",
                    !.joinToken = IF clear[t] THEN NoToken ELSE copy[t].joinToken]

MarkReturn(t) ==
    /\ marking' = [marking EXCEPT ![t] = "none"]
    /\ clear' = [clear EXCEPT ![t] = FALSE]
    /\ attempts' = [attempts EXCEPT ![t] = 0]

MarkUpdateUnlimited(t) ==
    /\ marking[t] = "update"
    /\ \/ UpdateEdge(t, MarkTarget(t), NewEdge) /\ MarkReturn(t) /\ UNCHANGED issued
       \/ /\ Conflict(t)
          /\ marking' = [marking EXCEPT ![t] = "get"]
          /\ UNCHANGED <<clear, attempts>>
    /\ UNCHANGED <<ctrlVars, opened, crashes, agentVars>>
MarkUpdate(t) ==
    /\ marking[t] = "update"
    /\ \/ UpdateEdge(t, MarkTarget(t), NewEdge) /\ MarkReturn(t) /\ UNCHANGED issued
       \/ Conflict(t) /\ attempts[t] = MaxAttempts /\ MarkReturn(t)
       \/ /\ Conflict(t) /\ attempts[t] < MaxAttempts
          /\ marking' = [marking EXCEPT ![t] = "get"]
          /\ UNCHANGED <<clear, attempts>>
    /\ UNCHANGED <<ctrlVars, opened, crashes, agentVars>>

(* The provider dies with all its goroutines and comes back.               *)
Crash ==
    /\ crashes < MaxCrashes
    /\ crashes' = crashes + 1
    /\ clear' = [t \in Conns |-> FALSE]
    /\ marking' = [t \in Conns |-> "none"]
    /\ attempts' = [t \in Conns |-> 0]
    /\ copy' = [a \in Updaters |-> NewEdge] /\ rvCurrent' = {}
    /\ token' = "idle" /\ other' = FALSE
    /\ UNCHANGED <<edge, issued, saSecret, opened, agentVars>>

-----------------------------------------------------------------------------
HandlerStep(t) ==
    \/ MarkClear(t) \/ MarkGet(t) \/ MarkUpdate(t)
TokenStep == TokenRead \/ TokenClearAnnotation \/ TokenIssue
OtherStep == OtherRead \/ OtherUpdate
AgentStep == Install \/ Save \/ AgentLose

Next ==
    \/ \E t \in Conns : Connect(t) \/ HandlerStep(t)
    \/ TokenStep \/ ProvisionSA \/ RequestRegenerate \/ OtherStep
    \/ AgentStep \/ Crash

Spec == Init /\ [][Next]_vars

(* controller-runtime retries a failed Reconcile, and the other writers    *)
(* leave gaps of seconds: a repeated update wins at last (SF).             *)
FairSpec ==
    /\ Spec
    /\ WF_vars(TokenStep)
    /\ SF_vars(TokenCtl \in rvCurrent /\ TokenClearAnnotation)
    /\ SF_vars(TokenCtl \in rvCurrent /\ TokenIssue)

-----------------------------------------------------------------------------
(* A join token is good until it is cleared or replaced, and never again:  *)
(* no reconciler or handler writes an old token back with a stale copy.    *)
TokenNeverRevived ==
    [][edge'.joinToken # edge.joinToken => edge'.joinToken \notin issued]_vars

(* "clearJoinToken should only be true when the agent has received a       *)
(* durable credential": a registered edge whose join token is gone has an  *)
(* agent that was sent a kubeconfig, however often tunnels, regenerations  *)
(* and crashes interleave.  (Sent, not saved: see the README.)             *)
NoStrandedAgent ==
    edge.registered = "True" /\ edge.joinToken = NoToken => kubeconfig # "none"

(* An edge does not stay without both a registration and a token: it is    *)
(* offered one (as long as the model has tokens left).                     *)
TokenOffered ==
    []<>(edge.registered = "True" \/ edge.joinToken # NoToken \/ issued = Tokens)
===============================================================================
