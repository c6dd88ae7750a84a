------------------------ MODULE EdgeRegistrationProofs ------------------------
(***************************************************************************)
(* The safety properties of EdgeRegistration for any number of tunnels,    *)
(* tokens, retries and crashes.                                            *)
(***************************************************************************)
EXTENDS EdgeRegistration, TLAPS

(* The object part of TypeOK, and: a copy at the current resourceVersion   *)
(* is the object, so a whole-object update puts nothing old back.          *)
ObjOK ==
    /\ edge \in Edges /\ copy \in [Updaters -> Edges]
    /\ rvCurrent \subseteq Updaters
    /\ issued \subseteq Tokens
    /\ edge.joinToken \in issued \cup {NoToken}
    /\ \A a \in Updaters : copy[a].joinToken \in issued \cup {NoToken}
    /\ \A a \in rvCurrent : copy[a] = edge

(* No handler clears the token of an agent that was sent no kubeconfig...  *)
ClearNeedsKubeconfig == kubeconfig = "none" => \A t \in Conns : ~clear[t]

(* ... so such an agent finds a token unless no handler ever served it.    *)
TokenStays ==
    kubeconfig = "none" /\ edge.joinToken = NoToken =>
        edge.registered # "True" /\ \A t \in Conns : marking[t] = "none"

(* The retry loop never starts a try it has not left, and no loop runs for *)
(* a tunnel that was not opened.                                           *)
AttemptsLeft ==
    \A t \in Conns :
        /\ marking[t] # "update" => attempts[t] < MaxAttempts
        /\ opened < t => marking[t] = "none"

IInv == TypeOK /\ ObjOK /\ AttemptsLeft /\ ClearNeedsKubeconfig /\ TokenStays

-----------------------------------------------------------------------------
(* What the requests to the API server do to the object and its copies. *)

LEMMA UpdaterSets ==
    /\ TokenCtl \in Updaters /\ OtherCtl \in Updaters /\ Conns \subseteq Updaters
    /\ NewEdge \in Edges /\ NewEdge.joinToken = NoToken
    /\ NoToken \notin Tokens
BY RegistrationAssumption DEF TokenCtl, OtherCtl, Conns, Updaters, NewEdge, Edges

(* A read keeps the object and takes an exact copy.                        *)
LEMMA ReadKeeps ==
    ASSUME ObjOK, NEW a \in Updaters, ReadEdge(a)
    PROVE  ObjOK' /\ edge' = edge /\ issued' = issued
BY DEF ObjOK, ReadEdge

LEMMA ConflictKeeps ==
    ASSUME ObjOK, NEW a \in Updaters, Conflict(a)
    PROVE  ObjOK' /\ edge' = edge /\ issued' = issued
BY UpdaterSets DEF ObjOK, Conflict

LEMMA PatchKeeps ==
    ASSUME ObjOK, NEW e \in Edges, e.joinToken \in issued \cup {NoToken}, PatchEdge(e)
    PROVE  ObjOK' /\ issued' = issued
BY DEF ObjOK, PatchEdge

LEMMA UpdateKeeps ==
    ASSUME ObjOK, NEW a \in Updaters, NEW e \in Edges, NEW c \in Edges, UpdateEdge(a, e, c),
           issued \subseteq issued', issued' \subseteq Tokens,
           e.joinToken \in issued' \cup {NoToken}, c.joinToken \in issued' \cup {NoToken}
    PROVE  ObjOK'
BY DEF ObjOK, UpdateEdge

-----------------------------------------------------------------------------
LEMMA InitIInv == Init => IInv
<1> SUFFICES ASSUME Init PROVE IInv
  OBVIOUS
<1>1. ObjOK
  BY UpdaterSets DEF Init, ObjOK
<1>a. clear \in [Conns -> BOOLEAN] /\ \A t \in Conns : ~clear[t]
  BY DEF Init
<1>b. attempts \in [Conns -> 0..MaxAttempts] /\ 0 \in 0..MaxConns /\ 0 \in 0..MaxCrashes
  BY RegistrationAssumption DEF Init
<1>2. TypeOK
  BY <1>1, <1>a, <1>b DEF Init, TypeOK, ObjOK
<1>3. AttemptsLeft
  BY RegistrationAssumption DEF Init, AttemptsLeft
<1>4. ClearNeedsKubeconfig /\ TokenStays
  BY <1>a DEF Init, ClearNeedsKubeconfig, TokenStays, NewEdge
<1>. QED BY <1>1, <1>2, <1>3, <1>4 DEF IInv

(* The steps of the reconcilers and of the user.                           *)
LEMMA CtlPreserves ==
    ASSUME IInv, TokenStep \/ ProvisionSA \/ RequestRegenerate \/ OtherStep
    PROVE  IInv' /\ (edge'.joinToken # edge.joinToken => edge'.joinToken \notin issued)
<1> USE UpdaterSets DEF IInv
<1>1. CASE TokenRead
  BY <1>1, ReadKeeps DEF TokenRead, TypeOK, ObjOK, AttemptsLeft, ClearNeedsKubeconfig, TokenStays,
     handlerVars, agentVars
<1>2. CASE TokenClearAnnotation
  <2> DEFINE e == [copy[TokenCtl] EXCEPT !.regenerate = FALSE]
  <2>1. CASE UpdateEdge(TokenCtl, e, e) /\ UNCHANGED issued /\ token' = "issue"
    <3>1. e \in Edges /\ e.joinToken = edge.joinToken /\ e.registered = edge.registered
      BY <2>1 DEF ObjOK, UpdateEdge, Edges
    <3>2. ObjOK' /\ edge' = e
      BY <2>1, <3>1, UpdateKeeps DEF ObjOK, UpdateEdge
    <3>. QED BY <1>2, <2>1, <3>1, <3>2
         DEF TokenClearAnnotation, TypeOK, ObjOK, AttemptsLeft, ClearNeedsKubeconfig, TokenStays,
             handlerVars, agentVars
  <2>2. CASE Conflict(TokenCtl) /\ token' = "idle"
    BY <1>2, <2>2, ConflictKeeps DEF TokenClearAnnotation, TypeOK, ObjOK,
       AttemptsLeft, ClearNeedsKubeconfig, TokenStays, handlerVars, agentVars
  <2>. QED BY <1>2, <2>1, <2>2 DEF TokenClearAnnotation
<1>3. CASE TokenIssue
  <2>1. ASSUME NEW k \in Tokens \ issued,
               UpdateEdge(TokenCtl, [copy[TokenCtl] EXCEPT !.joinToken = k,
                                                           !.registered = "False"], NewEdge),
               issued' = issued \cup {k}
        PROVE  IInv' /\ edge'.joinToken \notin issued
    <3> DEFINE e == [copy[TokenCtl] EXCEPT !.joinToken = k, !.registered = "False"]
    <3>1. e \in Edges /\ e.joinToken = k /\ e.registered = "False"
      BY DEF ObjOK, Edges
    <3>2. ObjOK' /\ edge' = e
      BY <2>1, <3>1, UpdateKeeps DEF ObjOK, UpdateEdge
    <3>. QED BY <1>3, <2>1, <3>1, <3>2
         DEF TokenIssue, TypeOK, ObjOK, AttemptsLeft, ClearNeedsKubeconfig, TokenStays, handlerVars, agentVars
  <2>2. CASE Conflict(TokenCtl)
    BY <1>3, <2>2, ConflictKeeps DEF TokenIssue, TypeOK, ObjOK,
       AttemptsLeft, ClearNeedsKubeconfig, TokenStays, handlerVars, agentVars
  <2>. QED BY <1>3, <2>1, <2>2 DEF TokenIssue
<1>4. CASE ProvisionSA
  BY <1>4 DEF ProvisionSA, TypeOK, ObjOK, AttemptsLeft, ClearNeedsKubeconfig, TokenStays,
     objVars, handlerVars, agentVars
<1>5. CASE RequestRegenerate
  <2> DEFINE e == [edge EXCEPT !.regenerate = TRUE]
  <2>1. e \in Edges /\ e.joinToken = edge.joinToken /\ e.registered = edge.registered
    BY DEF ObjOK, Edges
  <2>2. ObjOK' /\ issued' = issued /\ edge' = e
    BY <1>5, <2>1, PatchKeeps DEF RequestRegenerate, PatchEdge, ObjOK
  <2>. QED BY <1>5, <2>1, <2>2
       DEF RequestRegenerate, TypeOK, ObjOK, AttemptsLeft, ClearNeedsKubeconfig, TokenStays,
           ctrlVars, handlerVars, agentVars
<1>6. CASE OtherRead
  BY <1>6, ReadKeeps DEF OtherRead, TypeOK, ObjOK, AttemptsLeft, ClearNeedsKubeconfig, TokenStays,
     handlerVars, agentVars
<1>7. CASE OtherUpdate
  <2>1. CASE UpdateEdge(OtherCtl, copy[OtherCtl], NewEdge) /\ UNCHANGED issued
    <3>1. copy[OtherCtl] \in Edges /\ copy[OtherCtl] = edge
      BY <2>1 DEF ObjOK, UpdateEdge
    <3>2. ObjOK' /\ edge' = edge
      BY <2>1, <3>1, UpdateKeeps DEF ObjOK, UpdateEdge
    <3>. QED BY <1>7, <2>1, <3>2
         DEF OtherUpdate, TypeOK, ObjOK, AttemptsLeft, ClearNeedsKubeconfig, TokenStays, handlerVars, agentVars
  <2>2. CASE Conflict(OtherCtl)
    BY <1>7, <2>2, ConflictKeeps DEF OtherUpdate, TypeOK, ObjOK,
       AttemptsLeft, ClearNeedsKubeconfig, TokenStays, handlerVars, agentVars
  <2>. QED BY <1>7, <2>1, <2>2 DEF OtherUpdate
<1>. QED BY <1>1, <1>2, <1>3, <1>4, <1>5, <1>6, <1>7 DEF TokenStep, OtherStep

(* The agent opens, saves and loses; a crash.  None changes the object.    *)
LEMMA AgentPreserves ==
    ASSUME IInv, (\E t \in Conns : Connect(t)) \/ AgentStep \/ Crash
    PROVE  IInv' /\ edge' = edge
<1> USE UpdaterSets DEF IInv
<1>1. ASSUME NEW t \in Conns, Connect(t) PROVE IInv' /\ edge' = edge
  <2>1. clear'[t] => kubeconfig' # "none"
    BY <1>1 DEF Connect, TypeOK, clearJoinToken
  <2>2. ObjOK' /\ edge' = edge
    BY <1>1 DEF Connect, objVars, ObjOK
  <2>3. kubeconfig' = "none" => kubeconfig = "none" /\ edge.joinToken # NoToken
    BY <1>1 DEF Connect, TypeOK
  <2>4. TypeOK'
    <3>1. clear' \in [Conns -> BOOLEAN]
      BY <1>1 DEF Connect, TypeOK, clearJoinToken
    <3>2. /\ marking' \in [Conns -> {"none", "clear", "get", "update"}]
          /\ \A u \in Conns : marking'[u] = "clear" => clear'[u]
      BY <1>1 DEF Connect, TypeOK
    <3>3. opened' \in 0..MaxConns
      BY <1>1 DEF Connect, Conns
    <3>. QED BY <1>1, <3>1, <3>2, <3>3 DEF Connect, TypeOK, objVars, ctrlVars
  <2>5. AttemptsLeft'
    BY <1>1, RegistrationAssumption DEF Connect, TypeOK, AttemptsLeft, Conns
  <2>6. \A u \in Conns \ {t} : clear'[u] = clear[u]
    BY <1>1 DEF Connect, TypeOK
  <2>7. ClearNeedsKubeconfig'
    BY <2>1, <2>3, <2>6 DEF ClearNeedsKubeconfig
  <2>8. TokenStays'
    BY <2>2, <2>3 DEF TokenStays
  <2>. QED BY <2>2, <2>4, <2>5, <2>7, <2>8
<1>2. CASE Install
  BY <1>2 DEF Install, TypeOK, ObjOK, AttemptsLeft, ClearNeedsKubeconfig, TokenStays, objVars,
     ctrlVars, handlerVars
<1>3. CASE Save
  BY <1>3 DEF Save, TypeOK, ObjOK, AttemptsLeft, ClearNeedsKubeconfig, TokenStays, objVars,
     ctrlVars, handlerVars
<1>4. CASE AgentLose
  BY <1>4 DEF AgentLose, TypeOK, ObjOK, AttemptsLeft, ClearNeedsKubeconfig, TokenStays, objVars,
     ctrlVars, handlerVars
<1>5. CASE Crash
  <2>1. ObjOK' /\ edge' = edge
    BY <1>5 DEF Crash, ObjOK
  <2>2. crashes' \in 0..MaxCrashes /\ attempts' \in [Conns -> 0..MaxAttempts]
    BY <1>5, RegistrationAssumption DEF Crash, TypeOK
  <2>a. clear' \in [Conns -> BOOLEAN]
    BY <1>5 DEF Crash
  <2>3. TypeOK'
    BY <1>5, <2>1, <2>2, <2>a DEF Crash, TypeOK, ObjOK, agentVars
  <2>4. ClearNeedsKubeconfig'
    BY <1>5 DEF Crash, ClearNeedsKubeconfig, agentVars
  <2>5. AttemptsLeft' /\ TokenStays'
    BY <1>5, RegistrationAssumption DEF Crash, AttemptsLeft, TokenStays, agentVars
  <2>. QED BY <2>1, <2>3, <2>4, <2>5
<1>. QED BY <1>1, <1>2, <1>3, <1>4, <1>5 DEF AgentStep

(* markEdgeConnected.                                                      *)
LEMMA HandlerPreserves ==
    ASSUME IInv, NEW t \in Conns, HandlerStep(t)
    PROVE  IInv' /\ (edge'.joinToken # edge.joinToken => edge'.joinToken \notin issued)
<1> USE UpdaterSets DEF IInv
<1>1. CASE MarkClear(t)
  <2> DEFINE e == [edge EXCEPT !.joinToken = NoToken]
  <2>1. e \in Edges /\ e.joinToken = NoToken
    BY DEF ObjOK, Edges
  <2>2. ObjOK' /\ issued' = issued /\ edge' = e
    BY <1>1, <2>1, PatchKeeps DEF MarkClear, PatchEdge
  <2>3. kubeconfig # "none"
    BY <1>1 DEF MarkClear, TypeOK, ClearNeedsKubeconfig
  <2>. QED BY <1>1, <2>1, <2>2, <2>3
       DEF MarkClear, TypeOK, ObjOK, AttemptsLeft, ClearNeedsKubeconfig, TokenStays, ctrlVars, agentVars
<1>2. CASE MarkGet(t)
  <2>1. ObjOK' /\ edge' = edge /\ issued' = issued
    BY <1>2, ReadKeeps DEF MarkGet
  <2>2. attempts' \in [Conns -> 0..MaxAttempts]
    BY <1>2, RegistrationAssumption DEF MarkGet, TypeOK, AttemptsLeft
  <2>. QED BY <1>2, <2>1, <2>2
       DEF MarkGet, TypeOK, ObjOK, AttemptsLeft, ClearNeedsKubeconfig, TokenStays, ctrlVars, agentVars
<1>3. CASE MarkUpdate(t)
  <2>0. /\ marking[t] = "update" /\ marking'[t] \in {"none", "get"}
        /\ marking' \in [Conns -> {"none", "clear", "get", "update"}]
        /\ \A u \in Conns \ {t} : marking'[u] = marking[u]
    BY <1>3 DEF MarkUpdate, MarkReturn, TypeOK
  <2>a. /\ clear' \in [Conns -> BOOLEAN]
        /\ \A u \in Conns \ {t} : clear'[u] = clear[u]
        /\ clear'[t] => clear[t]
    BY <1>3 DEF MarkUpdate, MarkReturn, TypeOK
  <2>b. attempts' \in [Conns -> 0..MaxAttempts] /\ AttemptsLeft'
    BY <1>3, RegistrationAssumption DEF MarkUpdate, MarkReturn, TypeOK, AttemptsLeft
  <2>c. \A u \in Conns : marking'[u] = "clear" => clear'[u]
    BY <2>0, <2>a DEF TypeOK
  <2>1. CASE UpdateEdge(t, MarkTarget(t), NewEdge) /\ UNCHANGED issued
    <3>1. /\ MarkTarget(t) \in Edges
          /\ MarkTarget(t).joinToken = IF clear[t] THEN NoToken ELSE edge.joinToken
      BY <2>1 DEF ObjOK, UpdateEdge, MarkTarget, Edges
    <3>2. ObjOK' /\ edge' = MarkTarget(t)
      BY <2>1, <3>1, UpdateKeeps DEF ObjOK, UpdateEdge
    <3>3. kubeconfig = "none" => edge.joinToken # NoToken /\ ~clear[t]
      BY <2>0 DEF TokenStays, ClearNeedsKubeconfig
    <3>4. TypeOK'
      BY <1>3, <2>0, <2>a, <2>b, <2>c, <2>1, <3>2
         DEF MarkUpdate, TypeOK, ObjOK, ctrlVars, agentVars
    <3>5. ClearNeedsKubeconfig' /\ TokenStays'
      BY <1>3, <2>a, <3>1, <3>2, <3>3, <3>4
         DEF MarkUpdate, TypeOK, ClearNeedsKubeconfig, TokenStays, agentVars
    <3>. QED BY <2>b, <3>1, <3>2, <3>4, <3>5 DEF ObjOK
  <2>2. CASE Conflict(t)
    <3>1. ObjOK' /\ edge' = edge /\ issued' = issued
      BY <2>2, ConflictKeeps
    <3>2. TypeOK'
      BY <1>3, <2>0, <2>a, <2>b, <2>c, <3>1 DEF MarkUpdate, TypeOK, ObjOK, ctrlVars, agentVars
    <3>3. ClearNeedsKubeconfig' /\ TokenStays'
      BY <1>3, <2>0, <2>a, <3>1, <3>2
         DEF MarkUpdate, TypeOK, ClearNeedsKubeconfig, TokenStays, agentVars
    <3>. QED BY <2>b, <3>1, <3>2, <3>3
  <2>. QED BY <1>3, <2>1, <2>2 DEF MarkUpdate
<1>. QED BY <1>1, <1>2, <1>3 DEF HandlerStep

LEMMA NextPreserves ==
    ASSUME IInv, Next
    PROVE  IInv' /\ (edge'.joinToken # edge.joinToken => edge'.joinToken \notin issued)
BY CtlPreserves, AgentPreserves, HandlerPreserves DEF Next

LEMMA StutterPreserves == ASSUME IInv, UNCHANGED vars PROVE IInv'
BY DEF IInv, TypeOK, ObjOK, AttemptsLeft, ClearNeedsKubeconfig, TokenStays, vars, objVars, ctrlVars,
   handlerVars, agentVars

-----------------------------------------------------------------------------
(* The inductive invariant holds in every reachable state.                 *)
THEOREM Invariance == Spec => []IInv
<1>1. IInv /\ [Next]_vars => IInv'
  BY NextPreserves, StutterPreserves
<1>. QED BY InitIInv, <1>1, PTL DEF Spec

(* Only issued tokens are in use, and the retries stay within their bound. *)
THEOREM TypeCorrect == Spec => []TypeOK
<1>1. IInv => TypeOK
  BY DEF IInv
<1>. QED BY Invariance, <1>1, PTL

(* A registered edge without a join token has an agent that was sent a     *)
(* kubeconfig (the clearJoinToken rule of the agent-proxy handler).        *)
THEOREM NobodyStranded == Spec => []NoStrandedAgent
<1>1. IInv => NoStrandedAgent
  BY DEF IInv, TokenStays, NoStrandedAgent
<1>. QED BY Invariance, <1>1, PTL

(* Whole-object updates of handlers and reconcilers never bring a token    *)
(* back that was cleared or replaced.                                      *)
THEOREM RetiredForGood == Spec => TokenNeverRevived
<1>1. IInv /\ [Next]_vars =>
        [edge'.joinToken # edge.joinToken => edge'.joinToken \notin issued]_vars
  BY NextPreserves
<1>. QED BY Invariance, <1>1, PTL DEF Spec, TokenNeverRevived
===============================================================================
