------------------------ MODULE HubCoordinationProofs ------------------------
(***************************************************************************)
(* The three mechanisms of MCHubCoordination, for every instance of them,  *)
(* and the product of the three that TLC checks.                           *)
(*                                                                         *)
(* LeaderElection, for any number of replicas and of callbacks left over   *)
(* from old terms: a process runs the controllers of one term at most.     *)
(* TermsDoNotOverlap is not inductive by itself.  It needs that the loop   *)
(* is inside run exactly while a callback has not returned, which is part  *)
(* of LeaderTypeOK: then TakeTerm starts from no callback at all.          *)
(*                                                                         *)
(* Revdial, for any number of Dial calls: no Dial on a live connection     *)
(* waits for an answer that cannot come.                                   *)
(*                                                                         *)
(* SharedStore has SharedStoreProofs.  The product is proved to be nothing *)
(* more and nothing less than the three: it does to each what its own      *)
(* next-state relation does, and lets each do all it could do alone.       *)
(***************************************************************************)
EXTENDS MCHubCoordination, SharedStoreProofs, FiniteSetTheorems

-----------------------------------------------------------------------------
LeaderInv == LeaderTypeOK /\ TermsDoNotOverlap

(* Every replica is down, and the Lease free.                              *)
LEMMA InitLeaderInv == LeaderInit => LeaderInv
  BY LeaderAssumption DEF LeaderInit, LeaderInv, LeaderTypeOK, TermsDoNotOverlap, Terms

(* client-go's goroutine leaves the loop and the callbacks alone.          *)
LEMMA ElectorPreserves == ASSUME LeaderInv, NEW r \in Candidates, ElectorStep(r) PROVE LeaderInv'
<1> USE LeaderAssumption DEF LeaderInv, LeaderTypeOK, TermsDoNotOverlap, Terms
<1>1. CASE Acquire(r) BY <1>1 DEF Acquire
<1>2. CASE GiveUp(r) BY <1>2 DEF GiveUp
<1>3. CASE Release(r) BY <1>3 DEF Release
<1>4. CASE ElectorReturns(r) BY <1>4 DEF ElectorReturns
<1> QED BY <1>1, <1>2, <1>3, <1>4 DEF ElectorStep

(* So do the callbacks, which only fill the channel.                       *)
LEMMA CallbackPreserves == ASSUME LeaderInv, NEW r \in Candidates, CallbackStep(r) PROVE LeaderInv'
<1> USE LeaderAssumption DEF LeaderInv, LeaderTypeOK, TermsDoNotOverlap, Terms
<1>1. CASE SendTerm(r) BY <1>1 DEF SendTerm
<1>2. CASE SendOldTerm(r) BY <1>2 DEF SendOldTerm
<1> QED BY <1>1, <1>2 DEF CallbackStep

(* The loop: at its select no callback runs.                               *)
LEMMA LoopPreserves == ASSUME LeaderInv, NEW r \in Candidates, LoopStep(r) PROVE LeaderInv'
<1> USE LeaderAssumption DEF LeaderInv, LeaderTypeOK, TermsDoNotOverlap, Terms
<1>1. CASE TakeTerm(r)
  <2>1. runs[r] = {} /\ terms[r] \in Terms BY <1>1 DEF TakeTerm
  <2>2. runs' = [runs EXCEPT ![r] = {terms[r]}] BY <1>1, <2>1 DEF TakeTerm
  <2>3. {terms[r]} # Terms /\ {terms[r]} # {} BY <2>1
  <2> QED BY <1>1, <2>1, <2>2, <2>3 DEF TakeTerm
<1>2. CASE RoundLost(r) BY <1>2 DEF RoundLost
<1>3. CASE RunReturns(r) BY <1>3 DEF RunReturns
<1>4. CASE ElectorJoined(r) BY <1>4 DEF ElectorJoined
<1>5. CASE NextRound(r)
  <2>1. runs' = [runs EXCEPT ![r] = {}] BY <1>5 DEF NextRound
  <2>2. orphans' \in [Candidates -> Nat] BY <1>5 DEF NextRound
  <2> QED BY <1>5, <2>1, <2>2 DEF NextRound
<1>6. CASE LoopReturns(r) BY <1>6 DEF LoopReturns
<1> QED BY <1>1, <1>2, <1>3, <1>4, <1>5, <1>6 DEF LoopStep

(* Starts, shutdowns and crashes.                                          *)
LEMMA ProcessPreserves == ASSUME LeaderInv, NEW r \in Candidates, ProcessStep(r) PROVE LeaderInv'
<1> USE LeaderAssumption DEF LeaderInv, LeaderTypeOK, TermsDoNotOverlap, Terms
<1>1. CASE StartReplica(r) BY <1>1 DEF StartReplica
<1>2. CASE StopReplica(r) BY <1>2 DEF StopReplica
<1>3. CASE KillReplica(r) BY <1>3 DEF KillReplica
<1> QED BY <1>1, <1>2, <1>3 DEF ProcessStep

LEMMA NextLeaderInv == ASSUME LeaderInv, [LeaderNext]_leaderVars PROVE LeaderInv'
<1>1. CASE UNCHANGED leaderVars
  BY <1>1 DEF leaderVars, LeaderInv, LeaderTypeOK, TermsDoNotOverlap
<1>2. CASE LeaseRunsOut \/ LeaderStalls
  BY <1>2 DEF LeaseRunsOut, LeaderStalls, LeaderInv, LeaderTypeOK, TermsDoNotOverlap
<1> QED
  BY <1>1, <1>2, ElectorPreserves, CallbackPreserves, LoopPreserves, ProcessPreserves
  DEF LeaderNext, LeaderStep

(* The controllers of two terms never run in one process, whatever stays   *)
(* behind in the channel or in callbacks of earlier rounds.                *)
THEOREM OneTermAtATime == LeaderSpec => []TermsDoNotOverlap
<1>1. LeaderInv => TermsDoNotOverlap BY DEF LeaderInv
<1> QED BY <1>1, InitLeaderInv, NextLeaderInv, PTL DEF LeaderSpec

(* Types; the loop is inside run exactly while a callback has not returned *)
(* and no elector outlives its round.                                      *)
THEOREM LeaderTypeCorrect == LeaderSpec => []LeaderTypeOK
<1>1. LeaderInv => LeaderTypeOK BY DEF LeaderInv
<1> QED BY <1>1, InitLeaderInv, NextLeaderInv, PTL DEF LeaderSpec

-----------------------------------------------------------------------------
DialInv == DialTypeOK /\ AnswersCoverWaiters

LEMMA InitDialInv == DialInit => DialInv
  <1> SUFFICES ASSUME DialInit PROVE DialInv
    OBVIOUS
  <1>1. DialTypeOK
    BY RevdialAssumption DEF DialInit, DialTypeOK, DialStates, ReqStates, AgentEnds
  <1>2. Waiting = {} /\ Pending = {}
    BY DEF DialInit, Waiting, Pending
  <1>3. Cardinality({}) = 0
    BY FS_EmptySet
  <1> QED
    BY <1>1, <1>2, <1>3 DEF DialInv, AnswersCoverWaiters

LEMMA NextDialTypeOK ==
    ASSUME DialTypeOK, [DialNext]_dialVars
    PROVE  DialTypeOK'
  <1> USE RevdialAssumption
      DEF DialTypeOK, DialStates, ReqStates, AgentEnds, hubVars, agentVars, SetDial, SetReq
  <1>1. ASSUME NEW d \in Dials, DialCall(d) \/ DialStep(d) \/ DialCancel(d)
        PROVE  DialTypeOK'
    <2>1. CASE DialCall(d)
      BY <2>1 DEF DialCall
    <2>2. CASE ConnReady(d)
      BY <2>2 DEF ConnReady
    <2>3. CASE DialClosed(d) \/ DialCancel(d)
      BY <2>3 DEF DialClosed, DialCancel
    <2> QED
      BY <1>1, <2>1, <2>2, <2>3 DEF DialStep
  <1>2. ASSUME NEW d \in Dials, AgentStep(d) PROVE DialTypeOK'
    <2>1. CASE ReadConnReady(d)
      BY <2>1 DEF ReadConnReady
    <2>2. CASE GrabDialed(d)
      BY <2>2 DEF GrabDialed
    <2>3. CASE GrabFailed(d)
      BY <2>3 DEF GrabFailed
    <2>4. CASE GrabQueue(d)
      BY <2>4 DEF GrabQueue
    <2>5. CASE Accept(d)
      BY <2>5 DEF Accept
    <2> QED
      BY <1>2, <2>1, <2>2, <2>3, <2>4, <2>5 DEF AgentStep
  <1>3. ASSUME NEW d \in Dials, Deliver(d) PROVE DialTypeOK'
    <2>1. CASE MatchDone(d)
      BY <2>1 DEF MatchDone
    <2>2. ASSUME NEW e \in Dials, DeliverConn(d, e) PROVE DialTypeOK'
      BY <2>2 DEF DeliverConn
    <2>3. ASSUME NEW e \in Dials, DeliverFailure(d, e) PROVE DialTypeOK'
      BY <2>3 DEF DeliverFailure
    <2> QED
      BY <1>3, <2>1, <2>2, <2>3 DEF Deliver
  <1>4. CASE HubStep \/ WriterError
    <2>1. CASE WriterDone \/ ReaderTimeout \/ ReaderDone \/ WriterError
      BY <2>1 DEF WriterDone, ReaderTimeout, ReaderDone, WriterError
    <2>2. ASSUME NEW d \in Dials, WriterSend(d) PROVE DialTypeOK'
      BY <2>2 DEF WriterSend
    <2>3. ASSUME NEW d \in Dials, ReadFailure(d) PROVE DialTypeOK'
      BY <2>3 DEF ReadFailure
    <2> QED
      BY <1>4, <2>1, <2>2, <2>3 DEF HubStep
  <1>5. CASE ListenerClose \/ LinkDies
    BY <1>5 DEF ListenerClose, LinkDies
  <1>6. CASE UNCHANGED dialVars
    BY <1>6 DEF dialVars
  <1> QED
    BY <1>1, <1>2, <1>3, <1>4, <1>5, <1>6 DEF DialNext

-----------------------------------------------------------------------------
\* How a step may change the two sets, and what it does to their sizes.
LEMMA FiniteSides == IsFiniteSet(Waiting) /\ IsFiniteSet(Pending)
  BY RevdialAssumption, FS_Subset DEF Waiting, Pending

LEMMA BothGrow ==
    ASSUME NEW W, NEW P, NEW d, IsFiniteSet(W), IsFiniteSet(P), d \notin P,
           Cardinality(W) <= Cardinality(P)
    PROVE  Cardinality(W \cup {d}) <= Cardinality(P \cup {d})
  <1>1. Cardinality(W) \in Nat /\ Cardinality(P) \in Nat
    BY FS_CardinalityType
  <1>2. Cardinality(W \cup {d}) = IF d \in W THEN Cardinality(W) ELSE Cardinality(W) + 1
    BY FS_AddElement
  <1>3. Cardinality(P \cup {d}) = Cardinality(P) + 1
    BY FS_AddElement
  <1> QED
    BY <1>1, <1>2, <1>3

LEMMA BothShrink ==
    ASSUME NEW W, NEW P, NEW d \in P, NEW e \in W, IsFiniteSet(W), IsFiniteSet(P),
           Cardinality(W) <= Cardinality(P)
    PROVE  Cardinality(W \ {e}) <= Cardinality(P \ {d})
  <1>1. Cardinality(W) \in Nat /\ Cardinality(P) \in Nat
    BY FS_CardinalityType
  <1>2. Cardinality(W \ {e}) = Cardinality(W) - 1
    BY FS_RemoveElement
  <1>3. Cardinality(P \ {d}) = Cardinality(P) - 1
    BY FS_RemoveElement
  <1> QED
    BY <1>1, <1>2, <1>3

LEMMA WaitersShrink ==
    ASSUME NEW W, NEW P, NEW V, V \subseteq W, IsFiniteSet(W), IsFiniteSet(P),
           Cardinality(W) <= Cardinality(P)
    PROVE  Cardinality(V) <= Cardinality(P)
  BY FS_Subset, FS_CardinalityType

LEMMA NextCover ==
    ASSUME DialTypeOK, AnswersCoverWaiters, [DialNext]_dialVars
    PROVE  AnswersCoverWaiters'
  <1> DEFINE Live == linkUp /\ ~lnClosed /\ ~donec
  <1> SUFFICES ASSUME Live' PROVE Cardinality(Waiting') <= Cardinality(Pending')
    BY DEF AnswersCoverWaiters
  <1>a. Live
    BY DEF DialTypeOK, DialNext, DialCall, DialStep, ConnReady, DialClosed, DialCancel, AgentStep,
        ReadConnReady, GrabDialed, GrabFailed, GrabQueue, Accept, Deliver, MatchDone,
        DeliverConn, DeliverFailure, HubStep, WriterDone, ReaderTimeout, ReaderDone,
        WriterSend, ReadFailure, WriterError, ListenerClose, LinkDies, dialVars, hubVars,
        agentVars
  <1>b. Cardinality(Waiting) <= Cardinality(Pending)
    BY <1>a DEF AnswersCoverWaiters
  <1> USE <1>a, <1>b, FiniteSides DEF DialTypeOK, SetDial, SetReq, hubVars, agentVars
  <1>0. CASE Waiting' \subseteq Waiting /\ Pending' = Pending
    BY <1>0, WaitersShrink
  <1>1. ASSUME NEW d \in Dials, ConnReady(d)
        PROVE  Cardinality(Waiting') <= Cardinality(Pending')
    <2>1. Waiting' = Waiting \cup {d}
      BY <1>1 DEF ConnReady, Waiting
    <2>2. Pending' = Pending \cup {d} /\ d \notin Pending
      BY <1>1 DEF ConnReady, Pending
    <2> QED
      BY <2>1, <2>2, BothGrow
  <1>2. ASSUME NEW d \in Dials, DialCall(d) \/ DialClosed(d) \/ DialCancel(d)
        PROVE  Waiting' \subseteq Waiting /\ Pending' = Pending
    BY <1>2 DEF DialCall, DialClosed, DialCancel, Waiting, Pending
  <1>3. ASSUME NEW d \in Dials, AgentStep(d)
        PROVE  Waiting' \subseteq Waiting /\ Pending' = Pending
    BY <1>3
    DEF AgentStep, ReadConnReady, GrabDialed, GrabFailed, GrabQueue, Accept, Waiting,
        Pending
  <1>4. ASSUME NEW d \in Dials, NEW e \in Dials, DeliverConn(d, e) \/ DeliverFailure(d, e)
        PROVE  Cardinality(Waiting') <= Cardinality(Pending')
    <2>1. Waiting' = Waiting \ {e} /\ e \in Waiting
      BY <1>4 DEF DeliverConn, DeliverFailure, Waiting
    <2>2. Pending' = Pending \ {d} /\ d \in Pending
      BY <1>4 DEF DeliverConn, DeliverFailure, Pending
    <2> QED
      BY <2>1, <2>2, BothShrink
  <1>5. ASSUME NEW d \in Dials, MatchDone(d)
        PROVE  FALSE
    BY <1>5 DEF MatchDone
  <1>6. ASSUME NEW d \in Dials, WriterSend(d) \/ ReadFailure(d)
        PROVE  Waiting' \subseteq Waiting /\ Pending' = Pending
    BY <1>6 DEF WriterSend, ReadFailure, Waiting, Pending
  <1>7. CASE UNCHANGED <<dial, req>>
    BY <1>7, <1>0 DEF Waiting, Pending
  <1> QED
    BY <1>0, <1>1, <1>2, <1>3, <1>4, <1>5, <1>6, <1>7
    DEF DialNext, DialStep, Deliver, HubStep, WriterDone, ReaderTimeout, ReaderDone,
        WriterError, ListenerClose, LinkDies, dialVars

-----------------------------------------------------------------------------
(* DialInv is inductive, so it holds in every reachable state.                *)
THEOREM DialInvariance == DialSpec => []DialInv
  <1>1. DialInv /\ [DialNext]_dialVars => DialInv'
    BY NextDialTypeOK, NextCover DEF DialInv
  <1> QED
    BY <1>1, InitDialInv, PTL DEF DialSpec

(* The states of the Dials, requests and loops stay consistent.            *)
THEOREM DialTypeCorrect == DialSpec => []DialTypeOK
  BY DialInvariance, PTL DEF DialInv

(* On a live control connection every waiting Dial has an answer under     *)
(* way, although revdial does not correlate answers with calls.            *)
THEOREM NoStarvedDial == DialSpec => []AnswersCoverWaiters
  BY DialInvariance, PTL DEF DialInv

-----------------------------------------------------------------------------
(* The product. *)

mcVars == <<focus, vars, leaderVars, dialVars>>

LEMMA ProductStep ==
    ASSUME [MCNext]_mcVars
    PROVE  [Next]_vars /\ [LeaderNext]_leaderVars /\ [DialNext]_dialVars
  BY DEF MCNext, mcVars

(* What TLC sees of the store, of an election or of a control connection   *)
(* in the product is a behaviour of that mechanism alone.                  *)
THEOREM ProductProjects == MCSpec => Spec /\ LeaderSpec /\ DialSpec
<1>1. MCInit => Init /\ LeaderInit /\ DialInit BY DEF MCInit
<1> QED BY <1>1, ProductStep, PTL DEF MCSpec, mcVars, Spec, LeaderSpec, DialSpec

(* The type invariants of the three hold together.                         *)
THEOREM ProductTypesOK == MCSpec => []TypesOK
<1>1. TypeOK /\ LeaderTypeOK /\ DialTypeOK => TypesOK BY DEF TypesOK
<1> QED BY <1>1, ProductProjects, TypeCorrect, LeaderTypeCorrect, DialTypeCorrect, PTL
==============================================================================
