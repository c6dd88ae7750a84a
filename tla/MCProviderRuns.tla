---------------------------- MODULE MCProviderRuns ----------------------------
(***************************************************************************)
(* The two providers that keep runs in Postgres beside goroutines on       *)
(* several replicas: agents and app-studio.  They share nothing, so one of *)
(* them moves (focus) while the other rests in its initial state, where no *)
(* fair action of it is enabled.                                           *)
(***************************************************************************)
EXTENDS AgentRuns, AssistantSupervisor, TLC
CONSTANTS s1, s2, q1, q2

MCServers == {s1, s2}
MCStudios == {q1, q2}

VARIABLE focus

Agents(A) == focus = "agents" /\ A /\ UNCHANGED <<focus, assistantVars>>
Studio(A) == focus = "studio" /\ A /\ UNCHANGED <<focus, agentVars>>
mcVars == <<focus, agentVars, assistantVars>>

MCInit == focus \in {"agents", "studio"} /\ AgentRunInit /\ AssistantInit

MCNext == Agents(AgentRunNext) \/ Studio(AssistantNext)

(* AgentFairness and AssistantFairness.  In a behaviour one of the two     *)
(* disjuncts is never enabled, so each conjunct is the fairness of the     *)
(* other one; TLC is faster with half as many of them.                     *)
Both(s, w, r) ==
    /\ WF_mcVars(Agents(TaskStep(w) \/ ResumeStep(w)) \/ Studio(StartStep(r)))
    /\ SF_mcVars(Agents(TurnEnds(w)) \/ Studio(\E n \in Turns : Reconcile(r, n)))
    /\ WF_mcVars(Agents(SweepRuns(s)) \/ Studio(InterruptOrphan(r)))
MCFairness ==
    /\ WF_mcVars(Agents(Age) \/ Studio(ClaimExpires)) /\ WF_mcVars(Agents(CancelStep))
    /\ Both(s1, 1, q1) /\ Both(s2, 2, q2)

MCSpec == MCInit /\ [][MCNext]_mcVars /\ MCFairness
===============================================================================
