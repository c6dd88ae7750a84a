---------------------------- MODULE LeaderElection ----------------------------
(***************************************************************************)
(* pkg/hub/leaderelection and its twin in provider-sdk: runWithClient      *)
(* campaigns for one Lease, runs the singleton controllers for the term it *)
(* wins, and campaigns again.  Three goroutines of a replica meet here:    *)
(* the loop, the elector of the round (client-go), and the OnStartedLeading *)
(* callback, which client-go starts and never joins.                       *)
(*                                                                         *)
(* A term context is "cur" while the elector that made it is the round's   *)
(* elector and "old" in later rounds: an old one is always cancelled.      *)
(***************************************************************************)
EXTENDS Naturals

CONSTANTS
    Candidates,   \* the replicas that campaign
    NoLeader,     \* nobody holds the Lease
    MaxOrphans    \* bound on callback goroutines left over from old terms

ASSUME LeaderAssumption ==
    /\ NoLeader \notin Candidates
    /\ MaxOrphans \in Nat

VARIABLES
    lease,     \* the holder the Lease names
    main,      \* main[r]: where runWithClient is
    elector,   \* elector[r]: where elector.Run is
    ended,     \* ended[r]: electionCtx has been cancelled
    stopped,   \* stopped[r]: the parent ctx has been cancelled
    terms,     \* terms[r]: the context in the channel of capacity one
    callback,  \* callback[r]: OnStartedLeading of this round waits to send
    orphans,   \* orphans[r]: callbacks of earlier rounds that wait to send
    runs       \* runs[r]: the terms whose run callback has not returned

leaderVars == <<lease, main, elector, ended, stopped, terms, callback, orphans, runs>>

Terms == {"cur", "old"}

(* Types, and: the loop is inside run exactly while a term's callback has  *)
(* not returned; no elector outlives its round.                            *)
LeaderTypeOK ==
    /\ lease \in Candidates \cup {NoLeader}
    /\ main \in [Candidates -> {"down", "select", "running", "await", "pause", "returned"}]
    /\ elector \in [Candidates -> {"campaign", "leading", "released", "closed"}]
    /\ ended \in [Candidates -> BOOLEAN] /\ stopped \in [Candidates -> BOOLEAN]
    /\ terms \in [Candidates -> Terms \cup {"none"}]
    /\ callback \in [Candidates -> BOOLEAN]
    /\ orphans \in [Candidates -> Nat]
    /\ runs \in [Candidates -> SUBSET Terms]
    /\ \A r \in Candidates :
          /\ runs[r] # {} <=> main[r] = "running"
          /\ main[r] \in {"down", "pause", "returned"} => elector[r] = "closed"

LeaderInit ==
    /\ lease = NoLeader
    /\ main = [r \in Candidates |-> "down"]
    /\ elector = [r \in Candidates |-> "closed"]
    /\ ended = [r \in Candidates |-> FALSE]
    /\ stopped = [r \in Candidates |-> FALSE]
    /\ terms = [r \in Candidates |-> "none"]
    /\ callback = [r \in Candidates |-> FALSE]
    /\ orphans = [r \in Candidates |-> 0]
    /\ runs = [r \in Candidates |-> {}]

(* electionCtx is derived from the parent; the term context from it, and   *)
(* elector.Run cancels the latter when it returns.                         *)
Cancelled(r) == ended[r] \/ stopped[r]
TermLive(r, t) == t = "cur" /\ elector[r] \in {"leading", "released"} /\ ~Cancelled(r)

-----------------------------------------------------------------------------
(* client-go's LeaderElector, as Run uses it.                              *)

(* The Lease is free, or still names this replica from an earlier term.    *)
Acquire(r) ==
    /\ elector[r] = "campaign" /\ lease \in {NoLeader, r} /\ ~Cancelled(r)
    /\ lease' = r
    /\ elector' = [elector EXCEPT ![r] = "leading"]
    /\ callback' = [callback EXCEPT ![r] = TRUE]
    /\ UNCHANGED <<main, ended, stopped, terms, orphans, runs>>

GiveUp(r) ==
    /\ elector[r] = "campaign" /\ Cancelled(r)
    /\ elector' = [elector EXCEPT ![r] = "closed"]
    /\ UNCHANGED <<lease, main, ended, stopped, terms, callback, orphans, runs>>

(* renew ends: cancelled, the Lease taken, or no renewal in time.  It then *)
(* releases the Lease (ReleaseOnCancel), which may fail.                   *)
Release(r) ==
    /\ elector[r] = "leading"
    /\ \/ lease' = IF lease = r THEN NoLeader ELSE lease
       \/ UNCHANGED lease
    /\ elector' = [elector EXCEPT ![r] = "released"]
    /\ UNCHANGED <<main, ended, stopped, terms, callback, orphans, runs>>

ElectorReturns(r) ==
    /\ elector[r] = "released"
    /\ elector' = [elector EXCEPT ![r] = "closed"]
    /\ UNCHANGED <<lease, main, ended, stopped, terms, callback, orphans, runs>>

(* Nobody renews a Lease whose holder is not leading.                      *)
LeaseRunsOut ==
    /\ lease # NoLeader /\ elector[lease] # "leading"
    /\ lease' = NoLeader
    /\ UNCHANGED <<main, elector, ended, stopped, terms, callback, orphans, runs>>

(* The leader's process or its API server stalls past LeaseDuration.       *)
LeaderStalls ==
    /\ lease # NoLeader /\ elector[lease] = "leading"
    /\ lease' = NoLeader
    /\ UNCHANGED <<main, elector, ended, stopped, terms, callback, orphans, runs>>

-----------------------------------------------------------------------------
(* OnStartedLeading sends its term context, when the channel has room.     *)
SendTermRuns(r) ==
    /\ callback[r]
    /\ callback' = [callback EXCEPT ![r] = FALSE]
    /\ runs' = [runs EXCEPT ![r] = @ \cup {"cur"}]
    /\ main' = [main EXCEPT ![r] = "running"]
    /\ UNCHANGED <<lease, elector, ended, stopped, terms, orphans>>
SendTerm(r) ==
    /\ callback[r] /\ terms[r] = "none"
    /\ terms' = [terms EXCEPT ![r] = "cur"]
    /\ callback' = [callback EXCEPT ![r] = FALSE]
    /\ UNCHANGED <<lease, main, elector, ended, stopped, orphans, runs>>

SendOldTerm(r) ==
    /\ orphans[r] > 0 /\ terms[r] = "none"
    /\ terms' = [terms EXCEPT ![r] = "old"]
    /\ orphans' = [orphans EXCEPT ![r] = @ - 1]
    /\ UNCHANGED <<lease, main, elector, ended, stopped, callback, runs>>

(* The loop: both cases of the select may be ready.                        *)
TakeTerm(r) ==
    /\ main[r] = "select" /\ terms[r] # "none"
    /\ main' = [main EXCEPT ![r] = "running"]
    /\ runs' = [runs EXCEPT ![r] = @ \cup {terms[r]}]
    /\ terms' = [terms EXCEPT ![r] = "none"]
    /\ UNCHANGED <<lease, elector, ended, stopped, callback, orphans>>

RoundLost(r) ==
    /\ main[r] = "select" /\ elector[r] = "closed"
    /\ main' = [main EXCEPT ![r] = "pause"]
    /\ ended' = [ended EXCEPT ![r] = TRUE]
    /\ UNCHANGED <<lease, elector, stopped, terms, callback, orphans, runs>>

(* run returns, drained or because its controllers failed; endTerm.        *)
RunReturnsKeepsTerm(r) ==
    /\ main[r] = "running"
    /\ main' = [main EXCEPT ![r] = "await"]
    /\ runs' = [runs EXCEPT ![r] = {}]
    /\ UNCHANGED <<lease, elector, ended, stopped, terms, callback, orphans>>
RunReturns(r) ==
    /\ main[r] = "running"
    /\ main' = [main EXCEPT ![r] = "await"]
    /\ runs' = [runs EXCEPT ![r] = {}]
    /\ ended' = [ended EXCEPT ![r] = TRUE]
    /\ UNCHANGED <<lease, elector, stopped, terms, callback, orphans>>

ElectorNotJoined(r) ==
    /\ main[r] = "await"
    /\ main' = [main EXCEPT ![r] = "pause"]
    /\ UNCHANGED <<lease, elector, ended, stopped, terms, callback, orphans, runs>>
ElectorJoined(r) ==
    /\ main[r] = "await" /\ elector[r] = "closed"
    /\ main' = [main EXCEPT ![r] = "pause"]
    /\ UNCHANGED <<lease, elector, ended, stopped, terms, callback, orphans, runs>>

(* After RetryPeriod: a new elector and a new electionCtx.  What the last  *)
(* round left in the channel or in its callback is now an old term.        *)
NextRound(r) ==
    /\ main[r] = "pause" /\ ~stopped[r]
    /\ orphans[r] + (IF callback[r] THEN 1 ELSE 0) <= MaxOrphans
    /\ main' = [main EXCEPT ![r] = "select"]
    /\ elector' = [elector EXCEPT ![r] = "campaign"]
    /\ ended' = [ended EXCEPT ![r] = FALSE]
    /\ terms' = [terms EXCEPT ![r] = IF @ = "none" THEN "none" ELSE "old"]
    /\ orphans' = [orphans EXCEPT ![r] = @ + (IF callback[r] THEN 1 ELSE 0)]
    /\ callback' = [callback EXCEPT ![r] = FALSE]
    /\ runs' = [runs EXCEPT ![r] = IF @ = {} THEN {} ELSE {"old"}]
    /\ UNCHANGED <<lease, stopped>>

LoopReturns(r) ==
    /\ main[r] = "pause" /\ stopped[r]
    /\ main' = [main EXCEPT ![r] = "returned"]
    /\ UNCHANGED <<lease, elector, ended, stopped, terms, callback, orphans, runs>>

-----------------------------------------------------------------------------
(* The process starts runWithClient, is told to shut down, or crashes.     *)
StartReplica(r) ==
    /\ main[r] = "down"
    /\ main' = [main EXCEPT ![r] = "select"]
    /\ elector' = [elector EXCEPT ![r] = "campaign"]
    /\ UNCHANGED <<lease, ended, stopped, terms, callback, orphans, runs>>

StopReplica(r) ==
    /\ main[r] \notin {"down", "returned"} /\ ~stopped[r]
    /\ stopped' = [stopped EXCEPT ![r] = TRUE]
    /\ UNCHANGED <<lease, main, elector, ended, terms, callback, orphans, runs>>

KillReplica(r) ==
    /\ main[r] # "down"
    /\ main' = [main EXCEPT ![r] = "down"]
    /\ elector' = [elector EXCEPT ![r] = "closed"]
    /\ ended' = [ended EXCEPT ![r] = FALSE]
    /\ stopped' = [stopped EXCEPT ![r] = FALSE]
    /\ terms' = [terms EXCEPT ![r] = "none"]
    /\ callback' = [callback EXCEPT ![r] = FALSE]
    /\ orphans' = [orphans EXCEPT ![r] = 0]
    /\ runs' = [runs EXCEPT ![r] = {}]
    /\ UNCHANGED lease

ElectorStep(r) == Acquire(r) \/ GiveUp(r) \/ Release(r) \/ ElectorReturns(r)
CallbackStep(r) == SendTerm(r) \/ SendOldTerm(r)
LoopStep(r) ==
    \/ TakeTerm(r) \/ RoundLost(r) \/ RunReturns(r) \/ ElectorJoined(r)
    \/ NextRound(r) \/ LoopReturns(r)
ProcessStep(r) == StartReplica(r) \/ StopReplica(r) \/ KillReplica(r)

(* What the replicas do by themselves, and with the world around them.     *)
LeaderStep ==
    \/ \E r \in Candidates : ElectorStep(r) \/ CallbackStep(r) \/ LoopStep(r)
    \/ LeaseRunsOut \/ LeaderStalls
LeaderNext == LeaderStep \/ \E r \in Candidates : ProcessStep(r)

(* What each goroutine does without outside help: run returns once its     *)
(* context is cancelled, as Run demands; an elector stops once cancelled   *)
(* or beaten.                                                              *)
LoopGoesOn(r) ==
    \/ TakeTerm(r) \/ RoundLost(r) \/ ElectorJoined(r) \/ NextRound(r)
    \/ RunReturns(r) /\ \A t \in runs[r] : ~TermLive(r, t)
ElectorGoesOn(r) ==
    \/ GiveUp(r) \/ ElectorReturns(r)
    \/ Release(r) /\ (Cancelled(r) \/ lease # r)

(* Goroutines are scheduled, and a Lease nobody renews runs out.           *)
LeaderFairness ==
    /\ WF_leaderVars(LeaseRunsOut)
    /\ \A r \in Candidates :
          /\ WF_leaderVars(CallbackStep(r))
          /\ WF_leaderVars(LoopGoesOn(r)) /\ WF_leaderVars(ElectorGoesOn(r))

LeaderSpec == LeaderInit /\ [][LeaderNext]_leaderVars
LeaderFairSpec == LeaderSpec /\ LeaderFairness

-----------------------------------------------------------------------------
(* The controllers of two terms never run in one process: run is called on *)
(* the loop's goroutine, for calling it from OnStartedLeading "would let a *)
(* new term begin while the previous term's controllers are still          *)
(* draining".                                                              *)
TermsDoNotOverlap == \A r \in Candidates : runs[r] # Terms

(* "Holding the lease would stall the platform, because no other replica   *)
(* can take over work this one is no longer doing": a replica that leads   *)
(* comes to run its controllers on a live term, or steps down.  That holds *)
(* too for the round whose select picks up a context an earlier round left *)
(* in the channel.                                                         *)
LeaseNotHeldIdle ==
    \A r \in Candidates :
        elector[r] = "leading" ~> (elector[r] # "leading" \/ \E t \in runs[r] : TermLive(r, t))
===============================================================================
