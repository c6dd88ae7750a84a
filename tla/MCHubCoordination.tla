-------------------------- MODULE MCHubCoordination --------------------------
(***************************************************************************)
(* The three mechanisms the replicas of the hub and of its providers share *)
(* (login-state store, leader election, reverse dialing).  They have no    *)
(* state in common, so their product shows nothing that one of them at a   *)
(* time does not: focus is the one that moves.  The others rest in their   *)
(* initial states, where no fair action of theirs is enabled.              *)
(***************************************************************************)
EXTENDS SharedStore, LeaderElection, Revdial, TLC
CONSTANTS p1, p2, c1, c2, s1, q1, q2, d1, d2

MCPuts == {p1, p2}
MCCalls == {c1, c2}
MCSweepers == {s1}
MCCandidates == {q1, q2}
MCDials == {d1, d2}

VARIABLE focus

MCInit ==
    /\ focus \in {"store", "election", "dial"}
    /\ Init /\ LeaderInit /\ DialInit

MCNext ==
    /\ UNCHANGED focus
    /\ \/ focus = "store" /\ Next /\ UNCHANGED <<leaderVars, dialVars>>
       \/ focus = "election" /\ LeaderNext /\ UNCHANGED <<vars, dialVars>>
       \/ focus = "dial" /\ DialNext /\ UNCHANGED <<vars, leaderVars>>

MCSpec ==
    /\ MCInit /\ [][MCNext]_<<focus, vars, leaderVars, dialVars>>
    /\ SweepFairness /\ LeaderFairness /\ DialFairness

(* The type invariants of the three, each of which names the one relation  *)
(* between its goroutines on which the others rest: a call holds a value   *)
(* only if it read one, the loop is inside run exactly while a callback of *)
(* the term has not returned, the reader only hands on answers that failed.*)
TypesOK == TypeOK /\ LeaderTypeOK /\ DialTypeOK
==============================================================================
