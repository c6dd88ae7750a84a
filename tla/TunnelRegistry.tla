--------------------------- MODULE TunnelRegistry ---------------------------
(***************************************************************************)
(* What the replicas of the edges provider promise about the tunnel of one *)
(* edge: a replica is advertised as the one that has it only by a handler  *)
(* that accepted a socket of the edge, and a handler that ends in order    *)
(* leaves no claim of its replica behind, unless another answers for it.   *)
(* Dialers, sweeps, renewals, versions of the Lease and caches are not     *)
(* seen here.                                                              *)
(***************************************************************************)
CONSTANTS Replicas, Sockets, Nobody

VARIABLES
    host,     \* host[t]: the replica that accepted socket t
    stage,    \* stage[t]: "out", "joining", "in", "leaving", "gone" or "lost"
    claimant  \* the replica that is advertised

vars == <<host, stage, claimant>>

Moves(t, from, to) == stage[t] = from /\ stage' = [stage EXCEPT ![t] = to]

(* A handler that ended in order answers for nothing any more; one that    *)
(* was lost left its claim to expire.                                      *)
Answers(t, r) == host[t] = r /\ stage[t] \in {"joining", "in", "leaving", "lost"}

Init ==
    /\ host = [t \in Sockets |-> Nobody]
    /\ stage = [t \in Sockets |-> "out"]
    /\ claimant = Nobody

Accept(t, r) ==
    /\ Moves(t, "out", "joining")
    /\ host' = [host EXCEPT ![t] = r]
    /\ UNCHANGED claimant

(* The handler goes on also when its claim was not written.                *)
Advertise(t) ==
    /\ Moves(t, "joining", "in")
    /\ claimant' \in {host[t], claimant}
    /\ UNCHANGED host

Leave(t) == Moves(t, "in", "leaving") /\ UNCHANGED <<host, claimant>>

(* A release takes the claim down, of whatever replica it is by then.      *)
Withdraw(t) ==
    /\ stage[t] = "leaving"
    /\ claimant' = Nobody
    /\ UNCHANGED <<host, stage>>

Finish(t) ==
    /\ Moves(t, "leaving", "gone")
    /\ claimant = host[t] => \E s \in Sockets \ {t} : Answers(s, host[t])
    /\ UNCHANGED <<host, claimant>>

(* The release fails, or the replica dies with all its handlers.           *)
Fail(t) == Moves(t, "leaving", "lost") /\ UNCHANGED <<host, claimant>>
Die(r) ==
    /\ stage' = [t \in Sockets |->
                   IF host[t] = r /\ stage[t] # "gone" THEN "lost" ELSE stage[t]]
    /\ UNCHANGED <<host, claimant>>

Next ==
    \/ \E t \in Sockets :
          \/ Advertise(t) \/ Leave(t) \/ Withdraw(t) \/ Finish(t) \/ Fail(t)
          \/ \E r \in Replicas : Accept(t, r)
    \/ \E r \in Replicas : Die(r)

Spec == Init /\ [][Next]_vars
=============================================================================
