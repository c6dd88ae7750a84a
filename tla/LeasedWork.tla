----------------------------- MODULE LeasedWork -----------------------------
(***************************************************************************)
(* What a claim on one piece of work promises to the replicas that share   *)
(* it: work starts by taking a claim that nobody has, in one step, and a   *)
(* claim is only ever lost by its holder, never taken away from one who    *)
(* still has it.  Who works without the claim lost it while at work.       *)
(***************************************************************************)
CONSTANTS Workers, Nobody

VARIABLES
    claimant, \* who has the claim
    atWork,   \* who does the work
    lapsed    \* who is at work though the claim was lost

vars == <<claimant, atWork, lapsed>>

Init == claimant = Nobody /\ atWork = {} /\ lapsed = {}

(* A claim nobody has is taken; one that lapsed may be taken back.         *)
Take(w) ==
    /\ claimant = Nobody
    /\ claimant' = w
    /\ atWork' = atWork \cup {w}
    /\ lapsed' = lapsed \ {w}

(* The holder renews its claim, and takes the work up if it had let go.    *)
Renew(w) ==
    /\ claimant = w
    /\ atWork' = atWork \cup {w}
    /\ UNCHANGED <<claimant, lapsed>>

Stop(w) ==
    /\ w \in atWork
    /\ atWork' = atWork \ {w}
    /\ lapsed' = lapsed \ {w}
    /\ UNCHANGED claimant

(* The claim runs out or is given up, also by mistake.                     *)
Lapse ==
    /\ claimant # Nobody
    /\ claimant' = Nobody
    /\ lapsed' = lapsed \cup (atWork \cap {claimant})
    /\ UNCHANGED atWork

Next == Lapse \/ \E w \in Workers : Take(w) \/ Renew(w) \/ Stop(w)

Spec == Init /\ [][Next]_vars

(* One worker at most has not lost its claim, and that one has it.         *)
Exclusive == atWork \ lapsed \subseteq {claimant} \cap Workers
=============================================================================
