---------------------------- MODULE MCEdgeStatus ----------------------------
(***************************************************************************)
(* The connectivity an Edge shows, and the provider that lives by it:      *)
(* kuery's replicas, which sync whatever is connected.  In EdgeEngagement  *)
(* the edge connects and disconnects at any time, so the product with the  *)
(* writers of its status shows nothing more: one of the two moves (focus), *)
(* the other rests in an initial state, where no fair action of it is      *)
(* enabled.                                                                *)
(***************************************************************************)
EXTENDS EdgeStatus, EdgeEngagement
CONSTANTS e1, e2

MCSyncers == {e1, e2}

VARIABLE focus

MCInit ==
    /\ focus \in {"status", "kuery"}
    /\ Init /\ EngagementInit
    /\ focus # "status" => ~credential
    /\ focus # "kuery" => ~connected

MCNext ==
    /\ UNCHANGED focus
    /\ \/ focus = "status" /\ Next /\ UNCHANGED engagementVars
       \/ focus = "kuery" /\ EngagementNext /\ UNCHANGED vars

MCSpec ==
    /\ MCInit /\ [][MCNext]_<<focus, vars, engagementVars>>
    /\ StatusFairness /\ EngagementFairness

(* The type invariants of both, each with the relations between the parts  *)
(* of its state on which the others rest: ConnManager offers open tunnels  *)
(* only; a replica asserts what it syncs and releases what it does not.    *)
TypesOK == TypeOK /\ EngagementTypeOK
=============================================================================
