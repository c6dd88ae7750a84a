------------------------------- MODULE OneShot -------------------------------
(***************************************************************************)
(* What the shared store promises to a caller that hands out single-use    *)
(* codes: an entry that was written is redeemed by at most one caller,     *)
(* never after its expiry, and is never redeemed once it is gone.          *)
(***************************************************************************)
CONSTANTS Entries, Callers

VARIABLES
    life,      \* life[e]: "unwritten", "stored" or "gone"
    redeemers, \* redeemers[e]: the callers that received e
    expired    \* the entries whose expiry has passed

vars == <<life, redeemers, expired>>

Init ==
    /\ life = [e \in Entries |-> "unwritten"]
    /\ redeemers = [e \in Entries |-> {}]
    /\ expired = {}

(* A write replaces what is there: the entries in "replaced" are gone.     *)
Write(e, replaced) ==
    /\ life[e] = "unwritten"
    /\ \A x \in replaced : life[x] = "stored"
    /\ life' = [x \in Entries |-> IF x = e THEN "stored"
                                  ELSE IF x \in replaced THEN "gone" ELSE life[x]]
    /\ UNCHANGED <<redeemers, expired>>

Redeem(e, c) ==
    /\ life[e] = "stored" /\ e \notin expired /\ redeemers[e] = {}
    /\ life' = [life EXCEPT ![e] = "gone"]
    /\ redeemers' = [redeemers EXCEPT ![e] = {c}]
    /\ UNCHANGED expired

Drop(e) ==
    /\ life[e] = "stored"
    /\ life' = [life EXCEPT ![e] = "gone"]
    /\ UNCHANGED <<redeemers, expired>>

Expire(e) ==
    /\ expired' = expired \cup {e}
    /\ UNCHANGED <<life, redeemers>>

Next ==
    \E e \in Entries :
        \/ \E replaced \in SUBSET Entries : Write(e, replaced)
        \/ \E c \in Callers : Redeem(e, c)
        \/ Drop(e)
        \/ Expire(e)

Spec == Init /\ [][Next]_vars
==============================================================================
