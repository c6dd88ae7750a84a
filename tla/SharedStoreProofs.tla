-------------------------- MODULE SharedStoreProofs --------------------------
(***************************************************************************)
(* Proofs about SharedStore, for any number of Puts, calls and sweepers.   *)
(*                                                                         *)
(* SingleRedemption and TypeOK are inductive together with one more fact:  *)
(* what Get is about to drop has expired.  The action property and the     *)
(* refinement of OneShot follow from that invariant, step by step.         *)
(***************************************************************************)
EXTENDS SharedStore, TLAPS

(* What Get decided to drop stays expired: expiry is never undone.         *)
DropsAreExpired == \A c \in Calls : pc[c] = "drop" => seen[c] \in expired

IInv == TypeOK /\ SingleRedemption /\ DropsAreExpired

USE StoreAssumption DEF Versions

(* Every call starts with no Secret, no reader and no result.              *)
LEMMA InitIInv == Init => IInv
  BY DEF Init, IInv, TypeOK, SingleRedemption, DropsAreExpired, Written, Claims

(* The steps of a Put, and of the clock.                                   *)
LEMMA PutPreserves == ASSUME IInv, NEW p \in Puts, PutStep(p) PROVE IInv'
<1> USE DEF IInv, TypeOK, SingleRedemption, DropsAreExpired, Written, Claims, callVars
<1>1. CASE PutCreate(p) BY <1>1 DEF PutCreate
<1>2. CASE PutUpdate(p) BY <1>2 DEF PutUpdate
<1>3. CASE PutError(p) BY <1>3 DEF PutError
<1>4. CASE Expire(p) BY <1>4 DEF Expire
<1> QED BY <1>1, <1>2, <1>3, <1>4 DEF PutStep

(* The steps of Take, Get and Delete.                                      *)
LEMMA CallPreserves == ASSUME IInv, NEW c \in Calls, CallStep(c) PROVE IInv'
<1> USE DEF IInv, TypeOK, SingleRedemption, DropsAreExpired, Written, Claims,
            deleteExact, Goto, Return
<1>1. CASE TakeGet(c) BY <1>1 DEF TakeGet, Read
<1>2. CASE TakeDelete(c) BY <1>2 DEF TakeDelete
<1>3. CASE TakeDeleteError(c) BY <1>3 DEF TakeDeleteError
<1>4. CASE TakeReturn(c) BY <1>4 DEF TakeReturn
<1>5. CASE GetGet(c) BY <1>5 DEF GetGet, Read
<1>6. CASE GetCheck(c) BY <1>6 DEF GetCheck
<1>7. CASE GetDrop(c) BY <1>7 DEF GetDrop
<1>8. CASE Delete(c) BY <1>8 DEF Delete
<1>9. CASE CallMiss(c) BY <1>9 DEF CallMiss
<1> QED BY <1>1, <1>2, <1>3, <1>4, <1>5, <1>6, <1>7, <1>8, <1>9 DEF CallStep

(* The steps of a sweep.                                                   *)
LEMMA SweepPreserves == ASSUME IInv, NEW s \in Sweepers, SweepStep(s) PROVE IInv'
<1> USE DEF IInv, TypeOK, SingleRedemption, DropsAreExpired, Written, Claims, callVars
<1>1. CASE GCList(s) BY <1>1 DEF GCList
<1>2. CASE GCSkip(s) BY <1>2 DEF GCSkip
<1>3. CASE GCDelete(s) BY <1>3 DEF GCDelete, deleteExact
<1> QED BY <1>1, <1>2, <1>3 DEF SweepStep

LEMMA StutterPreserves == ASSUME IInv, UNCHANGED vars PROVE IInv'
  BY DEF vars, callVars, IInv, TypeOK, SingleRedemption, DropsAreExpired, Written, Claims

(* The inductive invariant holds of every behaviour.                       *)
THEOREM Invariance == Spec => []IInv
<1>1. IInv /\ [Next]_vars => IInv'
  BY PutPreserves, CallPreserves, SweepPreserves, StutterPreserves DEF Next
<1> QED BY InitIInv, <1>1, PTL DEF Spec

(* Every state is well typed, and only what was written is ever seen.      *)
THEOREM TypeCorrect == Spec => []TypeOK
  BY Invariance, PTL DEF IInv

(* Two Takes on any replicas never both receive an entry.                  *)
THEOREM RedeemedOnce == Spec => []SingleRedemption
  BY Invariance, PTL DEF IInv

-----------------------------------------------------------------------------
(* No sweep and no Get removes an entry that is still live, however stale  *)
(* the read it acts on.                                                    *)
THEOREM SweepsSpareLiveEntries == Spec => LiveEntrySpared
<1> DEFINE Spared == secret # None /\ secret \notin expired /\ secret' = None
                       => \E c \in Calls : pc[c] \in {"idle", "redeem"} /\ pc'[c] # pc[c]
<1>1. ASSUME IInv, [Next]_vars PROVE [Spared]_vars
  <2> USE DEF IInv, TypeOK
  <2>1. ASSUME NEW p \in Puts, PutStep(p) PROVE Spared
    BY <2>1 DEF PutStep, PutCreate, PutUpdate, PutError, Expire
  <2>2. ASSUME NEW c \in Calls, CallStep(c) PROVE Spared
    <3> USE DEF deleteExact, Goto, Return
    <3>1. CASE TakeGet(c) \/ GetGet(c) \/ GetCheck(c) \/ CallMiss(c) \/ TakeReturn(c)
      BY <3>1 DEF TakeGet, GetGet, Read, GetCheck, CallMiss, TakeReturn
    <3>2. CASE TakeDelete(c) \/ TakeDeleteError(c) \/ Delete(c)
      <4>1. secret' = None /\ secret # None
              => pc[c] \in {"idle", "redeem"} /\ pc'[c] # pc[c]
        BY <1>1, <3>2 DEF TakeDelete, TakeDeleteError, Delete
      <4> QED BY <4>1
    <3>3. CASE GetDrop(c)
      <4>1. seen[c] \in expired
        BY <1>1, <3>3 DEF GetDrop, DropsAreExpired
      <4>2. secret' = None => secret = seen[c] \/ secret = None
        BY <3>3 DEF GetDrop
      <4> QED BY <4>1, <4>2
    <3> QED BY <2>2, <3>1, <3>2, <3>3 DEF CallStep
  <2>3. ASSUME NEW s \in Sweepers, SweepStep(s) PROVE Spared
    BY <2>3 DEF SweepStep, GCList, GCSkip, GCDelete, deleteExact
  <2>4. CASE UNCHANGED vars BY <2>4
  <2> QED BY <1>1, <2>1, <2>2, <2>3, <2>4 DEF Next
<1> QED BY Invariance, <1>1, PTL DEF Spec, LiveEntrySpared

-----------------------------------------------------------------------------
(* Refinement of OneShot. *)

AbsVars == <<life, redeemers, expired>>

(* Writing p: the version it replaces, if any, is gone.                    *)
LEMMA PutRefines ==
    ASSUME IInv, NEW p \in Puts, PutStep(p)
    PROVE  Abstract!Next \/ UNCHANGED AbsVars
<1> USE DEF IInv, TypeOK, Written, callVars, AbsVars, life, redeemers
<1>1. CASE UNCHANGED secret /\ ~Expire(p)
  BY <1>1 DEF PutStep, PutCreate, PutUpdate, PutError
<1>2. CASE secret' = p /\ put' \in {[put EXCEPT ![p] = "ok"], [put EXCEPT ![p] = "lost"]}
           /\ put[p] \in {"idle", "update"} /\ UNCHANGED <<expired, callVars, gc>>
  <2>1. Abstract!Write(p, {secret} \cap Puts)
    BY <1>2 DEF Abstract!Write, SingleRedemption, Claims
  <2>2. {secret} \cap Puts \in SUBSET Puts
    OBVIOUS
  <2> HIDE DEF IInv, life, redeemers
  <2> QED BY <2>1, <2>2 DEF Abstract!Next
<1>3. CASE Expire(p)
  BY <1>3 DEF Expire, Abstract!Expire, Abstract!Next
<1> QED BY <1>1, <1>2, <1>3 DEF PutStep, PutCreate, PutUpdate, PutError

(* Removing the stored version, with no Take coming to hold it, drops it.  *)
LEMMA RemovalDrops ==
    ASSUME IInv, secret \in Puts, secret' = None, UNCHANGED <<expired, put, result>>,
           \A d \in Calls : /\ pc'[d] = "redeemed" <=> pc[d] = "redeemed"
                            /\ pc[d] = "redeemed" => seen'[d] = seen[d]
    PROVE  Abstract!Next
<1>1. secret \in Written /\ life[secret] = "stored"
  BY DEF IInv, TypeOK, life
<1>2. \A d \in Calls : ~(pc[d] = "redeemed" /\ seen[d] = secret)
  BY DEF IInv, SingleRedemption, Claims
<1>3. life' = [life EXCEPT ![secret] = "gone"]
  <2>1. \A p \in Puts : life'[p] = IF p = secret THEN "gone" ELSE life[p]
    BY <1>1, <1>2 DEF life, Written
  <2>2. life = [p \in Puts |-> life[p]] BY DEF life
  <2>3. life' = [p \in Puts |-> life'[p]] BY DEF life
  <2> QED BY <2>1, <2>2, <2>3
<1>4. Abstract!Drop(secret)
  BY <1>1, <1>3 DEF Abstract!Drop, redeemers
<1> QED BY <1>4 DEF Abstract!Next

(* A Take that returns is the only one that holds its entry.               *)
LEMMA ReturnRefines ==
    ASSUME IInv, NEW c \in Calls, TakeReturn(c)
    PROVE  Abstract!Next
<1> DEFINE e == seen[c]
<1>1. /\ e \in Written /\ Claims(c, e) /\ secret # e /\ pc[c] = "redeemed"
      /\ UNCHANGED <<secret, expired, put>>
  BY DEF TakeReturn, IInv, TypeOK, SingleRedemption, Claims, Written
<1>2. \A d \in Calls : Claims(d, e) => d = c
  BY <1>1 DEF IInv, SingleRedemption, Written
<1>3. \A d \in Calls : d # c => pc'[d] = pc[d] /\ seen'[d] = seen[d] /\ result'[d] = result[d]
  BY DEF TakeReturn, IInv, TypeOK
<1>4. pc'[c] = "done" /\ result[c] = None /\ e \in Puts /\ None \notin Puts
      /\ result'[c] = IF e \in expired THEN None ELSE e
  BY <1>1 DEF TakeReturn, IInv, TypeOK, Written
<1>5. life[e] = "stored"
  BY <1>1, <1>4 DEF life
<1>6. life' = [life EXCEPT ![e] = "gone"]
  <2>1. \A p \in Puts : life'[p] = IF p = e THEN "gone" ELSE life[p]
    <3>1. ASSUME NEW p \in Puts, p # e
          PROVE  (\E d \in Calls : pc'[d] = "redeemed" /\ seen'[d] = p)
                   <=> (\E d \in Calls : pc[d] = "redeemed" /\ seen[d] = p)
      BY <3>1, <1>3, <1>4
    <3>2. ~\E d \in Calls : pc'[d] = "redeemed" /\ seen'[d] = e
      BY <1>2, <1>3, <1>4 DEF Claims
    <3> QED BY <3>1, <3>2, <1>1, <1>4 DEF life, Written
  <2> HIDE DEF e
  <2> QED BY <2>1 DEF life
<1>7. CASE e \in expired
  <2>1. redeemers' = redeemers
    BY <1>3, <1>4, <1>7 DEF redeemers
  <2>2. Abstract!Drop(e)
    BY <1>1, <1>5, <1>6, <2>1 DEF Abstract!Drop
  <2> HIDE DEF e
  <2> QED BY <1>4, <2>2 DEF Abstract!Next
<1>8. CASE e \notin expired
  <2>1. redeemers[e] = {}
    BY <1>2, <1>4 DEF redeemers, Claims
  <2>2. \A p \in Puts : redeemers'[p] = IF p = e THEN {c} ELSE redeemers[p]
    <3>1. \A p \in Puts : p # e => {d \in Calls : result'[d] = p} = {d \in Calls : result[d] = p}
      BY <1>3, <1>4, <1>8
    <3>2. {d \in Calls : result'[d] = e} = {c}
      BY <1>2, <1>3, <1>4, <1>8 DEF Claims
    <3> QED BY <3>1, <3>2, <1>4 DEF redeemers
  <2>3. redeemers' = [redeemers EXCEPT ![e] = {c}]
    <3> HIDE DEF e
    <3> QED BY <2>2 DEF redeemers
  <2>4. Abstract!Redeem(e, c)
    BY <1>1, <1>5, <1>6, <1>8, <2>1, <2>3 DEF Abstract!Redeem
  <2> HIDE DEF e
  <2> QED BY <1>4, <2>4 DEF Abstract!Next
<1> QED BY <1>7, <1>8

(* A call redeems at TakeReturn; whatever else removes a version drops it. *)
LEMMA CallRefines ==
    ASSUME IInv, NEW c \in Calls, CallStep(c)
    PROVE  Abstract!Next \/ UNCHANGED AbsVars
<1> USE DEF IInv, TypeOK, Written, AbsVars, life, redeemers, deleteExact, Goto, Return
<1>1. CASE TakeGet(c) \/ GetGet(c) \/ GetCheck(c) \/ CallMiss(c)
  BY <1>1 DEF TakeGet, GetGet, Read, GetCheck, CallMiss
<1>2. CASE TakeDelete(c)
  BY <1>2 DEF TakeDelete
<1>3. CASE /\ secret \in Puts /\ secret' = None /\ Return(c)
           /\ pc[c] # "redeemed" /\ UNCHANGED <<expired, put>>
  BY <1>3, RemovalDrops
<1>4. CASE (TakeDeleteError(c) \/ GetDrop(c) \/ Delete(c)) /\ UNCHANGED secret
  BY <1>4 DEF TakeDeleteError, GetDrop, Delete
<1>5. CASE TakeReturn(c)
  BY <1>5, ReturnRefines
<1> QED BY <1>1, <1>2, <1>3, <1>4, <1>5
        DEF CallStep, TakeDeleteError, GetDrop, Delete

(* A sweep drops the version it listed.                                    *)
LEMMA SweepRefines ==
    ASSUME IInv, NEW s \in Sweepers, SweepStep(s)
    PROVE  Abstract!Next \/ UNCHANGED AbsVars
<1> USE DEF IInv, TypeOK, Written, callVars, AbsVars, life, redeemers
<1>1. CASE GCList(s) \/ GCSkip(s)
  BY <1>1 DEF GCList, GCSkip
<1>2. CASE GCDelete(s)
  BY <1>2, RemovalDrops DEF GCDelete, deleteExact
<1> QED BY <1>1, <1>2 DEF SweepStep

(* The shared store implements OneShot: an entry is redeemed by at most    *)
(* one Take and never after it expired.                                    *)
THEOREM StoreIsOneShot == Spec => ImplementsOneShot
<1>1. Init => Abstract!Init
  BY DEF Init, Abstract!Init, life, redeemers, Written
<1>2. ASSUME IInv, [Next]_vars PROVE [Abstract!Next]_AbsVars
  <2>1. CASE UNCHANGED vars
    BY <2>1 DEF vars, callVars, AbsVars, life, redeemers, Written
  <2> QED BY <1>2, <2>1, PutRefines, CallRefines, SweepRefines DEF Next
<1> QED BY <1>1, <1>2, Invariance, PTL
        DEF Spec, ImplementsOneShot, Abstract!Spec, Abstract!vars, AbsVars
==============================================================================
