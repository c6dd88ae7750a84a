-------------------------- MODULE EdgeTunnelProofs --------------------------
(***************************************************************************)
(* Safety of tunnel ownership for any number of replicas and sockets.      *)
(* Every theorem rests on IInv, the inductive invariant below; the last    *)
(* one, on orderly reconnects, also on ServingInv.                         *)
(***************************************************************************)
EXTENDS EdgeTunnel, TLAPS

\* A handler belongs to a replica from the upgrade on, and not before.
OwnerKnown ==
    \A t \in Tunnels :
        /\ pc[t] # "idle" => owner[t] \in Replicas
        /\ pc[t] = "idle" => owner[t] = NoReplica

\* A sweeper about to renew with a current resourceVersion read its own claim.
RenewalIsOwn ==
    \A r \in Replicas : sweep[r] = "update" /\ r \in rvCurrent => HeldBy(r)

IInv ==
    /\ TypeOK
    /\ OwnerKnown
    /\ NoStaleEntry
    /\ RenewalIsOwn
    /\ NoOrphanClaim

-----------------------------------------------------------------------------
LEMMA OlderType == \A a \in Ages : Older(a) \in Ages
  BY ConstantsAssumption DEF Ages, Older, Fresh

LEMMA InitTypeOK == Init => TypeOK
  BY ConstantsAssumption DEF Init, TypeOK, PCs, Ages

LEMMA InitIInv == Init => IInv
  <1> SUFFICES ASSUME Init PROVE IInv
    OBVIOUS
  <1>1. TypeOK
    BY InitTypeOK
  <1>2. OwnerKnown /\ NoStaleEntry /\ RenewalIsOwn /\ NoOrphanClaim
    BY ConstantsAssumption
    DEF Init, OwnerKnown, NoStaleEntry, RenewalIsOwn, NoOrphanClaim
  <1> QED
    BY <1>1, <1>2 DEF IInv

LEMMA WriteLeaseType ==
    ASSUME TypeOK, NEW r \in Replicas, WriteLease(r)
    PROVE  lease' \in Leases /\ rvCurrent' = {} /\ uidCurrent' \subseteq Tunnels
  BY ConstantsAssumption DEF TypeOK, WriteLease, Leases, Ages

-----------------------------------------------------------------------------
LEMMA NextTypeOK ==
    ASSUME TypeOK, OwnerKnown, [Next]_vars
    PROVE  TypeOK'
  <1> USE DEF TypeOK, agentVars, handlerVars, leaseVars, readVars
  <1>1. ASSUME NEW t \in Tunnels, NEW r \in Replicas, Connect(t, r) PROVE TypeOK'
    BY <1>1 DEF Connect, Goto, PCs
  <1>2. CASE AgentLose
    BY <1>2 DEF AgentLose
  <1>3. ASSUME NEW t \in Tunnels, ConnBreak(t) \/ DialerTimeout(t) PROVE TypeOK'
    BY <1>3 DEF ConnBreak, DialerTimeout, CloseDialer
  <1>4. ASSUME NEW t \in Tunnels, HandlerStep(t) PROVE TypeOK'
    <2>1. CASE StoreLocal(t)
      BY <2>1 DEF StoreLocal, Goto, PCs, OwnerKnown
    <2>2. CASE ClaimGet(t)
      BY <2>2 DEF ClaimGet, ReadVersion, Goto, PCs
    <2>3. CASE ClaimWrite(t)
      <3>1. owner[t] \in Replicas
        BY <2>3 DEF ClaimWrite, CanWrite, OwnerKnown
      <3> QED
        BY <2>3, <3>1, WriteLeaseType DEF ClaimWrite, Goto, PCs
    <2>4. CASE ClaimConflict(t)
      BY <2>4 DEF ClaimConflict, Goto, PCs
    <2>5. CASE ClaimError(t)
      <3>1. owner[t] \in Replicas
        BY <2>5 DEF ClaimError, CanWrite, OwnerKnown
      <3> QED
        BY <2>5, <3>1, WriteLeaseType DEF ClaimError, Goto, PCs
    <2>6. CASE ClaimInvalidate(t)
      BY <2>6 DEF ClaimInvalidate, Goto, PCs
    <2>7. CASE DeleteLocal(t)
      BY <2>7 DEF DeleteLocal, Goto, PCs
    <2>8. CASE ReleaseGet(t)
      BY <2>8 DEF ReleaseGet, ReadUID, Goto, PCs
    <2>9. CASE ReleaseDelete(t)
      BY <2>9 DEF ReleaseDelete, DeleteLease, Goto, PCs
    <2>10. CASE ReleaseError(t)
      BY <2>10 DEF ReleaseError, Goto, PCs
    <2>11. CASE ReleaseInvalidate(t)
      BY <2>11 DEF ReleaseInvalidate, Goto, PCs
    <2> QED
      BY <1>4, <2>1, <2>2, <2>3, <2>4, <2>5, <2>6, <2>7, <2>8, <2>9, <2>10, <2>11
      DEF HandlerStep
  <1>5. ASSUME NEW r \in Replicas, SweeperStep(r) PROVE TypeOK'
    <2>1. CASE SweepStart(r)
      BY <2>1, ConstantsAssumption DEF SweepStart, Ages
    <2>2. CASE RenewGet(r)
      BY <2>2 DEF RenewGet, ReadVersion
    <2>3. CASE RenewUpdate(r)
      BY <2>3, WriteLeaseType DEF RenewUpdate
    <2>4. CASE RenewError(r)
      BY <2>4 DEF RenewError
    <2> QED
      BY <1>5, <2>1, <2>2, <2>3, <2>4 DEF SweeperStep
  <1>6. ASSUME NEW r \in Replicas, LoadMiss(r) \/ LookupStep(r) \/ CacheExpire(r)
        PROVE  TypeOK'
    <2>1. CASE LoadMiss(r)
      BY <2>1 DEF LoadMiss
    <2>2. CASE LookupGet(r)
      BY <2>2 DEF LookupGet, lookupLive, Leases
    <2>3. CASE LookupStore(r)
      BY <2>3 DEF LookupStore
    <2>4. CASE CacheExpire(r)
      BY <2>4 DEF CacheExpire
    <2> QED
      BY <1>6, <2>1, <2>2, <2>3, <2>4 DEF LookupStep
  <1>7. ASSUME NEW r \in Replicas, Crash(r) PROVE TypeOK'
    BY <1>7, ConstantsAssumption DEF Crash, PCs
  <1>8. ASSUME NEW r \in Replicas, Restart(r) PROVE TypeOK'
    BY <1>8 DEF Restart
  <1>9. CASE Tick
    <2>1. lease' \in Leases \cup {NoLease}
      BY <1>9, OlderType DEF Tick, Leases
    <2>2. presence' \in [Replicas -> Ages]
      BY <1>9, OlderType DEF Tick
    <2> QED
      BY <1>9, <2>1, <2>2 DEF Tick
  <1>10. CASE UNCHANGED vars
    BY <1>10 DEF vars
  <1> QED
    BY <1>1, <1>2, <1>3, <1>4, <1>5, <1>6, <1>7, <1>8, <1>9, <1>10 DEF Next

-----------------------------------------------------------------------------
LEMMA NextOwnerKnown ==
    ASSUME TypeOK, OwnerKnown, [Next]_vars
    PROVE  OwnerKnown'
  <1> USE DEF TypeOK, OwnerKnown, agentVars, handlerVars, leaseVars, readVars
  <1>1. ASSUME NEW t \in Tunnels, NEW r \in Replicas, Connect(t, r) PROVE OwnerKnown'
    BY <1>1 DEF Connect, Goto
  <1>2. ASSUME NEW t \in Tunnels, HandlerStep(t) PROVE OwnerKnown'
    BY <1>2
    DEF HandlerStep, StoreLocal, ClaimGet, ClaimWrite, CanWrite, ClaimConflict,
        ClaimError, ClaimInvalidate, DeleteLocal, ReleaseGet, ReleaseDelete,
        ReleaseError, ReleaseInvalidate, Goto
  <1>3. ASSUME NEW r \in Replicas, Crash(r) PROVE OwnerKnown'
    BY <1>3 DEF Crash
  <1>4. CASE UNCHANGED handlerVars
    BY <1>4
  <1> QED
    BY <1>1, <1>2, <1>3, <1>4
    DEF Next, AgentLose, ConnBreak, DialerTimeout, CloseDialer, SweeperStep,
        SweepStart, RenewGet, RenewUpdate, RenewError, LoadMiss, LookupStep,
        LookupGet, LookupStore, CacheExpire, Restart, Tick, vars

-----------------------------------------------------------------------------
LEMMA NextNoStaleEntry ==
    ASSUME TypeOK, OwnerKnown, NoStaleEntry, [Next]_vars
    PROVE  NoStaleEntry'
  <1> USE ConstantsAssumption
      DEF TypeOK, OwnerKnown, NoStaleEntry, StoredPCs, agentVars, handlerVars,
          leaseVars, readVars
  <1>1. ASSUME NEW t \in Tunnels, NEW r \in Replicas, Connect(t, r) PROVE NoStaleEntry'
    BY <1>1 DEF Connect, Goto
  <1>2. ASSUME NEW t \in Tunnels, HandlerStep(t) PROVE NoStaleEntry'
    <2>1. CASE StoreLocal(t)
      BY <2>1 DEF StoreLocal, Goto
    <2>2. CASE DeleteLocal(t)
      BY <2>2 DEF DeleteLocal, Goto
    <2>3. CASE /\ UNCHANGED <<owner, dials>>
               /\ \A s \in Tunnels : pc[s] \in StoredPCs => pc'[s] \in StoredPCs
      BY <2>3
    <2> QED
      BY <1>2, <2>1, <2>2, <2>3
      DEF HandlerStep, ClaimGet, ClaimWrite, CanWrite, ClaimConflict, ClaimError,
          ClaimInvalidate, ReleaseGet, ReleaseDelete, ReleaseError,
          ReleaseInvalidate, Goto
  <1>3. ASSUME NEW r \in Replicas, SweeperStep(r) PROVE NoStaleEntry'
    BY <1>3 DEF SweeperStep, SweepStart, RenewGet, RenewUpdate, RenewError
  <1>4. ASSUME NEW r \in Replicas, LoadMiss(r) \/ LookupStep(r) \/ CacheExpire(r)
        PROVE  NoStaleEntry'
    BY <1>4 DEF LoadMiss, LookupStep, LookupGet, LookupStore, CacheExpire
  <1>5. ASSUME NEW r \in Replicas, Crash(r) PROVE NoStaleEntry'
    BY <1>5 DEF Crash
  <1>6. CASE UNCHANGED <<handlerVars, dials>>
    BY <1>6
  <1> QED
    BY <1>1, <1>2, <1>3, <1>4, <1>5, <1>6
    DEF Next, AgentLose, ConnBreak, DialerTimeout, CloseDialer, Restart, Tick, vars

-----------------------------------------------------------------------------
\* Any write or delete of the Lease makes every read resourceVersion stale.
LEMMA NextRenewalIsOwn ==
    ASSUME TypeOK, RenewalIsOwn, [Next]_vars
    PROVE  RenewalIsOwn'
  <1> USE ConstantsAssumption
      DEF TypeOK, RenewalIsOwn, HeldBy, agentVars, handlerVars, leaseVars, readVars
  <1>1. ASSUME NEW t \in Tunnels, HandlerStep(t) PROVE RenewalIsOwn'
    <2>1. sweep' = sweep
      BY <1>1
      DEF HandlerStep, StoreLocal, ClaimGet, ClaimWrite, ClaimConflict, ClaimError,
          ClaimInvalidate, DeleteLocal, ReleaseGet, ReleaseDelete, ReleaseError,
          ReleaseInvalidate
    <2>2. \/ UNCHANGED <<lease, rvCurrent>>
          \/ lease' = lease /\ rvCurrent' = rvCurrent \cup {t}
          \/ rvCurrent' = {}
      BY <1>1
      DEF HandlerStep, StoreLocal, ClaimGet, ClaimWrite, ClaimConflict, ClaimError,
          ClaimInvalidate, DeleteLocal, ReleaseGet, ReleaseDelete, ReleaseError,
          ReleaseInvalidate, ReadVersion, ReadUID, WriteLease, DeleteLease
    <2> QED
      BY <2>1, <2>2
  <1>2. ASSUME NEW r \in Replicas, SweeperStep(r) PROVE RenewalIsOwn'
    <2>1. CASE SweepStart(r)
      BY <2>1 DEF SweepStart
    <2>2. CASE RenewGet(r)
      BY <2>2 DEF RenewGet, ReadVersion
    <2>3. CASE RenewUpdate(r)
      BY <2>3 DEF RenewUpdate, WriteLease
    <2>4. CASE RenewError(r)
      BY <2>4 DEF RenewError
    <2> QED
      BY <1>2, <2>1, <2>2, <2>3, <2>4 DEF SweeperStep
  <1>3. ASSUME NEW r \in Replicas, Crash(r) PROVE RenewalIsOwn'
    BY <1>3 DEF Crash
  <1>4. CASE Tick
    BY <1>4 DEF Tick
  <1>5. CASE UNCHANGED <<leaseVars, sweep>>
    BY <1>5
  <1> QED
    BY <1>1, <1>2, <1>3, <1>4, <1>5
    DEF Next, Connect, AgentLose, ConnBreak, DialerTimeout, CloseDialer, LoadMiss,
        LookupStep, LookupGet, LookupStore, CacheExpire, Restart, vars

-----------------------------------------------------------------------------
\* A handler backs a claim of its replica until its own release is through.
Backs(t, r) ==
    /\ owner[t] = r
    /\ pc[t] \in StoredPCs \cup {"release", "delete", "unreleased", "crashed"}
    /\ pc[t] = "delete" => t \in uidCurrent

\* Steps that keep the holder and take no handler's backing away are harmless.
LEMMA BackingKept ==
    ASSUME NoOrphanClaim,
           lease' = NoLease \/ (lease # NoLease /\ lease'.holder = lease.holder),
           lease' # NoLease =>
             \A t \in Tunnels : Backs(t, lease.holder) => Backs(t, lease.holder)'
    PROVE  NoOrphanClaim'
  BY DEF NoOrphanClaim, ReleasePending, Backs

LEMMA NextNoOrphanClaim ==
    ASSUME TypeOK, OwnerKnown, RenewalIsOwn, NoOrphanClaim, [Next]_vars
    PROVE  NoOrphanClaim'
  <1> USE ConstantsAssumption
      DEF TypeOK, agentVars, handlerVars, leaseVars, readVars
  <1>1. ASSUME NEW t \in Tunnels, NEW r \in Replicas, Connect(t, r) PROVE NoOrphanClaim'
    BY <1>1, BackingKept DEF Connect, Goto, Backs, StoredPCs
  <1>2. ASSUME NEW t \in Tunnels, HandlerStep(t) PROVE NoOrphanClaim'
    <2>1. CASE StoreLocal(t)
      BY <2>1, BackingKept DEF StoreLocal, Goto, Backs, StoredPCs
    <2>2. CASE ClaimGet(t)
      BY <2>2, BackingKept DEF ClaimGet, ReadVersion, Goto, Backs, StoredPCs
    <2>3. CASE /\ WriteLease(owner[t]) /\ owner' = owner
               /\ pc[t] # "idle" /\ Goto(t, "claimed")
      <3>1. Backs(t, owner[t])'
        BY <2>3 DEF Backs, StoredPCs, Goto
      <3> QED
        BY <2>3, <3>1 DEF WriteLease, NoOrphanClaim, ReleasePending, Backs
    <2>4. CASE ClaimConflict(t)
      BY <2>4, BackingKept DEF ClaimConflict, Goto, Backs, StoredPCs
    <2>5. CASE ClaimError(t) /\ UNCHANGED leaseVars
      BY <2>5, BackingKept DEF ClaimError, CanWrite, Goto, Backs, StoredPCs
    <2>6. CASE ClaimInvalidate(t)
      BY <2>6, BackingKept DEF ClaimInvalidate, Goto, Backs, StoredPCs
    <2>7. CASE DeleteLocal(t)
      BY <2>7, BackingKept DEF DeleteLocal, Goto, Backs, StoredPCs
    <2>8. CASE ReleaseGet(t)
      BY <2>8, BackingKept DEF ReleaseGet, HeldBy, ReadUID, Goto, Backs, StoredPCs
    <2>9. CASE ReleaseDelete(t)
      BY <2>9, BackingKept DEF ReleaseDelete, DeleteLease, Goto, Backs, StoredPCs
    <2>10. CASE ReleaseError(t)
      BY <2>10, BackingKept DEF ReleaseError, Goto, Backs, StoredPCs
    <2>11. CASE ReleaseInvalidate(t)
      BY <2>11, BackingKept DEF ReleaseInvalidate, Goto, Backs, StoredPCs
    <2> QED
      BY <1>2, <2>1, <2>2, <2>3, <2>4, <2>5, <2>6, <2>7, <2>8, <2>9, <2>10, <2>11
      DEF HandlerStep, ClaimWrite, ClaimError, CanWrite
  <1>3. ASSUME NEW r \in Replicas, SweeperStep(r) PROVE NoOrphanClaim'
    <2>1. UNCHANGED <<handlerVars, uidCurrent>>
      BY <1>3
      DEF SweeperStep, SweepStart, RenewGet, RenewUpdate, RenewError, ReadVersion,
          WriteLease
    <2>2. lease' = lease \/ (HeldBy(r) /\ lease' = [holder |-> r, age |-> 0])
      BY <1>3
      DEF SweeperStep, SweepStart, RenewGet, RenewUpdate, RenewError, ReadVersion,
          WriteLease, RenewalIsOwn
    <2> QED
      BY <2>1, <2>2, BackingKept DEF Backs, HeldBy
  <1>4. ASSUME NEW r \in Replicas, Crash(r) PROVE NoOrphanClaim'
    BY <1>4, BackingKept DEF Crash, Backs, StoredPCs, EndPCs
  <1>5. CASE Tick
    BY <1>5, BackingKept DEF Tick, Backs
  <1>6. CASE UNCHANGED <<handlerVars, leaseVars>>
    BY <1>6, BackingKept DEF Backs
  <1> QED
    BY <1>1, <1>2, <1>3, <1>4, <1>5, <1>6
    DEF Next, AgentLose, ConnBreak, DialerTimeout, CloseDialer, LoadMiss, LookupStep,
        LookupGet, LookupStore, CacheExpire, Restart, vars

-----------------------------------------------------------------------------
(* IInv is inductive, so it holds in every reachable state. *)
THEOREM Invariance == Spec => []IInv
  <1>1. IInv /\ [Next]_vars => IInv'
    BY NextTypeOK, NextOwnerKnown, NextNoStaleEntry, NextRenewalIsOwn, NextNoOrphanClaim
    DEF IInv
  <1> QED
    BY <1>1, InitIInv, PTL DEF Spec

(* Every variable keeps its type: the maps of ConnManager and Registry are *)
(* total, ages stay within TTL + 1, no handler leaves its program points.  *)
THEOREM TypeCorrect == Spec => []TypeOK
  BY Invariance, PTL DEF IInv

(* No claim outlives the handlers of its replica (ReleaseTunnel against    *)
(* reconnects, renewals and other releases), for any number of replicas    *)
(* and sockets, with crashes and API errors.                               *)
THEOREM ClaimsAreBacked == Spec => []NoOrphanClaim
  BY Invariance, PTL DEF IInv

(* No ConnManager offers a dialer after its handler's Delete.              *)
THEOREM EntriesAreServed == Spec => []NoStaleEntry
  BY Invariance, PTL DEF IInv

(* Only the claim of an accepted socket changes the holder of the Lease:   *)
(* RenewOwned never takes a tunnel from a peer, however stale its read.    *)
THEOREM RenewalNeverSteals == Spec => OnlyAcceptedSocketsClaim
  <1> DEFINE Claims ==
        lease' # NoLease /\ (lease = NoLease \/ lease.holder # lease'.holder)
          => \E t \in Tunnels : /\ owner[t] = lease'.holder
                                /\ pc[t] \in {"create", "update"}
                                /\ pc'[t] = "claimed"
  <1>1. IInv /\ [Next]_vars => [Claims]_vars
    <2> SUFFICES ASSUME IInv, Next PROVE Claims
      OBVIOUS
    <2> USE DEF agentVars, handlerVars, leaseVars, readVars
    <2>1. ASSUME NEW t \in Tunnels, HandlerStep(t) PROVE Claims
      BY <2>1
      DEF IInv, TypeOK, HandlerStep, StoreLocal, ClaimGet, ClaimWrite, CanWrite, ClaimConflict,
          ClaimError, ClaimInvalidate, DeleteLocal, ReleaseGet, ReleaseDelete,
          ReleaseError, ReleaseInvalidate, ReadVersion, ReadUID, WriteLease,
          DeleteLease, Goto
    <2>2. ASSUME NEW r \in Replicas, SweeperStep(r) PROVE Claims
      BY <2>2
      DEF IInv, RenewalIsOwn, HeldBy, SweeperStep, SweepStart, RenewGet, RenewUpdate,
          RenewError, ReadVersion, WriteLease
    <2>3. CASE Tick
      BY <2>3 DEF Tick
    <2>4. CASE lease' = lease
      BY <2>4
    <2> QED
      BY <2>1, <2>2, <2>3, <2>4
      DEF Next, Connect, AgentLose, ConnBreak, DialerTimeout, CloseDialer, LoadMiss,
          LookupStep, LookupGet, LookupStore, CacheExpire, Crash, Restart
  <1> QED
    BY <1>1, Invariance, PTL DEF Spec, OnlyAcceptedSocketsClaim

-----------------------------------------------------------------------------
(* Refinement of TunnelRegistry. *)

Stages == [t \in Tunnels |-> Stage(pc[t])]
Claimant == IF lease = NoLease THEN NoReplica ELSE lease.holder
RegistryVars == <<owner, Stages, Claimant>>

\* The handler of t goes on, its stage with it.
LEMMA StageMoves ==
    ASSUME TypeOK, NEW t \in Tunnels, NEW label \in PCs, Goto(t, label)
    PROVE  /\ Stages' = [Stages EXCEPT ![t] = Stage(label)]
           /\ Stages[t] = Stage(pc[t])
           /\ Stage(label) = Stage(pc[t]) => Stages' = Stages
  BY DEF TypeOK, Goto, Stages

LEMMA StageValues ==
    /\ Stage("idle") = "out"
    /\ \A p \in {"upgraded", "claim", "create", "update"} : Stage(p) = "joining"
    /\ \A p \in {"claimed", "serving"} : Stage(p) = "in"
    /\ \A p \in {"release", "delete", "released"} : Stage(p) = "leaving"
    /\ Stage("finished") = "gone"
    /\ \A p \in {"unreleased", "crashed"} : Stage(p) = "lost"
  BY DEF Stage

\* A handler of r that is before, in or past its service, but not through.
LEMMA BackedIsAnswered ==
    ASSUME NEW t \in Tunnels, NEW r, Backs(t, r)
    PROVE  owner[t] = r /\ Stages[t] \in {"joining", "in", "leaving", "lost"}
  BY DEF Backs, StoredPCs, Stages, Stage

\* Steps within a stage, and claims, by a handler that has not left.
LEMMA ServingRefines ==
    ASSUME IInv, NEW t \in Tunnels,
           \/ StoreLocal(t) \/ ClaimGet(t) \/ ClaimWrite(t) \/ ClaimConflict(t) \/ ClaimError(t)
           \/ ClaimInvalidate(t) \/ DeleteLocal(t)
    PROVE  Tunnel!Next \/ UNCHANGED RegistryVars
  <1> USE StageValues DEF IInv, PCs
  <1>0. owner' = owner /\ TypeOK /\ (pc[t] # "idle" => owner[t] \in Replicas)
    BY DEF StoreLocal, ClaimGet, ClaimWrite, ClaimConflict, ClaimError, ClaimInvalidate, DeleteLocal,
           OwnerKnown
  <1>1. CASE StoreLocal(t) \/ ClaimGet(t) \/ (ClaimConflict(t) /\ t \notin retried)
    <2>1. PICK label \in {"claim", "create", "update"} :
             /\ pc[t] \in {"upgraded", "claim", "create", "update"} /\ Goto(t, label) /\ lease' = lease
      BY <1>1 DEF StoreLocal, ClaimGet, ClaimConflict, ReadVersion, leaseVars
    <2>2. Stages' = Stages BY <1>0, <2>1, StageMoves
    <2> QED BY <1>0, <2>1, <2>2 DEF RegistryVars, Claimant
  <1>2. CASE \/ ClaimWrite(t) \/ ClaimError(t) \/ (ClaimConflict(t) /\ t \in retried)
    <2>1. /\ pc[t] \in {"claim", "create", "update"} /\ Goto(t, "claimed")
          /\ lease' = lease \/ WriteLease(owner[t])
      BY <1>2 DEF ClaimWrite, ClaimError, ClaimConflict, CanWrite, leaseVars
    <2>2. Claimant' \in {owner[t], Claimant}
      BY <1>0, <2>1, ConstantsAssumption DEF WriteLease, Claimant
    <2>3. Stages' = [Stages EXCEPT ![t] = "in"] /\ Stages[t] = "joining"
      BY <1>0, <2>1, StageMoves
    <2>4. Tunnel!Advertise(t)
      BY <1>0, <2>2, <2>3 DEF Tunnel!Advertise, Tunnel!Moves, Claimant, Stages
    <2> QED BY <2>4 DEF Tunnel!Next
  <1>3. CASE ClaimInvalidate(t)
    <2>1. pc[t] = "claimed" /\ Goto(t, "serving") /\ lease' = lease
      BY <1>3 DEF ClaimInvalidate, leaseVars
    <2>2. Stages' = Stages BY <1>0, <2>1, StageMoves
    <2> QED BY <1>0, <2>1, <2>2 DEF RegistryVars, Claimant
  <1>4. CASE DeleteLocal(t)
    <2>1. pc[t] = "serving" /\ Goto(t, "release") /\ lease' = lease
      BY <1>4 DEF DeleteLocal, leaseVars
    <2>2. Stages' = [Stages EXCEPT ![t] = "leaving"] /\ Stages[t] = "in"
      BY <1>0, <2>1, StageMoves
    <2>3. Tunnel!Leave(t) BY <1>0, <2>1, <2>2 DEF Tunnel!Leave, Tunnel!Moves, Claimant, Stages
    <2> QED BY <2>3 DEF Tunnel!Next
  <1> QED BY <1>1, <1>2, <1>3, <1>4

\* A release: NoOrphanClaim says who answers for a claim that it leaves.
LEMMA LeavingRefines ==
    ASSUME IInv, NoOrphanClaim', NEW t \in Tunnels,
           ReleaseGet(t) \/ ReleaseDelete(t) \/ ReleaseError(t) \/ ReleaseInvalidate(t)
    PROVE  Tunnel!Next \/ UNCHANGED RegistryVars
  <1> USE StageValues DEF IInv, PCs
  <1>0. owner' = owner /\ TypeOK /\ (pc[t] # "idle" => owner[t] \in Replicas)
    BY DEF ReleaseGet, ReleaseDelete, ReleaseError, ReleaseInvalidate, OwnerKnown
  <1>1. CASE ReleaseGet(t) /\ ~HeldBy(owner[t])
    <2>1. pc[t] = "release" /\ Goto(t, "finished") /\ lease' = lease
      BY <1>1 DEF ReleaseGet, leaseVars
    <2>2. Claimant # owner[t]
      BY <1>0, <1>1, <2>1, ConstantsAssumption DEF HeldBy, Claimant
    <2>3. Stages' = [Stages EXCEPT ![t] = "gone"] /\ Stages[t] = "leaving"
      BY <1>0, <2>1, StageMoves
    <2>4. Tunnel!Finish(t)
      BY <1>0, <2>1, <2>2, <2>3 DEF Tunnel!Finish, Tunnel!Moves, Claimant, Stages
    <2> QED BY <2>4 DEF Tunnel!Next
  <1>2. CASE ReleaseGet(t) /\ HeldBy(owner[t])
    <2>1. pc[t] = "release" /\ Goto(t, "delete") /\ lease' = lease
      BY <1>2 DEF ReleaseGet, ReadUID
    <2>2. Stages' = Stages BY <1>0, <2>1, StageMoves
    <2> QED BY <1>0, <2>1, <2>2 DEF RegistryVars, Claimant
  <1>3. CASE ReleaseDelete(t)
    <2>1. /\ pc[t] = "delete" /\ Goto(t, "released")
          /\ lease' = lease \/ lease' = NoLease
      BY <1>3 DEF ReleaseDelete, DeleteLease, leaseVars
    <2>2. Stages' = Stages /\ Stages[t] = "leaving" BY <1>0, <2>1, StageMoves
    <2>3. CASE lease' = lease BY <1>0, <2>2, <2>3 DEF RegistryVars, Claimant
    <2>4. CASE lease' = NoLease
      <3>1. Tunnel!Withdraw(t) BY <1>0, <2>2, <2>4 DEF Tunnel!Withdraw, Claimant, Stages
      <3> QED BY <3>1 DEF Tunnel!Next
    <2> QED BY <2>1, <2>3, <2>4
  <1>4. CASE ReleaseError(t)
    <2>1. pc[t] \in {"release", "delete"} /\ Goto(t, "unreleased") /\ lease' = lease
      BY <1>4 DEF ReleaseError, leaseVars
    <2>2. Stages' = [Stages EXCEPT ![t] = "lost"] /\ Stages[t] = "leaving"
      BY <1>0, <2>1, StageMoves
    <2>3. Tunnel!Fail(t) BY <1>0, <2>1, <2>2 DEF Tunnel!Fail, Tunnel!Moves, Claimant, Stages
    <2> QED BY <2>3 DEF Tunnel!Next
  <1>5. CASE ReleaseInvalidate(t)
    <2>1. pc[t] = "released" /\ Goto(t, "finished") /\ UNCHANGED leaseVars
      BY <1>5 DEF ReleaseInvalidate
    <2>2. Stages' = [Stages EXCEPT ![t] = "gone"] /\ Stages[t] = "leaving"
      BY <1>0, <2>1, StageMoves
    <2>3. ASSUME Claimant = owner[t]
          PROVE  \E s \in Tunnels \ {t} :
                    owner[s] = owner[t] /\ Stages[s] \in {"joining", "in", "leaving", "lost"}
      <3>1. lease # NoLease /\ lease.holder = owner[t] /\ lease' = lease
        BY <1>0, <2>1, <2>3, ConstantsAssumption DEF Claimant, leaseVars
      <3>2. PICK s \in Tunnels :
               /\ owner[s] = owner[t]
               /\ pc'[s] \in StoredPCs \cup {"release", "delete", "unreleased", "crashed"}
               /\ pc'[s] = "delete" => s \in uidCurrent
        BY <1>0, <2>1, <3>1 DEF NoOrphanClaim, ReleasePending, leaseVars
      <3>3. pc'[t] = "finished" /\ \A q \in Tunnels \ {t} : pc'[q] = pc[q]
        BY <1>0, <2>1 DEF TypeOK, Goto
      <3>4. s # t /\ Backs(s, owner[t]) BY <3>2, <3>3 DEF Backs, StoredPCs
      <3> QED BY <3>4, BackedIsAnswered
    <2>4. Tunnel!Finish(t)
      BY <1>0, <2>1, <2>2, <2>3
      DEF Tunnel!Finish, Tunnel!Moves, Tunnel!Answers, Claimant, Stages, leaseVars
    <2> QED BY <2>4 DEF Tunnel!Next
  <1> QED BY <1>1, <1>2, <1>3, <1>4, <1>5

LEMMA NextRefinesRegistry ==
    ASSUME IInv, IInv', [Next]_vars
    PROVE  [Tunnel!Next]_RegistryVars
  <1> USE DEF IInv, agentVars, handlerVars, leaseVars, readVars
  <1>1. ASSUME NEW t \in Tunnels, NEW r \in Replicas, Connect(t, r) PROVE Tunnel!Next
    <2>1. /\ pc[t] = "idle" /\ Goto(t, "upgraded") /\ lease' = lease
          /\ owner' = [owner EXCEPT ![t] = r]
      BY <1>1 DEF Connect
    <2>2. Stages' = [Stages EXCEPT ![t] = "joining"] /\ Stages[t] = "out"
      BY <2>1, StageMoves, StageValues DEF PCs
    <2>3. Tunnel!Accept(t, r)
      BY <2>1, <2>2 DEF Tunnel!Accept, Tunnel!Moves, Claimant, Stages
    <2> QED BY <2>3 DEF Tunnel!Next
  <1>2. ASSUME NEW t \in Tunnels, HandlerStep(t) PROVE [Tunnel!Next]_RegistryVars
    BY <1>2, ServingRefines, LeavingRefines DEF HandlerStep
  <1>3. ASSUME NEW r \in Replicas, SweeperStep(r) PROVE UNCHANGED RegistryVars
    <2>1. UNCHANGED <<owner, pc>>
      BY <1>3 DEF SweeperStep, SweepStart, RenewGet, RenewUpdate, RenewError
    <2>2. lease' = lease \/ (HeldBy(r) /\ lease' = [holder |-> r, age |-> 0])
      BY <1>3
      DEF SweeperStep, SweepStart, RenewGet, RenewUpdate, RenewError, ReadVersion,
          WriteLease, RenewalIsOwn
    <2>3. Claimant' = Claimant BY <2>2, ConstantsAssumption DEF HeldBy, Claimant
    <2> QED BY <2>1, <2>3 DEF RegistryVars, Stages
  <1>4. ASSUME NEW r \in Replicas, Crash(r) PROVE Tunnel!Next
    <2>1. /\ UNCHANGED <<owner, lease>>
          /\ pc' = [t \in Tunnels |->
                      IF owner[t] = r /\ pc[t] \notin EndPCs THEN "crashed" ELSE pc[t]]
      BY <1>4 DEF Crash
    <2>2. ASSUME NEW t \in Tunnels
          PROVE  Stage(pc'[t]) = IF owner[t] = r /\ Stage(pc[t]) # "gone" THEN "lost"
                                 ELSE Stage(pc[t])
      <3>1. owner[t] = r => pc[t] # "idle" BY ConstantsAssumption DEF OwnerKnown
      <3>2. pc[t] \in PCs BY DEF TypeOK
      <3>3. CASE pc[t] = "finished" BY <2>1, <3>3, StageValues DEF EndPCs
      <3>4. CASE pc[t] \in {"unreleased", "crashed"} BY <2>1, <3>4, StageValues DEF EndPCs
      <3>5. CASE pc[t] \notin EndPCs
        <4>1. Stage(pc[t]) # "gone" BY <3>2, <3>5, StageValues DEF PCs, EndPCs
        <4> QED BY <2>1, <3>5, <4>1, StageValues
      <3> QED BY <3>3, <3>4, <3>5 DEF EndPCs
    <2>3. Tunnel!Die(r) BY <2>1, <2>2 DEF Tunnel!Die, Stages, Claimant
    <2> QED BY <2>3 DEF Tunnel!Next
  <1>5. CASE Tick
    <2>1. Claimant' = Claimant
      BY <1>5, ConstantsAssumption DEF Tick, Claimant, TypeOK, Leases, Ages, Older, Fresh
    <2> QED BY <1>5, <2>1 DEF Tick, RegistryVars, Stages
  <1>6. CASE UNCHANGED <<owner, pc, lease>>
    BY <1>6 DEF RegistryVars, Stages, Claimant
  <1> QED
    BY <1>1, <1>2, <1>3, <1>4, <1>5, <1>6
    DEF Next, AgentLose, ConnBreak, DialerTimeout, CloseDialer, LoadMiss, LookupStep,
        LookupGet, LookupStore, CacheExpire, Restart, vars

(* The Lease, its versions, renewals, sweeps and caches implement the      *)
(* registry of one tunnel: only a handler with an accepted socket changes  *)
(* who is advertised to its replica, and a handler that finishes leaves no *)
(* claim of its replica without another handler that answers for it.       *)
THEOREM LeaseIsTunnelRegistry == Spec => ImplementsTunnelRegistry
  <1>1. Init => Tunnel!Init
    BY StageValues DEF Init, Tunnel!Init
  <1>2. ASSUME IInv, [Next]_vars PROVE IInv'
    BY <1>2, NextTypeOK, NextOwnerKnown, NextNoStaleEntry, NextRenewalIsOwn, NextNoOrphanClaim
    DEF IInv
  <1> QED
    BY <1>1, <1>2, InitIInv, NextRefinesRegistry, PTL
    DEF Spec, ImplementsTunnelRegistry, Tunnel!Spec, Tunnel!vars, RegistryVars, Stages, Claimant

-----------------------------------------------------------------------------
(* Served sockets, where the agent redials only once the old handler is    *)
(* gone, the API server answers and a claim outlives one sweep interval.   *)
Orderly == CleanReconnect = TRUE /\ ApiErrors = FALSE /\ LeaseTTL >= 1

Active(t) == pc[t] \notin EndPCs \cup {"idle"}

OneActive == \A s, t \in Tunnels : Active(s) /\ Active(t) => s = t

ActiveRuns == \A t \in Tunnels : Active(t) => owner[t] \in up

OpenIsStored ==
    \A t \in Tunnels : pc[t] \in StoredPCs /\ t \notin closed => dials[owner[t]] = t

\* Only the active handler creates or deletes the Lease.
AloneWithLease ==
    \A t \in Tunnels :
        /\ pc[t] \in {"create", "released"} => lease = NoLease
        /\ pc[t] = "delete" => t \in uidCurrent
        /\ pc[t] # "unreleased"

\* A version is outdated only by a write of the same sweep interval.
OutdatedMeansRenewed ==
    \A r \in Replicas :
        sweep[r] = "update" /\ r \notin rvCurrent /\ lease # NoLease => lease.age = 0

\* The claim of a crashed process is renewed by nobody.
OnlyServersRenew ==
    \A r \in Replicas :
        HeldBy(r) /\ sweep[r] \in {"get", "update"}
            => \E t \in Tunnels : Active(t) /\ owner[t] = r

\* The claim is written, or it was there and is renewed.
Claimed(t) == pc[t] \in {"claimed", "serving"} \/ (pc[t] = "update" /\ t \notin rvCurrent)

ClaimedIsRenewed ==
    \A t \in Tunnels :
        Claimed(t) /\ t \notin closed =>
            /\ HeldBy(owner[t])
            /\ lease.age <= 1
            /\ sweep[owner[t]] = "done" => lease.age = 0

ServingInv ==
    /\ OneActive /\ ActiveRuns /\ OpenIsStored /\ AloneWithLease
    /\ OutdatedMeansRenewed /\ OnlyServersRenew /\ ClaimedIsRenewed

LEMMA InitServing == ASSUME Init PROVE ServingInv
  BY ConstantsAssumption
  DEF Init, ServingInv, OneActive, ActiveRuns, OpenIsStored, AloneWithLease,
      OutdatedMeansRenewed, OnlyServersRenew, ClaimedIsRenewed, Claimed, Active,
      EndPCs, StoredPCs, HeldBy

(* A handler goes on from where it is, and stays active unless it ends.    *)
LEMMA HandlersAlone ==
    ASSUME Orderly, IInv, ServingInv, Next
    PROVE  OneActive' /\ ActiveRuns'
  <1> USE DEF Orderly, IInv, TypeOK, ServingInv, OneActive, ActiveRuns, Active, EndPCs,
              agentVars, handlerVars
  <1>1. ASSUME NEW t \in Tunnels, NEW r \in Replicas, Connect(t, r)
        PROVE  OneActive' /\ ActiveRuns'
    BY <1>1 DEF Connect, Goto
  <1>2. ASSUME NEW t \in Tunnels, HandlerStep(t) PROVE OneActive' /\ ActiveRuns'
    <2>1. /\ UNCHANGED <<up, owner>> /\ Active(t)
          /\ \A s \in Tunnels \ {t} : pc'[s] = pc[s]
      BY <1>2
      DEF HandlerStep, StoreLocal, ClaimGet, ClaimWrite, CanWrite, ClaimConflict,
          ClaimError, ClaimInvalidate, DeleteLocal, ReleaseGet, ReleaseDelete,
          ReleaseError, ReleaseInvalidate, Goto
    <2> QED BY <2>1
  <1>3. ASSUME NEW r \in Replicas, Crash(r) PROVE OneActive' /\ ActiveRuns'
    BY <1>3 DEF Crash
  <1>4. CASE UNCHANGED handlerVars /\ up \subseteq up'
    BY <1>4
  <1> QED
    BY <1>1, <1>2, <1>3, <1>4
    DEF Next, AgentLose, ConnBreak, DialerTimeout, CloseDialer, SweeperStep, SweepStart,
        RenewGet, RenewUpdate, RenewError, LoadMiss, LookupStep, LookupGet, LookupStore,
        CacheExpire, Restart, Tick

(* Nobody else deletes the entry, and evictions take closed dialers only.  *)
LEMMA EntriesStay ==
    ASSUME Orderly, IInv, ServingInv, Next
    PROVE  OpenIsStored'
  <1> USE DEF Orderly, IInv, TypeOK, ServingInv, OpenIsStored, StoredPCs,
              agentVars, handlerVars
  <1>1. ASSUME NEW t \in Tunnels, NEW r \in Replicas, Connect(t, r) PROVE OpenIsStored'
    BY <1>1 DEF Connect, Goto
  <1>2. ASSUME NEW t \in Tunnels, HandlerStep(t) PROVE OpenIsStored'
    <2>1. CASE StoreLocal(t) \/ DeleteLocal(t)
      BY <2>1 DEF StoreLocal, DeleteLocal, Goto, OneActive, Active, EndPCs, OwnerKnown
    <2>2. CASE /\ UNCHANGED <<owner, dials, closed>>
               /\ \A s \in Tunnels : pc'[s] \in StoredPCs => pc[s] \in StoredPCs
      BY <2>2
    <2> QED
      BY <1>2, <2>1, <2>2
      DEF HandlerStep, ClaimGet, ClaimWrite, CanWrite, ClaimConflict, ClaimError,
          ClaimInvalidate, ReleaseGet, ReleaseDelete, ReleaseError,
          ReleaseInvalidate, Goto
  <1>3. ASSUME NEW r \in Replicas, SweepStart(r) \/ LoadMiss(r) PROVE OpenIsStored'
    BY <1>3, ConstantsAssumption DEF SweepStart, LoadMiss, LoadLocal, OwnerKnown
  <1>4. ASSUME NEW r \in Replicas, Crash(r) PROVE OpenIsStored'
    BY <1>4 DEF Crash, EndPCs, OwnerKnown
  <1>5. CASE UNCHANGED <<handlerVars, dials>> /\ closed \subseteq closed'
    BY <1>5
  <1> QED
    BY <1>1, <1>2, <1>3, <1>4, <1>5
    DEF Next, AgentLose, ConnBreak, DialerTimeout, CloseDialer, SweeperStep, RenewGet,
        RenewUpdate, RenewError, LookupStep, LookupGet, LookupStore, CacheExpire,
        Restart, Tick

(* The one active handler finds the Lease as it left it.                   *)
LEMMA LeaseLeftAlone ==
    ASSUME Orderly, IInv, ServingInv, Next
    PROVE  AloneWithLease'
  <1> USE DEF Orderly, IInv, TypeOK, ServingInv, AloneWithLease, OneActive, Active, EndPCs,
              agentVars, handlerVars, leaseVars
  <1>1. ASSUME NEW t \in Tunnels, NEW r \in Replicas, Connect(t, r) PROVE AloneWithLease'
    BY <1>1 DEF Connect, Goto
  <1>2. ASSUME NEW t \in Tunnels, HandlerStep(t) PROVE AloneWithLease'
    <2>1. /\ Active(t) /\ \A s \in Tunnels \ {t} : pc'[s] = pc[s]
          /\ pc'[t] = "create" => pc[t] = "claim" /\ lease' = NoLease
          /\ pc'[t] = "released" => pc[t] = "delete" /\ (t \in uidCurrent => lease' = NoLease)
          /\ pc'[t] = "delete" => pc[t] = "release" /\ t \in uidCurrent'
          /\ pc'[t] # "unreleased"
      BY <1>2
      DEF HandlerStep, StoreLocal, ClaimGet, ClaimWrite, CanWrite, ClaimConflict,
          ClaimError, ClaimInvalidate, DeleteLocal, ReleaseGet, ReleaseDelete,
          ReleaseError, ReleaseInvalidate, ReadUID, DeleteLease, Goto
    <2> QED BY <2>1
  <1>3. ASSUME NEW r \in Replicas, RenewUpdate(r) PROVE AloneWithLease'
    BY <1>3 DEF RenewUpdate, WriteLease, RenewalIsOwn, HeldBy
  <1>4. ASSUME NEW r \in Replicas, Crash(r) PROVE AloneWithLease'
    BY <1>4 DEF Crash
  <1>5. CASE UNCHANGED <<handlerVars, uidCurrent>> /\ (lease = NoLease => lease' = NoLease)
    BY <1>5
  <1> QED
    BY <1>1, <1>2, <1>3, <1>4, <1>5
    DEF Next, AgentLose, ConnBreak, DialerTimeout, CloseDialer, SweeperStep, SweepStart,
        RenewGet, RenewError, ReadVersion, LoadMiss, LookupStep, LookupGet, LookupStore,
        CacheExpire, Restart, Tick

(* Every write stamps the Lease, and a new interval waits for the sweeps.  *)
LEMMA WritesStamp ==
    ASSUME Orderly, IInv, ServingInv, Next
    PROVE  OutdatedMeansRenewed'
  <1> USE ConstantsAssumption
      DEF Orderly, IInv, TypeOK, ServingInv, OutdatedMeansRenewed,
          agentVars, handlerVars, leaseVars
  <1>1. ASSUME NEW t \in Tunnels, HandlerStep(t) PROVE OutdatedMeansRenewed'
    <2>1. /\ sweep' = sweep
          /\ \/ lease' = lease /\ rvCurrent \subseteq rvCurrent'
             \/ lease' = NoLease
             \/ lease' = [holder |-> owner[t], age |-> 0]
      BY <1>1
      DEF HandlerStep, StoreLocal, ClaimGet, ClaimWrite, ClaimConflict, ClaimError,
          ClaimInvalidate, DeleteLocal, ReleaseGet, ReleaseDelete, ReleaseError,
          ReleaseInvalidate, ReadVersion, ReadUID, WriteLease, DeleteLease
    <2> QED BY <2>1
  <1>2. ASSUME NEW r \in Replicas, SweeperStep(r) PROVE OutdatedMeansRenewed'
    BY <1>2
    DEF SweeperStep, SweepStart, RenewGet, RenewUpdate, RenewError, ReadVersion, WriteLease
  <1>3. CASE Tick
    BY <1>3 DEF Tick
  <1>4. ASSUME NEW r \in Replicas, Crash(r) PROVE OutdatedMeansRenewed'
    BY <1>4 DEF Crash
  <1>5. CASE UNCHANGED <<leaseVars, sweep>>
    BY <1>5
  <1> QED
    BY <1>1, <1>2, <1>3, <1>4, <1>5
    DEF Next, Connect, AgentLose, ConnBreak, DialerTimeout, CloseDialer, LoadMiss,
        LookupStep, LookupGet, LookupStore, CacheExpire, Restart

(* A sweep starts for an entry, hence for an active handler, and that one  *)
(* takes the Lease away when it ends.                                      *)
LEMMA ServersRenew ==
    ASSUME Orderly, IInv, ServingInv, Next
    PROVE  OnlyServersRenew'
  <1> USE ConstantsAssumption
      DEF Orderly, IInv, TypeOK, ServingInv, OnlyServersRenew, HeldBy, Active, EndPCs,
          agentVars, handlerVars, leaseVars
  <1>1. ASSUME NEW t \in Tunnels, NEW r \in Replicas, Connect(t, r) PROVE OnlyServersRenew'
    BY <1>1 DEF Connect, Goto
  <1>2. ASSUME NEW t \in Tunnels, HandlerStep(t) PROVE OnlyServersRenew'
    <2>1. /\ UNCHANGED <<owner, sweep>> /\ Active(t)
          /\ \A s \in Tunnels \ {t} : pc'[s] = pc[s]
          /\ lease' \in {lease, NoLease, [holder |-> owner[t], age |-> 0]}
          /\ ~Active(t)' => ~HeldBy(owner[t])'
      BY <1>2
      DEF HandlerStep, StoreLocal, ClaimGet, ClaimWrite, CanWrite, ClaimConflict,
          ClaimError, ClaimInvalidate, DeleteLocal, ReleaseGet, ReleaseDelete,
          ReleaseError, ReleaseInvalidate, ReadVersion, ReadUID, WriteLease, DeleteLease,
          AloneWithLease, Goto
    <2>2. lease' = [holder |-> owner[t], age |-> 0] => Active(t)'
      BY <2>1 DEF OwnerKnown
    <2> QED BY <2>1, <2>2
  <1>3. ASSUME NEW r \in Replicas, SweeperStep(r) PROVE OnlyServersRenew'
    BY <1>3
    DEF SweeperStep, SweepStart, RenewGet, RenewUpdate, RenewError, ReadVersion, WriteLease,
        LoadLocal, NoStaleEntry, StoredPCs, RenewalIsOwn
  <1>4. CASE Tick
    BY <1>4 DEF Tick
  <1>5. ASSUME NEW r \in Replicas, Crash(r) PROVE OnlyServersRenew'
    BY <1>5 DEF Crash
  <1>6. CASE UNCHANGED <<handlerVars, lease, sweep>>
    BY <1>6
  <1> QED
    BY <1>1, <1>2, <1>3, <1>4, <1>5, <1>6
    DEF Next, AgentLose, ConnBreak, DialerTimeout, CloseDialer, LoadMiss, LookupStep,
        LookupGet, LookupStore, CacheExpire, Restart

(* Whoever outdates the claim's read is the sweeper of the same replica,   *)
(* and what it wrote is the claim.                                         *)
LEMMA ClaimsStayRenewed ==
    ASSUME Orderly, IInv, ServingInv, Next
    PROVE  ClaimedIsRenewed'
  <1> USE ConstantsAssumption
      DEF Orderly, IInv, TypeOK, OwnerKnown, ServingInv, ClaimedIsRenewed, Claimed, HeldBy,
          agentVars, handlerVars, leaseVars
  <1>1. ASSUME NEW t \in Tunnels, NEW r \in Replicas, Connect(t, r) PROVE ClaimedIsRenewed'
    BY <1>1 DEF Connect, Goto
  <1>2. ASSUME NEW t \in Tunnels, HandlerStep(t) PROVE ClaimedIsRenewed'
    <2>1. Active(t) /\ \A s \in Tunnels \ {t} : ~Active(s)
      BY <1>2
      DEF OneActive, Active, EndPCs, HandlerStep, StoreLocal, ClaimGet, ClaimWrite, CanWrite,
          ClaimConflict, ClaimError, ClaimInvalidate, DeleteLocal, ReleaseGet,
          ReleaseDelete, ReleaseError, ReleaseInvalidate
    <2>2. /\ UNCHANGED <<owner, closed, sweep>>
          /\ \A s \in Tunnels \ {t} : pc'[s] = pc[s]
      BY <1>2
      DEF HandlerStep, StoreLocal, ClaimGet, ClaimWrite, ClaimConflict, ClaimError,
          ClaimInvalidate, DeleteLocal, ReleaseGet, ReleaseDelete, ReleaseError,
          ReleaseInvalidate, Goto
    <2>3. \A s \in Tunnels \ {t} : ~Claimed(s)'
      BY <2>1, <2>2 DEF Active, EndPCs
    <2>4. \/ ~Claimed(t)'
          \/ lease' = [holder |-> owner[t], age |-> 0]
          \/ Claimed(t) /\ lease' = lease
      BY <1>2
      DEF HandlerStep, StoreLocal, ClaimGet, ClaimWrite, CanWrite, ClaimConflict, ClaimError,
          ClaimInvalidate, DeleteLocal, ReleaseGet, ReleaseDelete, ReleaseError,
          ReleaseInvalidate, ReadVersion, ReadUID, WriteLease, DeleteLease,
          AloneWithLease, Goto
    <2>5. lease' = [holder |-> owner[t], age |-> 0] => HeldBy(owner[t])' /\ lease'.age = 0
      BY <2>1, <2>2 DEF Active
    <2> QED BY <2>2, <2>3, <2>4, <2>5
  <1>3. ASSUME NEW r \in Replicas, SweepStart(r) PROVE ClaimedIsRenewed'
    BY <1>3 DEF SweepStart, LoadLocal, OpenIsStored, StoredPCs
  <1>4. ASSUME NEW r \in Replicas, RenewGet(r) PROVE ClaimedIsRenewed'
    BY <1>4 DEF RenewGet, ReadVersion
  <1>5. ASSUME NEW r \in Replicas, RenewUpdate(r) PROVE ClaimedIsRenewed'
    <2> SUFFICES ASSUME NEW t \in Tunnels, Claimed(t)', t \notin closed
                 PROVE  /\ HeldBy(owner[t])'
                        /\ lease'.age <= 1
                        /\ sweep'[owner[t]] = "done" => lease'.age = 0
      BY <1>5 DEF RenewUpdate
    <2>1. Active(t) /\ owner[t] \in Replicas /\ pc' = pc
      BY <1>5 DEF RenewUpdate, Active, EndPCs
    <2>2. CASE r \in rvCurrent
      <3>1. HeldBy(r) /\ lease' = [holder |-> r, age |-> 0]
        BY <1>5, <2>2 DEF RenewUpdate, RenewalIsOwn, WriteLease
      <3>2. owner[t] = r
        <4>1. PICK s \in Tunnels : Active(s) /\ owner[s] = r
          BY <1>5, <3>1 DEF RenewUpdate, OnlyServersRenew
        <4> QED BY <4>1, <2>1 DEF OneActive
      <3> QED BY <1>5, <3>1, <3>2 DEF RenewUpdate
    <2>3. CASE r \notin rvCurrent
      <3>1. UNCHANGED leaseVars /\ Claimed(t) BY <1>5, <2>3 DEF RenewUpdate
      <3>2. owner[t] = r => lease.age = 0
        BY <1>5, <2>3, <3>1 DEF RenewUpdate, OutdatedMeansRenewed
      <3> QED BY <1>5, <3>1, <3>2 DEF RenewUpdate
    <2> QED BY <2>2, <2>3
  <1>6. CASE Tick
    <2> SUFFICES ASSUME NEW t \in Tunnels, Claimed(t), t \notin closed
                 PROVE  /\ HeldBy(owner[t])'
                        /\ lease'.age <= 1
                        /\ sweep'[owner[t]] # "done"
      BY <1>6 DEF Tick
    <2>1. owner[t] \in up /\ owner[t] \in Replicas
      BY DEF ActiveRuns, Active, EndPCs
    <2>2. HeldBy(owner[t]) /\ lease.age = 0
      BY <1>6, <2>1 DEF Tick
    <2>3. lease' = [holder |-> owner[t], age |-> 1]
      BY <1>6, <2>2 DEF Tick, Older, Fresh
    <2> QED BY <1>6, <2>1, <2>3 DEF Tick
  <1>7. ASSUME NEW r \in Replicas, Crash(r) PROVE ClaimedIsRenewed'
    BY <1>7 DEF Crash, EndPCs
  <1>8. CASE UNCHANGED <<handlerVars, leaseVars, sweep>> /\ closed \subseteq closed'
    BY <1>8
  <1> QED
    BY <1>1, <1>2, <1>3, <1>4, <1>5, <1>6, <1>7, <1>8
    DEF Next, AgentLose, ConnBreak, DialerTimeout, CloseDialer, SweeperStep, RenewError,
        LoadMiss, LookupStep, LookupGet, LookupStore, CacheExpire, Restart

(* With an agent that redials only once the old handler is gone, an API    *)
(* server that answers and a TTL of at least one sweep interval, a served  *)
(* socket is the one the map offers and the one the Lease advertises,      *)
(* however sweeps, conflicting claims, crashes and restarts interleave.    *)
THEOREM ServedIsAdvertised ==
    ASSUME Orderly
    PROVE  Spec => []ServedSocketIsAdvertised
  <1>1. IInv /\ ServingInv /\ [Next]_vars => ServingInv'
    <2>1. ASSUME IInv, ServingInv, Next PROVE ServingInv'
      BY <2>1, Orderly, HandlersAlone, EntriesStay, LeaseLeftAlone, WritesStamp, ServersRenew,
         ClaimsStayRenewed
      DEF ServingInv
    <2>2. ASSUME ServingInv, UNCHANGED vars PROVE ServingInv'
      BY <2>2
      DEF vars, agentVars, handlerVars, leaseVars, readVars, ServingInv, OneActive,
          ActiveRuns, OpenIsStored, AloneWithLease, OutdatedMeansRenewed,
          OnlyServersRenew, ClaimedIsRenewed, Claimed, Active, HeldBy
    <2> QED BY <2>1, <2>2
  <1>2. IInv /\ ServingInv => ServedSocketIsAdvertised
    BY Orderly, ConstantsAssumption
    DEF Orderly, IInv, TypeOK, Leases, Ages, ServingInv, ServedSocketIsAdvertised,
        OpenIsStored, StoredPCs, ClaimedIsRenewed, Claimed, HeldBy, Fresh
  <1> QED
    BY <1>1, <1>2, InitServing, Invariance, PTL DEF Spec
=============================================================================
