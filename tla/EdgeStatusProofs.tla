--------------------------- MODULE EdgeStatusProofs ---------------------------
(***************************************************************************)
(* The two components of MCEdgeStatus and their product.                   *)
(*                                                                         *)
(* EdgeEngagement, for any number of replicas: whoever syncs the edge      *)
(* holds its claim, unless the claim ended under it, and claims pass from  *)
(* one to the next as LeasedWork says.  A takeover is decided on a read    *)
(* and made with a write; the resourceVersion says that what was read, a   *)
(* claim that is not fresh, is still so (ReadsHold).  A claim that         *)
(* somebody relies on is fresh (ReliedOnIsFresh), and who renewed a claim  *)
(* has forgotten that an earlier one ended (FreshIsClaimed).               *)
(*                                                                         *)
(* EdgeStatus, for any number of tunnels, tries and crashes: types, with   *)
(* the bound of the retry loop (TriesLeft).                                *)
(***************************************************************************)
EXTENDS MCEdgeStatus, TLAPS

ReliedOnIsFresh ==
    \A r \in Relying \ unclaimed : edgeLease = [holder |-> r, fresh |-> TRUE]

ReadsHold ==
    \A r \in readCurrent :
        /\ pass[r] = "renew" => edgeLease.holder = r
        /\ pass[r] = "takeover" => ~edgeLease.fresh

FreshIsClaimed == edgeLease.fresh => edgeLease.holder \notin unclaimed

EngagementInv == EngagementTypeOK /\ ReliedOnIsFresh /\ ReadsHold /\ FreshIsClaimed

LEMMA RelyingRuns == EngagementTypeOK => Relying \subseteq up
BY DEF EngagementTypeOK, Relying

LEMMA InitEngagement == EngagementInit => EngagementInv
<1> SUFFICES ASSUME EngagementInit PROVE EngagementInv OBVIOUS
<1> USE EngagementAssumption DEF EngagementInit
<1>1. EngagementTypeOK BY DEF EngagementTypeOK, Free, Places
<1>2. ReliedOnIsFresh BY DEF ReliedOnIsFresh, Relying
<1>3. ReadsHold BY DEF ReadsHold
<1>4. FreshIsClaimed BY DEF FreshIsClaimed
<1> QED BY <1>1, <1>2, <1>3, <1>4 DEF EngagementInv

(* What a pass does to the edge it no longer has.                          *)
LEMMA DropPreserves ==
    ASSUME EngagementInv, NEW r \in Syncers, r \in up, NEW b \in BOOLEAN, dropLocal(r, b),
           readCurrent' \subseteq readCurrent,
           UNCHANGED <<connected, edgeLease, uidCurrent, up, flips, setbacks>>
    PROVE  EngagementInv'
<1> USE DEF EngagementInv, dropLocal, Goes, storeVars
<1>1. EngagementTypeOK' BY DEF EngagementTypeOK, Places
<1>2. ReliedOnIsFresh' BY DEF ReliedOnIsFresh, Relying, EngagementTypeOK
<1>3. ReadsHold' BY DEF ReadsHold, EngagementTypeOK
<1>4. FreshIsClaimed' BY DEF FreshIsClaimed
<1> QED BY <1>1, <1>2, <1>3, <1>4

LEMMA ClaimGetPreserves == ASSUME EngagementInv, NEW r \in Syncers, ClaimGet(r) PROVE EngagementInv'
<1> USE DEF ClaimGet, InPass, WithoutSetback
<1>1. CASE dropLocal(r, FALSE) /\ UNCHANGED readCurrent
  BY <1>1, DropPreserves
<1>2. CASE ~(dropLocal(r, FALSE) /\ UNCHANGED readCurrent)
  <2> DEFINE place == CASE edgeLease.holder = NoSyncer -> "create"
                        [] edgeLease.holder = r -> "renew"
                        [] OTHER -> "takeover"
  <2>1. /\ r \in up /\ pass[r] = "get" /\ pass' = [pass EXCEPT ![r] = place]
        /\ readCurrent' = readCurrent \cup {r}
        /\ edgeLease.holder \in {NoSyncer, r} \/ ~edgeLease.fresh
        /\ UNCHANGED <<connected, edgeLease, uidCurrent, up, flips, setbacks, storeVars,
                       unclaimed, dropping>>
    BY <1>2 DEF Goes
  <2>2. /\ place \in {"create", "renew", "takeover"}
        /\ place = "renew" => edgeLease.holder = r
        /\ place = "takeover" => ~edgeLease.fresh
    BY <2>1
  <2> HIDE DEF place
  <2>3. EngagementTypeOK' BY <2>1, <2>2 DEF EngagementInv, EngagementTypeOK, Places, storeVars
  <2>4. ReliedOnIsFresh'
    BY <2>1, <2>2 DEF EngagementInv, ReliedOnIsFresh, Relying, EngagementTypeOK, storeVars
  <2>5. ReadsHold' BY <2>1, <2>2 DEF EngagementInv, ReadsHold, EngagementTypeOK
  <2>6. FreshIsClaimed' BY <2>1 DEF EngagementInv, FreshIsClaimed
  <2> QED BY <2>3, <2>4, <2>5, <2>6 DEF EngagementInv
<1> QED BY <1>1, <1>2

(* A write takes the Lease from nobody who relies on it.                   *)
LEMMA ClaimWritePreserves ==
    ASSUME EngagementInv, NEW r \in Syncers, ClaimWrite(r) PROVE EngagementInv'
<1>1. /\ r \in up /\ pass[r] \in {"create", "renew", "takeover"}
      /\ UNCHANGED <<connected, uidCurrent, up, flips, setbacks>>
  BY DEF ClaimWrite, InPass, WithoutSetback
<1>2. CASE ClaimHeld(r)
  <2> USE <1>1, <1>2 DEF ClaimHeld, Goes, storeVars
  <2>1. EngagementTypeOK' BY DEF EngagementInv, EngagementTypeOK, Places
  <2>2. ASSUME NEW q \in Relying', q \notin unclaimed', q # r PROVE FALSE
    <3>1. q \in Relying /\ q \notin unclaimed
      BY <2>2 DEF Relying, EngagementInv, EngagementTypeOK
    <3>2. edgeLease = [holder |-> q, fresh |-> TRUE] BY <3>1 DEF EngagementInv, ReliedOnIsFresh
    <3>3. edgeLease # Free BY <3>2 DEF Free
    <3>4. edgeLease.holder = q /\ edgeLease.fresh BY <3>2
    <3> QED BY <3>3, <3>4, <2>2 DEF EngagementInv, ReadsHold
  <2>3. ReliedOnIsFresh' BY <2>2 DEF ReliedOnIsFresh
  <2>4. ReadsHold' BY DEF ReadsHold
  <2>5. FreshIsClaimed' BY DEF FreshIsClaimed
  <2> QED BY <2>1, <2>3, <2>4, <2>5 DEF EngagementInv
<1>3. CASE ClaimNotHeld(r)
  BY <1>1, <1>3, DropPreserves DEF ClaimNotHeld
<1>4. CASE ClaimGone(r)
  <2> USE <1>1, <1>4 DEF ClaimGone, Goes, storeVars, EngagementInv
  <2>1. EngagementTypeOK' BY DEF EngagementTypeOK, Places
  <2>2. ReliedOnIsFresh' BY DEF ReliedOnIsFresh, Relying, EngagementTypeOK
  <2>3. ReadsHold' BY DEF ReadsHold, EngagementTypeOK
  <2>4. FreshIsClaimed' BY DEF FreshIsClaimed
  <2> QED BY <2>1, <2>2, <2>3, <2>4
<1> QED BY <1>2, <1>3, <1>4 DEF ClaimWrite

(* The rest of a pass, from engaging to releasing.                         *)
LEMMA PassPreserves == ASSUME EngagementInv, NEW r \in Syncers, PassStep(r) PROVE EngagementInv'
<1> USE DEF EngagementInv, InPass, Goes, WithoutSetback, Setback, storeVars, claimVars
<1>1. CASE ReadEdgeState(r)
  <2>1. CASE dropLocal(r, TRUE) BY <1>1, <2>1, DropPreserves DEF ReadEdgeState
  <2>2. CASE ~dropLocal(r, TRUE)
    BY <1>1, <2>2 DEF ReadEdgeState, EngagementTypeOK, Places, ReliedOnIsFresh, Relying, ReadsHold, FreshIsClaimed
  <2> QED BY <2>1, <2>2
<1>2. CASE ClaimGet(r) BY <1>2, ClaimGetPreserves
<1>3. CASE ClaimWrite(r) BY <1>3, ClaimWritePreserves
<1>4. CASE EngageEdge(r)
  BY <1>4 DEF EngageEdge, EngagementTypeOK, Places, ReliedOnIsFresh, Relying, ReadsHold, FreshIsClaimed
<1>5. CASE assertTenantLabel(r)
  BY <1>5 DEF assertTenantLabel, EngagementTypeOK, Places, ReliedOnIsFresh, Relying, ReadsHold, FreshIsClaimed
<1>6. CASE DisengageEdge(r)
  BY <1>6, EngagementAssumption
  DEF DisengageEdge, EngagementTypeOK, Places, ReliedOnIsFresh, Relying, ReadsHold, FreshIsClaimed
<1>7. CASE ReleaseRead(r)
  BY <1>7 DEF ReleaseRead, EngagementTypeOK, Places, ReliedOnIsFresh, Relying, ReadsHold, FreshIsClaimed
<1>8. CASE ReleaseClaim(r)
  <2>1. EngagementTypeOK'
    <3>1. CASE r \in uidCurrent
      <4>1. edgeLease' \in [holder : Syncers \cup {NoSyncer}, fresh : BOOLEAN]
        <5>1. edgeLease' = Free BY <1>8, <3>1 DEF ReleaseClaim
        <5> QED BY <5>1 DEF Free
      <4>2. unclaimed' \subseteq up
        BY <1>8, <3>1, RelyingRuns DEF ReleaseClaim, EngagementTypeOK
      <4> QED BY <1>8, <3>1, <4>1, <4>2 DEF ReleaseClaim, EngagementTypeOK, Places
    <3>2. CASE r \notin uidCurrent
      BY <1>8, <3>2 DEF ReleaseClaim, EngagementTypeOK, Places
    <3> QED BY <3>1, <3>2
  <2>2. ReliedOnIsFresh' BY <1>8 DEF ReleaseClaim, EngagementTypeOK, ReliedOnIsFresh, Relying
  <2>3. ReadsHold' BY <1>8 DEF ReleaseClaim, EngagementTypeOK, ReadsHold
  <2>4. FreshIsClaimed' BY <1>8 DEF ReleaseClaim, FreshIsClaimed, Free
  <2> QED BY <2>1, <2>2, <2>3, <2>4
<1> QED BY <1>1, <1>2, <1>3, <1>4, <1>5, <1>6, <1>7, <1>8 DEF PassStep

(* Failures, time and the edge.                                            *)
LEMMA NextEngagement == ASSUME EngagementInv, [EngagementNext]_engagementVars PROVE EngagementInv'
<1> USE EngagementAssumption
    DEF EngagementInv, InPass, Goes, WithoutSetback, Setback, storeVars, claimVars
<1>1. CASE UNCHANGED engagementVars
  BY <1>1 DEF engagementVars, EngagementTypeOK, ReliedOnIsFresh, Relying, ReadsHold, FreshIsClaimed
<1>2. ASSUME NEW r \in Syncers, LabelFails(r) PROVE EngagementInv'
  BY <1>2 DEF LabelFails, EngagementTypeOK, Places, ReliedOnIsFresh, Relying, ReadsHold, FreshIsClaimed
<1>3. ASSUME NEW r \in Syncers, PassFails(r) PROVE EngagementInv'
  BY <1>3 DEF PassFails, EngagementTypeOK, Places, ReliedOnIsFresh, Relying, ReadsHold, FreshIsClaimed
<1>4. ASSUME NEW r \in Syncers, EngineMarks(r) PROVE EngagementInv'
  BY <1>4 DEF EngineMarks, EngagementTypeOK, ReliedOnIsFresh, Relying, ReadsHold, FreshIsClaimed
<1>5. ASSUME NEW r \in Syncers, SyncerDies(r) PROVE EngagementInv'
  BY <1>5 DEF SyncerDies, EngagementTypeOK, Places, ReliedOnIsFresh, Relying, ReadsHold, FreshIsClaimed
<1>6. ASSUME NEW r \in Syncers, SyncerRestarts(r) PROVE EngagementInv'
  <2>1. EngagementTypeOK'
    BY <1>6 DEF SyncerRestarts, EngagementTypeOK
  <2>2. Relying' = Relying BY <1>6 DEF SyncerRestarts, Relying, EngagementTypeOK
  <2>3. ReliedOnIsFresh' BY <1>6, <2>2 DEF SyncerRestarts, ReliedOnIsFresh
  <2> QED BY <1>6, <2>1, <2>3 DEF SyncerRestarts, ReadsHold, FreshIsClaimed
<1>7. CASE EdgeFlips
  BY <1>7 DEF EdgeFlips, EngagementTypeOK, ReliedOnIsFresh, Relying, ReadsHold, FreshIsClaimed
<1>8. CASE ClaimRunsOut
  <2>1. unclaimed' \subseteq up BY <1>8, RelyingRuns DEF ClaimRunsOut, EngagementTypeOK
  <2>2. edgeLease' \in [holder : Syncers \cup {NoSyncer}, fresh : BOOLEAN]
    BY <1>8 DEF ClaimRunsOut, EngagementTypeOK
  <2>3. setbacks' \in 0..MaxSetbacks BY <1>8 DEF ClaimRunsOut, EngagementTypeOK
  <2>4. EngagementTypeOK' BY <1>8, <2>1, <2>2, <2>3 DEF ClaimRunsOut, EngagementTypeOK
  <2>5. ReliedOnIsFresh' BY <1>8 DEF ClaimRunsOut, EngagementTypeOK, ReliedOnIsFresh, Relying
  <2>6. ReadsHold' BY <1>8 DEF ClaimRunsOut, EngagementTypeOK, ReadsHold
  <2>7. FreshIsClaimed' BY <1>8 DEF ClaimRunsOut, EngagementTypeOK, FreshIsClaimed
  <2> QED BY <2>4, <2>5, <2>6, <2>7
<1> QED
  BY <1>1, <1>2, <1>3, <1>4, <1>5, <1>6, <1>7, <1>8, PassPreserves DEF EngagementNext

(* "Each connected edge is synced by exactly one replica", as far as the   *)
(* claim allows: whoever syncs holds it, or lost it and will notice.       *)
THEOREM SyncersHoldClaims == EngagementSpec => []SyncsUnderClaim
<1>1. EngagementInv => SyncsUnderClaim
  BY DEF EngagementInv, ReliedOnIsFresh, Relying, SyncsUnderClaim
<1> QED BY <1>1, InitEngagement, NextEngagement, PTL DEF EngagementSpec

(* Types; what a replica asserts it syncs, what it releases it does not.   *)
THEOREM EngagementTypeCorrect == EngagementSpec => []EngagementTypeOK
<1>1. EngagementInv => EngagementTypeOK BY DEF EngagementInv
<1> QED BY <1>1, InitEngagement, NextEngagement, PTL DEF EngagementSpec

-----------------------------------------------------------------------------
(* Refinement of LeasedWork. *)

Claimant == IF edgeLease.fresh THEN edgeLease.holder ELSE NoSyncer
Lapsed == unclaimed \cap Relying
WorkVars == <<Claimant, Relying, Lapsed>>

(* r lets go of the edge, if it had it, and forgets that its claim ended.  *)
LEMMA LettingGo ==
    ASSUME EngagementInv, NEW r \in Syncers, Relying' = Relying \ {r},
           unclaimed' \in {unclaimed, unclaimed \ {r}}, UNCHANGED edgeLease
    PROVE  Claims!Next \/ UNCHANGED WorkVars
<1>1. Claimant' = Claimant /\ Lapsed' = Lapsed \ {r} BY DEF Claimant, Lapsed
<1>2. CASE r \in Relying
  <2>1. Claims!Stop(r) BY <1>1, <1>2 DEF Claims!Stop, Claimant, Lapsed
  <2> QED BY <2>1 DEF Claims!Next
<1>3. CASE r \notin Relying BY <1>1, <1>3 DEF WorkVars, Lapsed
<1> QED BY <1>2, <1>3

LEMMA DropRefines ==
    ASSUME EngagementInv, NEW r \in Syncers, r \in up, NEW b \in BOOLEAN, dropLocal(r, b),
           pass[r] # "engage", UNCHANGED <<edgeLease, up>>
    PROVE  Claims!Next \/ UNCHANGED WorkVars
<1> USE DEF EngagementInv, EngagementTypeOK, dropLocal, Goes, storeVars, Relying
<1>1. CASE r \in syncing
  <2>1. Relying' = Relying \ {r} /\ unclaimed' = unclaimed \ {r} BY <1>1
  <2> HIDE DEF EngagementInv, dropLocal, Relying
  <2> QED BY <2>1, LettingGo
<1>2. CASE r \notin syncing
  <2>1. Relying' = Relying /\ unclaimed' = unclaimed BY <1>2
  <2> QED BY <2>1 DEF WorkVars, Claimant, Lapsed
<1> QED BY <1>1, <1>2

(* The claim is taken from nobody: what was read still holds.              *)
LEMMA HeldRefines ==
    ASSUME EngagementInv, NEW r \in Syncers, r \in up, ClaimHeld(r),
           pass[r] \in {"create", "renew", "takeover"}, UNCHANGED up
    PROVE  Claims!Next
<1> USE EngagementAssumption
<1>1. Relying' = Relying \cup {r} /\ unclaimed' = unclaimed \ {r} /\ Claimant' = r
  BY DEF ClaimHeld, Goes, storeVars, Relying, EngagementInv, EngagementTypeOK, Claimant
<1>2. Lapsed' = Lapsed \ {r} BY <1>1 DEF Lapsed
<1>3. Claimant \in {NoSyncer, r}
  BY DEF ClaimHeld, Claimant, EngagementInv, ReadsHold, EngagementTypeOK, Free
<1>4. CASE Claimant = NoSyncer
  <2>1. Claims!Take(r) BY <1>1, <1>2, <1>4 DEF Claims!Take, Claimant, Lapsed
  <2> QED BY <2>1 DEF Claims!Next
<1>5. CASE Claimant = r
  <2>1. Lapsed' = Lapsed BY <1>2, <1>5 DEF Claimant, Lapsed, EngagementInv, FreshIsClaimed
  <2>2. Claims!Renew(r) BY <1>1, <1>5, <2>1 DEF Claims!Renew, Claimant, Lapsed
  <2> QED BY <2>2 DEF Claims!Next
<1> QED BY <1>3, <1>4, <1>5

(* The claim ends: it ran out, or a release removed it, r's or another's.  *)
LEMMA EndRefines ==
    ASSUME EngagementInv, Relying' = Relying, ~edgeLease'.fresh,
           unclaimed' = unclaimed \cup (Relying \cap {edgeLease.holder})
    PROVE  Claims!Next \/ UNCHANGED WorkVars
<1>1. Claimant' = NoSyncer BY DEF Claimant
<1>2. CASE Claimant = NoSyncer
  <2>1. Relying \cap {edgeLease.holder} \subseteq unclaimed
    BY <1>2, EngagementAssumption
    DEF Claimant, EngagementInv, ReliedOnIsFresh, Relying, EngagementTypeOK
  <2>2. Lapsed' = Lapsed BY <2>1 DEF Lapsed
  <2> QED BY <1>1, <1>2, <2>2 DEF WorkVars
<1>3. CASE Claimant # NoSyncer
  <2>1. Claimant = edgeLease.holder BY <1>3 DEF Claimant
  <2>2. Lapsed' = Lapsed \cup (Relying \cap {Claimant}) BY <2>1 DEF Lapsed
  <2>3. Claims!Lapse BY <1>1, <1>3, <2>2 DEF Claims!Lapse, Claimant, Lapsed
  <2> QED BY <2>3 DEF Claims!Next
<1> QED BY <1>2, <1>3

LEMMA PassRefines ==
    ASSUME EngagementInv, NEW r \in Syncers, PassStep(r)
    PROVE  Claims!Next \/ UNCHANGED WorkVars
<1> USE DEF InPass, Goes, WithoutSetback, storeVars, claimVars
<1>1. ASSUME Relying' = Relying, UNCHANGED <<edgeLease, unclaimed>>
      PROVE  UNCHANGED WorkVars
  BY <1>1 DEF WorkVars, Claimant, Lapsed
<1>2. CASE ReadEdgeState(r) \/ ClaimGet(r) \/ (ClaimWrite(r) /\ ClaimNotHeld(r))
  <2>1. /\ r \in up /\ pass[r] # "engage" /\ UNCHANGED <<edgeLease, up>>
        /\ \/ dropLocal(r, TRUE) \/ dropLocal(r, FALSE)
           \/ /\ UNCHANGED <<syncing, unclaimed>>
              /\ \E place \in Places \ {"engage"} : pass' = [pass EXCEPT ![r] = place]
    BY <1>2 DEF ReadEdgeState, ClaimGet, ClaimWrite, ClaimNotHeld, Places
  <2>2. CASE dropLocal(r, TRUE) \/ dropLocal(r, FALSE) BY <2>1, <2>2, DropRefines
  <2>3. CASE /\ UNCHANGED <<syncing, unclaimed>>
             /\ \E place \in Places \ {"engage"} : pass' = [pass EXCEPT ![r] = place]
    <3>1. Relying' = Relying BY <2>1, <2>3 DEF Relying, EngagementInv, EngagementTypeOK
    <3> QED BY <2>1, <2>3, <3>1, <1>1
  <2> QED BY <2>1, <2>2, <2>3
<1>3. CASE ClaimWrite(r) /\ ClaimHeld(r)
  BY <1>3, HeldRefines DEF ClaimWrite
<1>4. CASE ClaimWrite(r) /\ ClaimGone(r)
  <2>1. Relying' = Relying BY <1>4 DEF ClaimWrite, ClaimGone, Relying, EngagementInv, EngagementTypeOK
  <2> QED BY <1>1, <1>4, <2>1 DEF ClaimWrite, ClaimGone
<1>5. CASE EngageEdge(r) \/ assertTenantLabel(r) \/ DisengageEdge(r) \/ ReleaseRead(r)
  <2>1. Relying' = Relying
    BY <1>5 DEF EngageEdge, assertTenantLabel, DisengageEdge, ReleaseRead, Relying,
                EngagementInv, EngagementTypeOK
  <2> QED BY <1>1, <1>5, <2>1 DEF EngageEdge, assertTenantLabel, DisengageEdge, ReleaseRead
<1>6. CASE ReleaseClaim(r)
  <2>1. Relying' = Relying BY <1>6 DEF ReleaseClaim, Relying, EngagementInv, EngagementTypeOK
  <2>2. CASE r \in uidCurrent BY <1>6, <2>1, <2>2, EndRefines DEF ReleaseClaim, Free
  <2>3. CASE r \notin uidCurrent BY <1>1, <1>6, <2>1, <2>3 DEF ReleaseClaim
  <2> QED BY <2>2, <2>3
<1> QED BY <1>2, <1>3, <1>4, <1>5, <1>6 DEF PassStep, ClaimWrite

LEMMA NextRefines ==
    ASSUME EngagementInv, [EngagementNext]_engagementVars
    PROVE  [Claims!Next]_WorkVars
<1> USE DEF InPass, Goes, WithoutSetback, Setback, storeVars, claimVars
<1>1. ASSUME Relying' = Relying, UNCHANGED <<edgeLease, unclaimed>>
      PROVE  UNCHANGED WorkVars
  BY <1>1 DEF WorkVars, Claimant, Lapsed
<1>2. CASE UNCHANGED engagementVars
  BY <1>1, <1>2 DEF engagementVars, Relying
<1>3. ASSUME NEW r \in Syncers, LabelFails(r) \/ SyncerDies(r) PROVE [Claims!Next]_WorkVars
  <2>1. Relying' = Relying \ {r} /\ unclaimed' = unclaimed \ {r} /\ UNCHANGED edgeLease
    BY <1>3 DEF LabelFails, SyncerDies, Relying, EngagementInv, EngagementTypeOK
  <2> QED BY <2>1, LettingGo
<1>4. ASSUME NEW r \in Syncers, PassFails(r) PROVE [Claims!Next]_WorkVars
  <2>1. Relying' \in {Relying, Relying \ {r}} /\ UNCHANGED <<unclaimed, edgeLease>>
    BY <1>4 DEF PassFails, Relying, EngagementInv, EngagementTypeOK
  <2> QED BY <1>1, <2>1, LettingGo
<1>5. ASSUME NEW r \in Syncers, EngineMarks(r) \/ SyncerRestarts(r) PROVE [Claims!Next]_WorkVars
  <2>1. Relying' = Relying /\ UNCHANGED <<unclaimed, edgeLease>>
    BY <1>5 DEF EngineMarks, SyncerRestarts, Relying, EngagementInv, EngagementTypeOK
  <2> QED BY <1>1, <2>1
<1>6. CASE EdgeFlips BY <1>1, <1>6 DEF EdgeFlips, Relying
<1>7. CASE ClaimRunsOut
  <2>1. Relying' = Relying /\ ~edgeLease'.fresh
    BY <1>7 DEF ClaimRunsOut, Relying, EngagementInv, EngagementTypeOK
  <2> QED BY <1>7, <2>1, EndRefines DEF ClaimRunsOut
<1> QED
  BY <1>2, <1>3, <1>4, <1>5, <1>6, <1>7, PassRefines DEF EngagementNext

(* The get and the write of tryAcquire, with renewals, releases, expiries  *)
(* and crashes in between, amount to one step that takes a claim nobody    *)
(* has: no replica loses a claim that it still keeps fresh.                *)
THEOREM EngagementIsLeasedWork == EngagementSpec => ImplementsLeasedWork
<1>1. EngagementInit => Claims!Init
  BY DEF EngagementInit, Claims!Init, Relying, Free
<1> QED
  BY <1>1, InitEngagement, NextEngagement, NextRefines, PTL
  DEF EngagementSpec, ImplementsLeasedWork, Claims!Spec, Claims!vars, WorkVars, Claimant, Lapsed

(* What follows for any work under such a claim: one replica at most syncs *)
(* the edge, or is about to, that has not lost its claim while it did.     *)
THEOREM OneSyncsUnderClaim == EngagementSpec => []Claims!Exclusive
<1> USE EngagementAssumption DEF Claims!Exclusive
<1>1. Claims!Init => Claims!Exclusive BY DEF Claims!Init
<1>2. Claims!Exclusive /\ [Claims!Next]_(Claims!vars) => Claims!Exclusive'
  BY DEF Claims!Next, Claims!Take, Claims!Renew, Claims!Stop, Claims!Lapse, Claims!vars
<1> QED
  BY <1>1, <1>2, EngagementIsLeasedWork, PTL DEF ImplementsLeasedWork, Claims!Spec

-----------------------------------------------------------------------------
(* EdgeStatus.  The retry loop of markEdgeConnected gets at most Steps     *)
(* tries: it goes back to the get only with one left, and starts afresh    *)
(* for each tunnel.                                                        *)
TriesLeft ==
    \A t \in Conns :
        /\ marking[t] = "get" => attempts[t] < MaxAttempts
        /\ marking[t] = "none" => attempts[t] = 0
        /\ conn[t] = "idle" => marking[t] = "none"

StatusInv == TypeOK /\ TriesLeft

LEMMA ConnTypes ==
    /\ MaxConns \in Nat /\ MaxAttempts \in Nat \ {0} /\ MaxCrashes \in Nat
    /\ Conns \subseteq Updaters /\ NoConn \notin Conns /\ LifecycleCtl \in Updaters
  BY StatusAssumption DEF Conns, Updaters, NoConn, LifecycleCtl

LEMMA InitStatus == Init => StatusInv
<1> SUFFICES ASSUME Init PROVE StatusInv OBVIOUS
<1>1. edge \in Edges BY DEF Init, Edges, NewEdge
<1>2. 0 \in 0..MaxAttempts /\ 0 \in 0..MaxCrashes BY ConnTypes
<1>3. TypeOK BY <1>1, <1>2, ConnTypes DEF Init, TypeOK
<1>4. TriesLeft BY DEF Init, TriesLeft
<1> QED BY <1>3, <1>4 DEF StatusInv

(* Steps of the retry loop, and the ends of a tunnel.                      *)
LEMMA HandlerKeepsStatus ==
    ASSUME StatusInv, NEW t \in Conns, Connect(t) \/ HandlerStep(t) PROVE StatusInv'
<1> USE ConnTypes DEF StatusInv
<1>1. CASE Connect(t)
  <2>1. TypeOK' BY <1>1 DEF Connect, objVars, TypeOK
  <2>2. TriesLeft' BY <1>1 DEF Connect, TypeOK, TriesLeft
  <2> QED BY <2>1, <2>2
<1>2. CASE MarkGet(t)
  <2>1. attempts[t] \in 0..MaxAttempts /\ attempts[t] < MaxAttempts
    BY <1>2 DEF MarkGet, TypeOK, TriesLeft
  <2>2. attempts[t] + 1 \in 0..MaxAttempts BY <2>1
  <2>3. attempts' \in [Conns -> 0..MaxAttempts] BY <1>2, <2>2 DEF MarkGet, TypeOK
  <2>4. TypeOK' BY <1>2, <2>3 DEF MarkGet, ReadEdge, TypeOK, agentVars, reportVars
  <2>5. TriesLeft' BY <1>2 DEF MarkGet, TypeOK, TriesLeft
  <2> QED BY <2>4, <2>5
<1>3. CASE MarkUpdate(t)
  <2>1. edge' \in Edges /\ heartbeat' = heartbeat /\ rvCurrent' \subseteq Updaters
    BY <1>3 DEF MarkUpdate, UpdateEdge, Conflict, objVars, TypeOK, Edges
  <2>2. marking' \in [Conns -> {"none", "get", "update"}] /\ attempts' \in [Conns -> 0..MaxAttempts]
    BY <1>3 DEF MarkUpdate, MarkReturn, TypeOK
  <2>3. TypeOK' BY <1>3, <2>1, <2>2 DEF MarkUpdate, TypeOK, agentVars, reportVars
  <2>4. TriesLeft' BY <1>3 DEF MarkUpdate, MarkReturn, TypeOK, TriesLeft
  <2> QED BY <2>3, <2>4
<1>4. CASE MarkDisconnected(t)
  <2>1. edge' \in Edges /\ rvCurrent' = {}
    BY <1>4 DEF MarkDisconnected, PatchEdge, TypeOK, Edges
  <2> QED
    BY <1>4, <2>1 DEF MarkDisconnected, TypeOK, TriesLeft, agentVars, reportVars
<1>5. CASE StampHeartbeat(t)
  <2>1. edge' \in Edges /\ rvCurrent' = {} BY <1>5 DEF StampHeartbeat, PatchEdge, TypeOK
  <2> QED
    BY <1>5, <2>1 DEF StampHeartbeat, TypeOK, TriesLeft, hubVars, handlerVars, agentVars,
       reportVars
<1>6. CASE HandlerClose(t)
  BY <1>6 DEF HandlerClose, TypeOK, TriesLeft, objVars, agentVars, reportVars
<1> QED BY <1>1, <1>2, <1>3, <1>4, <1>5, <1>6 DEF HandlerStep

(* The reconciler, the agent, its reporter, and time.                      *)
LEMMA OthersKeepStatus ==
    ASSUME StatusInv,
           OtherWrite \/ LifecycleStep \/ HeartbeatAges \/ Crash \/ AgentStep \/ ReporterStep
    PROVE  StatusInv'
<1> USE ConnTypes DEF StatusInv, hubVars, handlerVars, agentVars, reportVars, objVars
<1>1. CASE OtherWrite \/ HeartbeatAges
  <2>1. TypeOK' BY <1>1 DEF OtherWrite, HeartbeatAges, PatchEdge, TypeOK
  <2>2. TriesLeft' BY <1>1 DEF OtherWrite, HeartbeatAges, PatchEdge, TriesLeft
  <2> QED BY <2>1, <2>2
<1>2. CASE LifecycleStep
  <2>1. /\ edge' \in Edges /\ heartbeat' = heartbeat /\ rvCurrent' \subseteq Updaters
        /\ lifecycle' \in {"idle", "disconnect", "phase"}
        /\ UNCHANGED <<handlerVars, crashes, agentVars, reportVars>>
    BY <1>2 DEF LifecycleStep, LifecycleRead, LifecycleWrite, ReadEdge, UpdateEdge, Conflict,
       LifecycleTarget, TypeOK, Edges
  <2>2. TypeOK' BY <2>1 DEF TypeOK
  <2>3. TriesLeft' BY <2>1 DEF TriesLeft
  <2> QED BY <2>2, <2>3
<1>3. CASE Crash
  <2>1. crashes' \in 0..MaxCrashes BY <1>3 DEF Crash, TypeOK
  <2>2. TypeOK' BY <1>3, <2>1 DEF Crash, TypeOK
  <2>3. TriesLeft' BY <1>3 DEF Crash, TriesLeft
  <2> QED BY <2>2, <2>3
<1>4. CASE AgentStep
  <2>1. CASE AgentLose
    <3>1. TypeOK' BY <2>1 DEF AgentLose, TypeOK
    <3>2. TriesLeft' BY <2>1 DEF AgentLose, TypeOK, TriesLeft
    <3> QED BY <3>1, <3>2
  <2>2. CASE AgentDie
    <3>1. TypeOK' BY <2>2 DEF AgentDie, TypeOK
    <3>2. TriesLeft' BY <2>2 DEF AgentDie, TypeOK, TriesLeft
    <3> QED BY <3>1, <3>2
  <2>3. CASE AgentStart
    <3>1. TypeOK' BY <2>3 DEF AgentStart, TypeOK
    <3>2. TriesLeft' BY <2>3 DEF AgentStart, TypeOK, TriesLeft
    <3> QED BY <3>1, <3>2
  <2> QED BY <1>4, <2>1, <2>2, <2>3 DEF AgentStep
<1>5. CASE ReporterStep
  <2>1. /\ edge' \in Edges /\ heartbeat' \in {"none", "fresh", "stale"}
        /\ rvCurrent' \subseteq Updaters
        /\ stateChan' \in {"empty", "up", "down"} /\ tunnelConnected' \in BOOLEAN
        /\ report' \in {"idle", "up", "down"} /\ UNCHANGED <<hubVars, agentVars>>
    <3>1. CASE ReportState BY <1>5, <3>1 DEF ReportState, TypeOK
    <3>2. CASE ReportTick BY <3>2 DEF ReportTick, UpDown, TypeOK
    <3>3. CASE ReportLand BY <3>3 DEF ReportLand, PatchEdge, TypeOK, Edges
    <3>4. CASE ReportFail BY <3>4 DEF ReportFail, TypeOK
    <3> QED BY <1>5, <3>1, <3>2, <3>3, <3>4 DEF ReporterStep
  <2>2. TypeOK' BY <2>1 DEF TypeOK
  <2>3. TriesLeft' BY <2>1 DEF TriesLeft
  <2> QED BY <2>2, <2>3
<1> QED BY <1>1, <1>2, <1>3, <1>4, <1>5

(* Types; a tunnel ConnManager offers is open, and markEdgeConnected never *)
(* tries more often than DefaultRetry lets it.                             *)
THEOREM StatusTypeCorrect == Spec => []TypeOK
<1>1. StatusInv => TypeOK BY DEF StatusInv
<1>2. ASSUME StatusInv, [Next]_vars PROVE StatusInv'
  <2>1. CASE UNCHANGED vars
    <3> USE DEF vars, hubVars, handlerVars, agentVars, reportVars, objVars
    <3>1. TypeOK' BY <1>2, <2>1 DEF StatusInv, TypeOK
    <3>2. TriesLeft' BY <1>2, <2>1 DEF StatusInv, TriesLeft
    <3> QED BY <3>1, <3>2 DEF StatusInv
  <2> QED BY <1>2, <2>1, HandlerKeepsStatus, OthersKeepStatus DEF Next
<1> QED BY <1>1, <1>2, InitStatus, PTL DEF Spec

-----------------------------------------------------------------------------
(* The product of the two. *)

mcVars == <<focus, vars, engagementVars>>

LEMMA ProductStep ==
    ASSUME [MCNext]_mcVars PROVE [Next]_vars /\ [EngagementNext]_engagementVars
  BY DEF MCNext, mcVars

(* What TLC sees of the status of an edge, or of its engagement, in the    *)
(* product is a behaviour of that component alone.                         *)
THEOREM ProductProjects == MCSpec => Spec /\ EngagementSpec
<1>1. MCInit => Init /\ EngagementInit BY DEF MCInit
<1> QED BY <1>1, ProductStep, PTL DEF MCSpec, mcVars, Spec, EngagementSpec

(* The type invariants of both hold together.                              *)
THEOREM ProductTypesOK == MCSpec => []TypesOK
<1>1. TypeOK /\ EngagementTypeOK => TypesOK BY DEF TypesOK
<1> QED BY <1>1, ProductProjects, StatusTypeCorrect, EngagementTypeCorrect, PTL
==============================================================================
