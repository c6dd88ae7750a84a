---------------------------- MODULE EdgeEngagement ----------------------------
(***************************************************************************)
(* providers/kuery: which replica syncs an edge into kuery's store.  Every *)
(* replica reconciles every edge; one Lease per edge (claims.go) is to     *)
(* leave it to one of them.  Edges share nothing, so one is modelled.      *)
(*                                                                         *)
(* A pass of a replica reads the edge, claims it with a get and a write,   *)
(* and engages or drops it.  Watch events and requeues start a pass again  *)
(* and again.  readCurrent and uidCurrent are the replicas whose read of the *)
(* Lease is still its last version, and still the same object.             *)
(***************************************************************************)
EXTENDS Naturals, FiniteSets

CONSTANTS
    Syncers,      \* replicas of the kuery provider
    NoSyncer,     \* holder of no Lease
    MaxFlips,     \* times the edge connects or disconnects
    MaxSetbacks   \* crashes, stalls and failed requests

ASSUME EngagementAssumption ==
    /\ NoSyncer \notin Syncers
    /\ MaxFlips \in Nat /\ MaxSetbacks \in Nat

VARIABLES
    connected,    \* status.connected of the edge
    edgeLease,    \* its Lease: holder, and whether renewed within claimTTL
    readCurrent, uidCurrent,
    pass,         \* pass[r]: where the pass of r is
    dropping,     \* the replicas that will release their claim (releaseClaim)
    syncing,      \* the replicas whose cluster runs in the sync controller
    ending,       \* contexts that ended and whose rows the engine will mark
    row,          \* kuery's cluster row, as tenants see it
    up,           \* the replicas that run
    unclaimed,    \* history: the replicas whose claim ended under them
    flips, setbacks

claimVars == <<edgeLease, readCurrent, uidCurrent, unclaimed>>
storeVars == <<syncing, ending, row>>
engagementVars == <<connected, claimVars, storeVars, pass, dropping, up, flips, setbacks>>

Places == {"idle", "get", "create", "renew", "takeover", "engage", "label", "assert",
           "disengage", "release", "delete"}
Free == [holder |-> NoSyncer, fresh |-> FALSE]

(* Types, and: what a replica syncs, or is about to release, it runs.      *)
EngagementTypeOK ==
    /\ connected \in BOOLEAN
    /\ edgeLease \in [holder : Syncers \cup {NoSyncer}, fresh : BOOLEAN]
    /\ pass \in [Syncers -> Places]
    /\ readCurrent \cup uidCurrent \cup dropping \cup syncing \cup ending \cup unclaimed \subseteq up
    /\ up \subseteq Syncers
    /\ row \in {"absent", "unlabelled", "active", "stale"}
    /\ flips \in 0..MaxFlips /\ setbacks \in 0..MaxSetbacks
    /\ \A r \in Syncers :
          /\ r \notin up => pass[r] = "idle"
          /\ pass[r] \in {"label", "assert"} => r \in syncing
          /\ pass[r] \in {"disengage", "release", "delete"} => r \notin syncing

EngagementInit ==
    /\ connected \in BOOLEAN
    /\ edgeLease = Free /\ readCurrent = {} /\ uidCurrent = {} /\ unclaimed = {}
    /\ pass = [r \in Syncers |-> "idle"] /\ dropping = {}
    /\ syncing = {} /\ ending = {} /\ row = "absent"
    /\ up = Syncers /\ flips = 0 /\ setbacks = 0

Setback == setbacks < MaxSetbacks /\ setbacks' = setbacks + 1
WithoutSetback == UNCHANGED setbacks
Goes(r, place) == pass' = [pass EXCEPT ![r] = place]
InPass(r, place) == r \in up /\ pass[r] = place
Relying == syncing \cup {r \in up : pass[r] = "engage"}

-----------------------------------------------------------------------------
(* dropLocal: without an entry nothing happens, and no claim is released.  *)
dropLocalKeepsEntry(r, releaseClaim) ==
    IF r \in syncing
    THEN /\ ending' = ending \cup {r} /\ UNCHANGED <<syncing, row>>
         /\ unclaimed' = unclaimed \ {r}
         /\ dropping' = IF releaseClaim THEN dropping \cup {r} ELSE dropping
         /\ Goes(r, "disengage")
    ELSE UNCHANGED <<storeVars, unclaimed, dropping>> /\ Goes(r, "idle")
dropLocal(r, releaseClaim) ==
    IF r \in syncing
    THEN /\ syncing' = syncing \ {r} /\ ending' = ending \cup {r} /\ UNCHANGED row
         /\ unclaimed' = unclaimed \ {r}
         /\ dropping' = IF releaseClaim THEN dropping \cup {r} ELSE dropping
         /\ Goes(r, "disengage")
    ELSE UNCHANGED <<storeVars, unclaimed, dropping>> /\ Goes(r, "idle")

ReadEdgeState(r) ==
    /\ InPass(r, "idle")
    /\ \/ connected /\ Goes(r, "get") /\ UNCHANGED <<storeVars, unclaimed, dropping>>
       \/ ~connected /\ r \in syncing /\ dropLocal(r, TRUE)
    /\ WithoutSetback /\ UNCHANGED <<connected, edgeLease, readCurrent, uidCurrent, up, flips>>

(* tryAcquire: the read.  A fresh claim of a peer is respected.            *)
ClaimGetAnyAge(r) ==
    /\ InPass(r, "get")
    /\ readCurrent' = readCurrent \cup {r}
    /\ Goes(r, CASE edgeLease = Free -> "create"
                 [] edgeLease.holder = r -> "renew"
                 [] OTHER -> "takeover")
    /\ UNCHANGED <<storeVars, unclaimed, dropping>>
    /\ WithoutSetback /\ UNCHANGED <<connected, edgeLease, uidCurrent, up, flips>>
ClaimGet(r) ==
    /\ InPass(r, "get")
    /\ \/ edgeLease.holder \notin {NoSyncer, r} /\ edgeLease.fresh
          /\ dropLocal(r, FALSE) /\ UNCHANGED readCurrent
       \/ /\ edgeLease.holder \in {NoSyncer, r} \/ ~edgeLease.fresh
          /\ readCurrent' = readCurrent \cup {r}
          /\ Goes(r, CASE edgeLease.holder = NoSyncer -> "create"
                       [] edgeLease.holder = r -> "renew"
                       [] OTHER -> "takeover")
          /\ UNCHANGED <<storeVars, unclaimed, dropping>>
    /\ WithoutSetback /\ UNCHANGED <<connected, edgeLease, uidCurrent, up, flips>>

(* tryAcquire: the write.  AlreadyExists and Conflict say "not held"; any  *)
(* other error, a Lease that is gone by now included, ends the pass and    *)
(* leaves the edge engaged.                                                *)
ClaimHeldBlind(r) ==
    /\ IF pass[r] = "create" THEN edgeLease = Free ELSE edgeLease # Free
    /\ edgeLease' = [holder |-> r, fresh |-> TRUE] /\ readCurrent' = {}
    /\ unclaimed' = unclaimed \ {r}
    /\ Goes(r, "engage") /\ UNCHANGED <<storeVars, dropping>>
ClaimHeld(r) ==
    /\ IF pass[r] = "create" THEN edgeLease = Free ELSE edgeLease # Free /\ r \in readCurrent
    /\ edgeLease' = [holder |-> r, fresh |-> TRUE] /\ readCurrent' = {}
    /\ unclaimed' = unclaimed \ {r}
    /\ Goes(r, "engage") /\ UNCHANGED <<storeVars, dropping>>
ClaimNotHeld(r) ==
    /\ edgeLease # Free
    /\ pass[r] = "create" \/ r \notin readCurrent
    /\ dropLocal(r, FALSE) /\ readCurrent' = readCurrent \ {r} /\ UNCHANGED edgeLease
ClaimGone(r) ==
    /\ edgeLease = Free /\ pass[r] # "create"
    /\ readCurrent' = readCurrent \ {r} /\ Goes(r, "idle")
    /\ UNCHANGED <<edgeLease, unclaimed, storeVars, dropping>>

ClaimWrite(r) ==
    /\ \E place \in {"create", "renew", "takeover"} : InPass(r, place)
    /\ ClaimHeld(r) \/ ClaimNotHeld(r) \/ ClaimGone(r)
    /\ WithoutSetback /\ UNCHANGED <<connected, uidCurrent, up, flips>>

(* engage: kuery's Engage upserts the row without labels.                  *)
EngageEdge(r) ==
    /\ InPass(r, "engage")
    /\ IF r \in syncing
       THEN Goes(r, "assert") /\ UNCHANGED <<syncing, row>>
       ELSE Goes(r, "label") /\ syncing' = syncing \cup {r} /\ row' = "unlabelled"
    /\ WithoutSetback
    /\ UNCHANGED <<connected, claimVars, ending, dropping, up, flips>>

assertNewLabel(r) ==
    /\ InPass(r, "label") \/ InPass(r, "assert")
    /\ row' = IF pass[r] = "label" THEN "active" ELSE row
    /\ Goes(r, IF pass[r] = "label" THEN "assert" ELSE "idle")
    /\ WithoutSetback
    /\ UNCHANGED <<connected, claimVars, syncing, ending, dropping, up, flips>>
assertTenantLabel(r) ==
    /\ InPass(r, "label") \/ InPass(r, "assert")
    /\ row' = "active"
    /\ Goes(r, IF pass[r] = "label" THEN "assert" ELSE "idle")
    /\ WithoutSetback
    /\ UNCHANGED <<connected, claimVars, syncing, ending, dropping, up, flips>>

LabelFails(r) ==
    /\ InPass(r, "label") /\ Setback
    /\ syncing' = syncing \ {r} /\ ending' = ending \cup {r} /\ row' = "stale"
    /\ unclaimed' = unclaimed \ {r}
    /\ Goes(r, "idle")
    /\ UNCHANGED <<connected, edgeLease, readCurrent, uidCurrent, dropping, up, flips>>

(* dropLocal, from Disengage on.                                           *)
DisengageEdge(r) ==
    /\ InPass(r, "disengage")
    /\ \/ row' = "stale" /\ WithoutSetback
       \/ UNCHANGED row /\ Setback
    /\ Goes(r, IF r \in dropping THEN "release" ELSE "idle")
    /\ dropping' = dropping \ {r}
    /\ UNCHANGED <<connected, claimVars, syncing, ending, up, flips>>

ReleaseRead(r) ==
    /\ InPass(r, "release")
    /\ IF edgeLease.holder = r
       THEN Goes(r, "delete") /\ uidCurrent' = uidCurrent \cup {r}
       ELSE Goes(r, "idle") /\ UNCHANGED uidCurrent
    /\ WithoutSetback
    /\ UNCHANGED <<connected, edgeLease, readCurrent, unclaimed, storeVars, dropping, up, flips>>

(* The delete insists on the UID alone: it also removes the claim of a     *)
(* peer that took the expired Lease over after the read.                   *)
ReleaseClaim(r) ==
    /\ InPass(r, "delete")
    /\ IF r \in uidCurrent
       THEN /\ edgeLease' = Free /\ readCurrent' = {} /\ uidCurrent' = {}
            /\ unclaimed' = unclaimed \cup (Relying \cap {edgeLease.holder})
       ELSE UNCHANGED claimVars
    /\ Goes(r, "idle")
    /\ WithoutSetback /\ UNCHANGED <<connected, storeVars, dropping, up, flips>>

(* Any other request fails: the pass ends, a later one starts anew.        *)
PassFails(r) ==
    /\ r \in up /\ pass[r] \notin {"idle", "label", "disengage"} /\ Setback
    /\ Goes(r, "idle")
    /\ readCurrent' = readCurrent \ {r} /\ uidCurrent' = uidCurrent \ {r}
    /\ UNCHANGED <<connected, edgeLease, unclaimed, storeVars, dropping, up, flips>>

(* kuery's engine marks the row when the context of a cluster ended.       *)
EngineMarks(r) ==
    /\ r \in ending
    /\ ending' = ending \ {r} /\ row' = "stale"
    /\ WithoutSetback /\ UNCHANGED <<connected, claimVars, pass, dropping, syncing, up, flips>>

-----------------------------------------------------------------------------
EdgeFlips ==
    /\ flips < MaxFlips /\ flips' = flips + 1
    /\ connected' = ~connected
    /\ WithoutSetback /\ UNCHANGED <<claimVars, storeVars, pass, dropping, up>>

(* claimTTL without a renewal: the holder died, has no reason to renew, or *)
(* stalls.                                                                 *)
Rests(r) == ~connected /\ r \notin syncing /\ pass[r] = "idle"
ClaimRunsOut ==
    /\ edgeLease # Free /\ edgeLease.fresh
    /\ edgeLease' = [edgeLease EXCEPT !.fresh = FALSE]
    /\ unclaimed' = unclaimed \cup (Relying \cap {edgeLease.holder})
    /\ \/ (edgeLease.holder \notin up \/ Rests(edgeLease.holder)) /\ WithoutSetback
       \/ edgeLease.holder \in up /\ Setback
    /\ UNCHANGED <<connected, readCurrent, uidCurrent, storeVars, pass, dropping, up, flips>>

SyncerDies(r) ==
    /\ r \in up /\ Setback
    /\ up' = up \ {r} /\ Goes(r, "idle")
    /\ readCurrent' = readCurrent \ {r} /\ uidCurrent' = uidCurrent \ {r}
    /\ dropping' = dropping \ {r} /\ syncing' = syncing \ {r} /\ ending' = ending \ {r}
    /\ unclaimed' = unclaimed \ {r}
    /\ UNCHANGED <<connected, edgeLease, row, flips>>

(* The container restarts in its pod, under the same identity.             *)
SyncerRestarts(r) ==
    /\ r \in Syncers \ up /\ up' = up \cup {r}
    /\ WithoutSetback /\ UNCHANGED <<connected, claimVars, storeVars, pass, dropping, flips>>

PassStep(r) ==
    \/ ReadEdgeState(r) \/ ClaimGet(r) \/ ClaimWrite(r) \/ EngageEdge(r) \/ assertTenantLabel(r)
    \/ DisengageEdge(r) \/ ReleaseRead(r) \/ ReleaseClaim(r)

EngagementNext ==
    \/ \E r \in Syncers :
          \/ PassStep(r) \/ LabelFails(r) \/ PassFails(r) \/ EngineMarks(r)
          \/ SyncerDies(r) \/ SyncerRestarts(r)
    \/ EdgeFlips \/ ClaimRunsOut

(* Passes are requeued, contexts that ended are noticed, a claim nobody    *)
(* renews gets old, and a container that died is started again.            *)
EngagementFairness ==
    /\ WF_engagementVars(ClaimRunsOut)
    /\ \A r \in Syncers :
          /\ WF_engagementVars(PassStep(r)) /\ WF_engagementVars(EngineMarks(r))
          /\ WF_engagementVars(SyncerRestarts(r))

EngagementSpec == EngagementInit /\ [][EngagementNext]_engagementVars
EngagementFairSpec == EngagementSpec /\ EngagementFairness

-----------------------------------------------------------------------------
(* "Each connected edge is synced by exactly one replica": whoever syncs   *)
(* it holds its claim, unless the claim ended under it (it stalled for     *)
(* claimTTL, or a late release hit it) and its next pass is still to come. *)
SyncsUnderClaim == \A r \in syncing \ unclaimed : edgeLease.holder = r

(* The claim as LeasedWork has it: whoever renewed it within claimTTL, and *)
(* whoever engaged the edge or is about to.                                *)
Claims == INSTANCE LeasedWork
    WITH Workers <- Syncers, Nobody <- NoSyncer,
         claimant <- IF edgeLease.fresh THEN edgeLease.holder ELSE NoSyncer,
         atWork <- Relying,
         lapsed <- unclaimed \cap Relying

(* tryAcquire, a get and a write with passes of other replicas, renewals,  *)
(* releases and expiries in between, takes a claim as if in one step: work *)
(* starts on a claim nobody had, and a peer's fresh claim is not taken.    *)
ImplementsLeasedWork == Claims!Spec

(* "A dead replica's edges are taken over", and "the stale status          *)
(* Disengage writes lasts at most one of its renew passes": again and      *)
(* again the edge, if connected, is synced by one replica and shown to its *)
(* tenant, and otherwise let go by all.                                    *)
SyncedOnce == Cardinality(syncing) = 1 /\ row = "active"
EngagementSettles ==
    []<>(IF connected THEN SyncedOnce ELSE syncing = {} /\ ~edgeLease.fresh)
=============================================================================
