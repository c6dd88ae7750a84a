----------------------------- MODULE EdgeTunnel -----------------------------
(***************************************************************************)
(* Ownership of ONE edge's reverse tunnel across the replicas of the edges *)
(* provider (providers/edges/internal/tunnel): the agent-ingress handler,  *)
(* the per-process ConnManager, the fleet-wide Registry of kcp Leases and  *)
(* the sweeper that renews them.                                           *)
(*                                                                         *)
(* Every map of the code is keyed by edge and no operation reads two keys, *)
(* so one key is the general case.  A tunnel identifier stands for one     *)
(* accepted control socket, its revdial dialer and the handler goroutine   *)
(* that serves it.                                                         *)
(***************************************************************************)
EXTENDS Naturals, FiniteSets

CONSTANTS
    Replicas,       \* replicas of the provider; an identity is also an address
    Tunnels,        \* control sockets the agent may open, each at most once
    NoReplica,      \* "no replica" (an idle tunnel, a lookup that finds nothing)
    NoTunnel,       \* "no tunnel" (an empty map slot, an unconnected agent)
    NoLease,        \* the Lease object does not exist
    LeaseTTL,       \* registryLeaseTTL in sweep intervals (90s / 30s)
    Readers,        \* replicas that serve user requests (and so look up)
    ApiErrors,      \* may calls to the API server fail?
    CleanReconnect, \* does the agent dial only after the old handler is gone?
    MaxCrashes      \* bound on replica crashes

ASSUME ConstantsAssumption ==
    /\ LeaseTTL \in Nat
    /\ MaxCrashes \in Nat
    /\ Readers \subseteq Replicas
    /\ ApiErrors \in BOOLEAN
    /\ CleanReconnect \in BOOLEAN
    /\ NoReplica \notin Replicas
    /\ NoTunnel \notin Tunnels
    /\ NoLease \notin [holder : Replicas, age : Nat]
    /\ Replicas \cap Tunnels = {}

VARIABLES
    up,         \* set of running replicas
    crashes,    \* how many crashes have happened
    agentConn,  \* the socket the agent believes is its control connection
    closed,     \* sockets whose dialer is closed (Dialer.Done)
    owner,      \* owner[t]: the replica that accepted socket t
    pc,         \* pc[t]: where the handler goroutine of t is
    retried,    \* handlers on the second attempt of upsertLease
    dials,      \* dials[r]: ConnManager.dials[key] of replica r
    lease,      \* the edge's Lease: NoLease or [holder, age]
    rvCurrent,  \* operations whose read resourceVersion is still current
    uidCurrent, \* operations whose read UID is still current
    sweep,      \* sweep[r]: where the sweeper goroutine of r is
    presence,   \* presence[r]: age of r's presence Lease (LeaseTTL+1: stale)
    lookup,     \* lookup[r]: an in-flight LookupTunnel of r
    cache       \* cache[r]: Registry.cache[key] of replica r

agentVars == <<agentConn, closed>>
handlerVars == <<owner, pc, retried>>
leaseVars == <<lease, rvCurrent, uidCurrent>>
readVars == <<lookup, cache>>
vars == <<up, crashes, agentVars, handlerVars, dials, leaseVars, sweep,
          presence, readVars>>

-----------------------------------------------------------------------------
(* States. *)

\* Program points of a handler, in the order the code passes them.
PCs == {"idle", "upgraded", "claim", "create", "update", "claimed", "serving",
        "release", "delete", "released", "finished", "unreleased", "crashed"}

\* Store has put the dialer in the map and Delete has not run yet.
StoredPCs == {"claim", "create", "update", "claimed", "serving"}

\* The handler has ended.
EndPCs == {"finished", "unreleased", "crashed"}

Ages == 0..(LeaseTTL + 1)
Leases == [holder : Replicas, age : Ages]

Fresh(age) == age <= LeaseTTL

Open(t) == pc[t] # "idle" /\ t \notin closed

(* What ConnManager.LoadLocal answers on r, without its eviction. *)
LoadLocal(r) == dials[r] # NoTunnel /\ dials[r] \notin closed

HeldBy(r) == lease # NoLease /\ lease.holder = r

\* Mutant: the renew time of the lease is not looked at.
lookupLiveStale == IF lease # NoLease THEN lease.holder ELSE NoReplica

(* Registry.lookupLive: the holder of a fresh lease, else nothing. *)
lookupLive == IF lease # NoLease /\ Fresh(lease.age) THEN lease.holder ELSE NoReplica

(* ConnManager.HasConnection on r when the lookup cache is cold. *)
HasConnection(r) == LoadLocal(r) \/ lookupLive \notin {NoReplica, r}

TypeOK ==
    /\ up \subseteq Replicas
    /\ crashes \in 0..MaxCrashes
    /\ agentConn \in Tunnels \cup {NoTunnel}
    /\ closed \subseteq Tunnels
    /\ owner \in [Tunnels -> Replicas \cup {NoReplica}]
    /\ pc \in [Tunnels -> PCs]
    /\ retried \subseteq Tunnels
    /\ dials \in [Replicas -> Tunnels \cup {NoTunnel}]
    /\ lease \in Leases \cup {NoLease}
    /\ rvCurrent \subseteq Tunnels \cup Replicas
    /\ uidCurrent \subseteq Tunnels
    /\ sweep \in [Replicas -> {"due", "get", "update", "done"}]
    /\ presence \in [Replicas -> Ages]
    /\ lookup \in [Replicas -> Replicas \cup {NoReplica} \cup {"idle", "miss"}]
    /\ cache \in [Replicas -> Replicas \cup {NoReplica} \cup {"none"}]

Init ==
    /\ up = Replicas
    /\ crashes = 0
    /\ agentConn = NoTunnel
    /\ closed = {}
    /\ owner = [t \in Tunnels |-> NoReplica]
    /\ pc = [t \in Tunnels |-> "idle"]
    /\ retried = {}
    /\ dials = [r \in Replicas |-> NoTunnel]
    /\ lease = NoLease
    /\ rvCurrent = {}
    /\ uidCurrent = {}
    /\ sweep = [r \in Replicas |-> "due"]
    /\ presence = [r \in Replicas |-> LeaseTTL + 1]
    /\ lookup = [r \in Replicas |-> "idle"]
    /\ cache = [r \in Replicas |-> "none"]

-----------------------------------------------------------------------------
(* The API server's view of the Lease.  A resourceVersion or a UID is only *)
(* ever compared with the one an operation read, so it is enough to keep   *)
(* the set of operations whose copy is still current.                      *)

ReadVersion(op) ==
    /\ rvCurrent' = rvCurrent \cup {op}
    /\ UNCHANGED <<lease, uidCurrent>>

ReadUID(op) ==
    /\ uidCurrent' = uidCurrent \cup {op}
    /\ UNCHANGED <<lease, rvCurrent>>

\* Mutant: the holder identity is left out of the written object.
WriteLeaseNoHolder(r) ==
    /\ lease' = [holder |-> NoReplica, age |-> 0]
    /\ rvCurrent' = {}
    /\ UNCHANGED uidCurrent

WriteLease(r) ==
    /\ lease' = [holder |-> r, age |-> 0]
    /\ rvCurrent' = {}
    /\ UNCHANGED uidCurrent

DeleteLease ==
    /\ lease' = NoLease
    /\ rvCurrent' = {}
    /\ uidCurrent' = {}

Goto(t, label) == pc' = [pc EXCEPT ![t] = label]

-----------------------------------------------------------------------------
(* The agent and the network. *)

(* The agent's reconnect loop dials, the Service picks replica r, the      *)
(* handler authenticates and upgrades the socket and builds the dialer.    *)
Connect(t, r) ==
    /\ pc[t] = "idle" /\ agentConn = NoTunnel /\ r \in up
    /\ CleanReconnect => \A s \in Tunnels : pc[s] \in EndPCs \cup {"idle"}
    /\ agentConn' = t
    /\ owner' = [owner EXCEPT ![t] = r]
    /\ Goto(t, "upgraded")
    /\ UNCHANGED <<up, crashes, closed, retried, dials, leaseVars, sweep,
                   presence, readVars>>

(* The agent's end of its control connection fails or the agent stops. *)
AgentLose ==
    /\ agentConn # NoTunnel
    /\ agentConn' = NoTunnel
    /\ UNCHANGED <<up, crashes, closed, handlerVars, dials, leaseVars, sweep,
                   presence, readVars>>

CloseDialer(t) ==
    /\ Open(t)
    /\ closed' = closed \cup {t}
    /\ UNCHANGED <<up, crashes, agentConn, handlerVars, dials, leaseVars,
                   sweep, presence, readVars>>

(* The server's end fails while the agent still believes in the socket. *)
ConnBreak(t) == agentConn = t /\ CloseDialer(t)

(* The read deadline (or EOF) ends a dialer whose agent is gone. *)
DialerTimeout(t) == agentConn # t /\ CloseDialer(t)

-----------------------------------------------------------------------------
(* The agent-ingress handler and ConnManager.Store / Delete. *)

(* Store: the map entry is replaced under the mutex, whatever it held. *)
StoreLocal(t) ==
    /\ pc[t] = "upgraded"
    /\ dials' = [dials EXCEPT ![owner[t]] = t]
    /\ Goto(t, "claim")
    /\ UNCHANGED <<up, crashes, agentVars, owner, retried, leaseVars, sweep,
                   presence, readVars>>

\* Mutant: an existing lease is taken for a claim already made.
ClaimGetKeepsExisting(t) ==
    /\ pc[t] = "claim"
    /\ Goto(t, IF lease = NoLease THEN "create" ELSE "claimed")
    /\ UNCHANGED <<up, crashes, agentVars, owner, retried, dials, leaseVars,
                   sweep, presence, readVars>>

(* ClaimTunnel -> upsertLease, the read of one attempt. *)
ClaimGet(t) ==
    /\ pc[t] = "claim"
    /\ \/ /\ lease = NoLease
          /\ Goto(t, "create")
          /\ UNCHANGED leaseVars
       \/ /\ lease # NoLease
          /\ Goto(t, "update")
          /\ ReadVersion(t)
    /\ UNCHANGED <<up, crashes, agentVars, owner, retried, dials, sweep,
                   presence, readVars>>

(* Create succeeds when nothing is there, Update when nothing was written  *)
(* since the read.                                                         *)
CanWrite(t) ==
    \/ pc[t] = "create" /\ lease = NoLease
    \/ pc[t] = "update" /\ t \in rvCurrent

ClaimWrite(t) ==
    /\ CanWrite(t)
    /\ WriteLease(owner[t])
    /\ Goto(t, "claimed")
    /\ UNCHANGED <<up, crashes, agentVars, owner, retried, dials, sweep,
                   presence, readVars>>

(* AlreadyExists or Conflict: one more attempt, then ClaimTunnel fails.    *)
(* Store only logs the error, so both ways the handler goes on.            *)
ClaimConflict(t) ==
    /\ pc[t] \in {"create", "update"} /\ ~CanWrite(t)
    /\ retried' = retried \cup {t}
    /\ Goto(t, IF t \in retried THEN "claimed" ELSE "claim")
    /\ UNCHANGED <<up, crashes, agentVars, owner, dials, leaseVars, sweep,
                   presence, readVars>>

(* Any other error (a timeout too, whose write may have been applied).     *)
ClaimError(t) ==
    /\ ApiErrors
    /\ \/ pc[t] \in {"claim", "create", "update"} /\ UNCHANGED leaseVars
       \/ CanWrite(t) /\ WriteLease(owner[t])
    /\ Goto(t, "claimed")
    /\ UNCHANGED <<up, crashes, agentVars, owner, retried, dials, sweep,
                   presence, readVars>>

(* The invalidate that ends ClaimTunnel. *)
ClaimInvalidate(t) ==
    /\ pc[t] = "claimed"
    /\ cache' = [cache EXCEPT ![owner[t]] = "none"]
    /\ Goto(t, "serving")
    /\ UNCHANGED <<up, crashes, agentVars, owner, retried, dials, leaseVars,
                   sweep, presence, lookup>>

\* Mutant: Delete only releases the claim, the entry is left to the sweeper.
DeleteLocalForgotten(t) ==
    /\ pc[t] = "serving" /\ t \in closed
    /\ Goto(t, "release")
    /\ UNCHANGED <<up, crashes, agentVars, owner, retried, dials, leaseVars,
                   sweep, presence, readVars>>

(* <-dialer.Done() returns and Delete empties the slot of the key, whoever *)
(* is in it.                                                               *)
DeleteLocal(t) ==
    /\ pc[t] = "serving" /\ t \in closed
    /\ dials' = [dials EXCEPT ![owner[t]] = NoTunnel]
    /\ Goto(t, "release")
    /\ UNCHANGED <<up, crashes, agentVars, owner, retried, leaseVars, sweep,
                   presence, readVars>>

\* Mutant: an expired claim is taken for a released one.
ReleaseGetFreshOnly(t) ==
    /\ pc[t] = "release"
    /\ \/ /\ lookupLive # owner[t]
          /\ Goto(t, "finished")
          /\ UNCHANGED leaseVars
       \/ /\ lookupLive = owner[t]
          /\ Goto(t, "delete")
          /\ ReadUID(t)
    /\ UNCHANGED <<up, crashes, agentVars, owner, retried, dials, sweep,
                   presence, readVars>>

(* ReleaseTunnel: read the lease; nothing to do unless this replica holds it. *)
ReleaseGet(t) ==
    /\ pc[t] = "release"
    /\ \/ /\ ~HeldBy(owner[t])
          /\ Goto(t, "finished")
          /\ UNCHANGED leaseVars
       \/ /\ HeldBy(owner[t])
          /\ Goto(t, "delete")
          /\ ReadUID(t)
    /\ UNCHANGED <<up, crashes, agentVars, owner, retried, dials, sweep,
                   presence, readVars>>

(* Delete with the UID, and only the UID, of the read object.              *)
ReleaseDelete(t) ==
    /\ pc[t] = "delete"
    /\ IF t \in uidCurrent THEN DeleteLease ELSE UNCHANGED leaseVars
    /\ Goto(t, "released")
    /\ UNCHANGED <<up, crashes, agentVars, owner, retried, dials, sweep,
                   presence, readVars>>

(* A failed read returns at once, a failed delete is ignored: the claim    *)
(* stays until it expires.                                                 *)
ReleaseError(t) ==
    /\ ApiErrors
    /\ pc[t] \in {"release", "delete"}
    /\ Goto(t, "unreleased")
    /\ cache' = IF pc[t] = "delete" THEN [cache EXCEPT ![owner[t]] = "none"] ELSE cache
    /\ UNCHANGED <<up, crashes, agentVars, owner, retried, dials, leaseVars,
                   sweep, presence, lookup>>

ReleaseInvalidate(t) ==
    /\ pc[t] = "released"
    /\ cache' = [cache EXCEPT ![owner[t]] = "none"]
    /\ Goto(t, "finished")
    /\ UNCHANGED <<up, crashes, agentVars, owner, retried, dials, leaseVars,
                   sweep, presence, lookup>>

-----------------------------------------------------------------------------
(* The sweeper: one round per sweep interval and replica. *)

(* sweepClosed, LocalKeys and the upsert of the replica's own presence     *)
(* Lease, which no other process writes.                                   *)
SweepStart(r) ==
    /\ r \in up /\ sweep[r] = "due"
    /\ dials' = [dials EXCEPT ![r] = IF LoadLocal(r) THEN @ ELSE NoTunnel]
    /\ sweep' = [sweep EXCEPT ![r] = IF LoadLocal(r) THEN "get" ELSE "done"]
    /\ \/ presence' = [presence EXCEPT ![r] = 0]
       \/ ApiErrors /\ UNCHANGED presence
    /\ UNCHANGED <<up, crashes, agentVars, handlerVars, leaseVars, readVars>>

(* RenewOwned reads the lease; a missing or a foreign one is left alone.   *)
RenewGet(r) ==
    /\ r \in up /\ sweep[r] = "get"
    /\ IF HeldBy(r)
       THEN /\ ReadVersion(r)
            /\ sweep' = [sweep EXCEPT ![r] = "update"]
       ELSE /\ UNCHANGED leaseVars
            /\ sweep' = [sweep EXCEPT ![r] = "done"]
    /\ UNCHANGED <<up, crashes, agentVars, handlerVars, dials, presence, readVars>>

\* Mutant: the renewal is a patch without the read resourceVersion.
RenewUpdateBlind(r) ==
    /\ r \in up /\ sweep[r] = "update"
    /\ IF lease # NoLease THEN WriteLease(r) ELSE UNCHANGED leaseVars
    /\ sweep' = [sweep EXCEPT ![r] = "done"]
    /\ UNCHANGED <<up, crashes, agentVars, handlerVars, dials, presence, readVars>>

\* Mutant: the update is sent without a new renew time.
RenewUpdateNoStamp(r) ==
    /\ r \in up /\ sweep[r] = "update"
    /\ sweep' = [sweep EXCEPT ![r] = "done"]
    /\ UNCHANGED <<up, crashes, agentVars, handlerVars, dials, leaseVars,
                   presence, readVars>>

(* The update carries the read holder; a conflict is ignored.              *)
RenewUpdate(r) ==
    /\ r \in up /\ sweep[r] = "update"
    /\ IF r \in rvCurrent THEN WriteLease(r) ELSE UNCHANGED leaseVars
    /\ sweep' = [sweep EXCEPT ![r] = "done"]
    /\ UNCHANGED <<up, crashes, agentVars, handlerVars, dials, presence, readVars>>

RenewError(r) ==
    /\ ApiErrors
    /\ r \in up /\ sweep[r] \in {"get", "update"}
    /\ sweep' = [sweep EXCEPT ![r] = "done"]
    /\ UNCHANGED <<up, crashes, agentVars, handlerVars, dials, leaseVars,
                   presence, readVars>>

(* One sweep interval passes: every running replica has swept (a round is  *)
(* cut off by registryWriteTimeout, a third of the interval).              *)
Older(age) == IF Fresh(age) THEN age + 1 ELSE age

Tick ==
    /\ \A r \in up : sweep[r] = "done"
    /\ sweep' = [r \in Replicas |-> "due"]
    /\ presence' = [r \in Replicas |-> Older(presence[r])]
    /\ lease' = IF lease = NoLease THEN NoLease
                ELSE [holder |-> lease.holder, age |-> Older(lease.age)]
    /\ UNCHANGED <<up, crashes, agentVars, handlerVars, dials, rvCurrent,
                   uidCurrent, readVars>>

-----------------------------------------------------------------------------
(* Load on a replica that serves a user request. *)

(* LoadLocal misses, evicting a closed entry on the way. *)
LoadMiss(r) ==
    /\ r \in Readers \cap up /\ lookup[r] = "idle" /\ ~LoadLocal(r)
    /\ dials' = [dials EXCEPT ![r] = NoTunnel]
    /\ lookup' = [lookup EXCEPT ![r] = IF cache[r] = "none" THEN "miss" ELSE "idle"]
    /\ UNCHANGED <<up, crashes, agentVars, handlerVars, leaseVars, sweep,
                   presence, cache>>

(* LookupTunnel reads the lease ... *)
LookupGet(r) ==
    /\ r \in up /\ lookup[r] = "miss"
    /\ \/ lookup' = [lookup EXCEPT ![r] = lookupLive]
       \/ ApiErrors /\ lookup' = [lookup EXCEPT ![r] = NoReplica]
    /\ UNCHANGED <<up, crashes, agentVars, handlerVars, dials, leaseVars,
                   sweep, presence, cache>>

(* ... and stores what it read, whatever happened in between. *)
LookupStore(r) ==
    /\ r \in up /\ lookup[r] \notin {"idle", "miss"}
    /\ cache' = [cache EXCEPT ![r] = lookup[r]]
    /\ lookup' = [lookup EXCEPT ![r] = "idle"]
    /\ UNCHANGED <<up, crashes, agentVars, handlerVars, dials, leaseVars,
                   sweep, presence>>

(* A cache entry reaches registryCacheTTL. *)
CacheExpire(r) ==
    /\ cache[r] # "none"
    /\ cache' = [cache EXCEPT ![r] = "none"]
    /\ UNCHANGED <<up, crashes, agentVars, handlerVars, dials, leaseVars,
                   sweep, presence, lookup>>

-----------------------------------------------------------------------------
(* Replica failures. *)

(* The process dies with its sockets, goroutines and memory. *)
Crash(r) ==
    /\ r \in up /\ crashes < MaxCrashes
    /\ up' = up \ {r}
    /\ crashes' = crashes + 1
    /\ closed' = closed \cup {t \in Tunnels : owner[t] = r}
    /\ pc' = [t \in Tunnels |->
                IF owner[t] = r /\ pc[t] \notin EndPCs THEN "crashed" ELSE pc[t]]
    /\ dials' = [dials EXCEPT ![r] = NoTunnel]
    /\ sweep' = [sweep EXCEPT ![r] = "due"]
    /\ lookup' = [lookup EXCEPT ![r] = "idle"]
    /\ cache' = [cache EXCEPT ![r] = "none"]
    /\ UNCHANGED <<agentConn, owner, retried, leaseVars, presence>>

(* The container restarts in its pod: same name, same address. *)
Restart(r) ==
    /\ r \notin up
    /\ up' = up \cup {r}
    /\ UNCHANGED <<crashes, agentVars, handlerVars, dials, leaseVars, sweep,
                   presence, readVars>>

-----------------------------------------------------------------------------
HandlerStep(t) ==
    \/ StoreLocal(t)
    \/ ClaimGet(t) \/ ClaimWrite(t) \/ ClaimConflict(t) \/ ClaimError(t)
    \/ ClaimInvalidate(t)
    \/ DeleteLocal(t)
    \/ ReleaseGet(t) \/ ReleaseDelete(t) \/ ReleaseError(t) \/ ReleaseInvalidate(t)

SweeperStep(r) == SweepStart(r) \/ RenewGet(r) \/ RenewUpdate(r) \/ RenewError(r)

LookupStep(r) == LookupGet(r) \/ LookupStore(r)

Next ==
    \/ \E t \in Tunnels, r \in Replicas : Connect(t, r)
    \/ AgentLose
    \/ \E t \in Tunnels : ConnBreak(t) \/ DialerTimeout(t) \/ HandlerStep(t)
    \/ \E r \in Replicas : SweeperStep(r)
    \/ \E r \in Replicas : LoadMiss(r) \/ LookupStep(r) \/ CacheExpire(r)
    \/ \E r \in Replicas : Crash(r) \/ Restart(r)
    \/ Tick

Spec == Init /\ [][Next]_vars

(* Fairness: goroutines are scheduled, every API call returns, the tickers *)
(* fire and TCP notices a dead peer (the 60s read deadline of revdial).    *)
(* Nothing obliges the agent to dial, a socket to break, a replica to      *)
(* crash or to come back, a user to send a request.                        *)
Fairness ==
    /\ \A t \in Tunnels : WF_vars(HandlerStep(t)) /\ WF_vars(DialerTimeout(t))
    /\ \A r \in Replicas : /\ WF_vars(SweeperStep(r))
                           /\ WF_vars(LookupStep(r))
                           /\ WF_vars(CacheExpire(r))
    /\ WF_vars(Tick)

FairSpec == Spec /\ Fairness

-----------------------------------------------------------------------------
(* Properties. *)

\* A handler of r is still going to release the claim of r, or cannot: its
\* process crashed, or its release met an API error.
ReleasePending(r) ==
    \E t \in Tunnels :
        /\ owner[t] = r
        /\ pc[t] \in StoredPCs \cup {"release", "delete", "unreleased", "crashed"}
        /\ pc[t] = "delete" => t \in uidCurrent

(* No claim outlives the handlers that made it: while the Lease names r,   *)
(* some handler of r has not got through Delete -> ReleaseTunnel with it   *)
(* (or was cut short by a crash or an API error).  However reconnects,     *)
(* renewals and other releases interleave, a clean disconnect therefore    *)
(* never leaves peers routing to a replica that lost the agent.            *)
NoOrphanClaim == lease # NoLease => ReleasePending(lease.holder)

(* The map of a replica only ever offers a dialer whose handler has not    *)
(* cleaned up: after the handler's Delete no lookup finds that dialer      *)
(* again, and no replica offers a dialer accepted by another.              *)
NoStaleEntry ==
    \A r \in Replicas :
        dials[r] # NoTunnel => owner[dials[r]] = r /\ pc[dials[r]] \in StoredPCs

(* The holder of the Lease changes to r only by the claim of a handler     *)
(* that accepted the agent's socket on r: neither a renewal by a sweeper   *)
(* whose read is stale nor any other step takes a tunnel over.             *)
OnlyAcceptedSocketsClaim ==
    [][ lease' # NoLease /\ (lease = NoLease \/ lease.holder # lease'.holder)
          => \E t \in Tunnels : /\ owner[t] = lease'.holder
                                /\ pc[t] \in {"create", "update"}
                                /\ pc'[t] = "claimed" ]_vars

\* How far a handler at a program point is with the tunnel it serves.
Stage(point) ==
    CASE point = "idle" -> "out"
      [] point \in {"upgraded", "claim", "create", "update"} -> "joining"
      [] point \in {"claimed", "serving"} -> "in"
      [] point \in {"release", "delete", "released"} -> "leaving"
      [] point = "finished" -> "gone"
      [] point \in {"unreleased", "crashed"} -> "lost"

(* The Lease and the handlers as TunnelRegistry has them.                  *)
Tunnel == INSTANCE TunnelRegistry
    WITH Sockets <- Tunnels, Nobody <- NoReplica, host <- owner,
         stage <- [t \in Tunnels |-> Stage(pc[t])],
         claimant <- IF lease = NoLease THEN NoReplica ELSE lease.holder

(* ClaimTunnel, RenewOwned and ReleaseTunnel, each a read and a write with *)
(* others in between, change who is advertised as the steps of             *)
(* TunnelRegistry do: a replica only by a handler that accepted a socket,  *)
(* and no handler that is through leaves an unanswered claim behind.       *)
ImplementsTunnelRegistry == Tunnel!Spec

(* With an agent that redials only once the old handler is gone, a served  *)
(* socket is the one the map offers and the one the Lease advertises.      *)
ServedSocketIsAdvertised ==
    \A t \in Tunnels :
        pc[t] = "serving" /\ t \notin closed =>
            /\ dials[owner[t]] = t
            /\ HeldBy(owner[t])
            /\ Fresh(lease.age)

(* Once the agent is gone for good every running replica stops routing to  *)
(* it: entries are evicted, claims released or expired, caches dropped,    *)
(* whatever crashed or failed on the way.                                  *)
Routes(r) == HasConnection(r) \/ cache[r] \notin {"none", NoReplica}

DeadEdgeBecomesUnroutable ==
    (<>[](agentConn = NoTunnel)) => <>[](\A r \in up : ~Routes(r))

(* Once a connection is stable every running replica routes to its owner,  *)
(* whatever happened before (crashes, earlier sockets).                    *)
LiveEdgeBecomesRoutable ==
    \A t \in Tunnels :
        <>[](agentConn = t /\ t \notin closed)
            => <>[](\A r \in up : IF r = owner[t] THEN dials[r] = t
                                  ELSE lookupLive = owner[t])

(* ReleaseTunnel's comment: "the holder check keeps a slow disconnect      *)
(* cleanup from erasing a newer claim written by the replica the agent     *)
(* reconnected to".                                                        *)
ReleaseSparesNewerClaim ==
    [][ \A t \in Tunnels :
          pc[t] = "delete" /\ pc'[t] = "released" /\ lease # NoLease /\ lease' = NoLease
            => lease.holder = owner[t] ]_vars

(* HasConnection's comment: it "returns true if ANY replica holds an       *)
(* active tunnel for key"; stated where no handler is at work on the key.  *)
ActiveTunnelIsFound ==
    (/\ \A t \in Tunnels : pc[t] \in EndPCs \cup {"idle", "serving"}
     /\ agentConn # NoTunnel /\ agentConn \notin closed)
        => \E r \in up : HasConnection(r)
=============================================================================
