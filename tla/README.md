# A TLA+ development of faros

faros connects edges (Kubernetes clusters and Linux servers) to a multi-tenant
hub. An *agent* on the edge opens a reverse tunnel to the *edges provider*; the
provider, a Deployment of several replicas, keeps the tunnel, tells its peers
who holds it, and shows the edge's state in an `Edge` object (a
`KubernetesCluster` or `LinuxServer`) in the tenant's kcp workspace. The *hub*
itself is replicated too: its replicas share a store of login state, elect the
one that runs the singleton controllers, and those controllers provision and
tear down tenants. Two more providers, *agents* and *App Studio*, keep runs in
Postgres beside the goroutines of several replicas, and the replicas of a third,
*kuery*, divide the connected edges among themselves.

This directory models the part of that system where replicas, goroutines,
agents and the API server meet, checks it with TLC on small instances, and
proves the main safety properties with TLAPS for all instances.

## 1. Inventory

| Component | State | Operations | Meets |
|---|---|---|---|
| Agent ingress handler (`tunnel/agent_proxy_builder_v2.go`) | a goroutine per control socket | authenticate, upgrade, store, mark, wait, delete, mark | ConnManager, Edge status, agent |
| ConnManager (`tunnel/connman.go`) | map edge -> dialer, per process | Store, Load, LoadLocal, Delete, HasConnection, sweeper | Registry, handler, lifecycle reconciler |
| Registry (`tunnel/registry.go`) | one Lease per edge, a presence Lease per replica, a 3 s cache | ClaimTunnel, ReleaseTunnel, RenewOwned, LookupTunnel, ReplicaAddr | API server, peers |
| revdial (`provider-sdk/revdial`) | control connection, waiting Dials, listener backlog | Dial, serve, matchConn; run, grabConn, Accept, Close | handler (Done), agent |
| Edge status (`tunnel/edge_status.go`) | status fields of the Edge | markEdgeConnected, heartbeat loop, markEdgeDisconnected | reconcilers, reporter |
| Reconcilers (`edgectrl/`) | none beyond the Edge and its Secrets | lifecycle, token, RBAC, version | handler, agent |
| Agent (`pkg/agent`) | tunnel loop, cap-1 state channel, saved kubeconfig, reporter | reconnect, token exchange, heartbeat | handler, Edge status |
| Shared store (`pkg/hub/sharedstore`) | a Secret per key with an expiry | Put, Get, Take, Delete, GC | login flows on every hub replica |
| Leader election (`pkg/hub/leaderelection`, `provider-sdk`) | the Lease, a channel of terms, goroutines per round | runWithClient's loop, client-go's elector, OnStartedLeading | every singleton controller |
| Agent runs (`providers/agents/api`, `store`) | a row per run, the live-run registry of each replica | executeTask, checkpoints, gated calls, resumeRun, sweep, cancel | store, inbox, other replicas |
| App Studio assistant (`providers/app-studio/api`, `store`) | a row per run with a revision, an activity claim, a supervisor per replica | Reserve, Attach, Start, update, finish, ClaimPending, Stop, AbortWith, reconciliation | store, other replicas |
| Soft delete and tenancy (`pkg/hub/controllers`) | User, Organization, kcp workspaces, Memberships, membership indexes | three soft-delete branches, bootstrap, index healing, REST calls | kcp, API server |
| Kuery engagement (`providers/kuery/engagement`) | a Lease per edge, the clusters a replica syncs, a row per cluster | Reconcile: tryAcquire, engage, assertTenantLabel, dropLocal, release | Edge status, kuery's sync engine and store |
| Placements | kcp objects | see "Not modelled" | |
| Data path (relay, kubectl/ssh/MCP proxies), hub server and auth front ends, provider registry, CLI, portals, other providers | little or none of their own | stream copying, HTTP handling, rendering | |

`PROJECT.json` lists every component with its sources and status, every hazard
at its line, and for every definition the source lines it stands for.

What is hard here:

* **Interleavings.** Up to three goroutines per tunnel, the sweeper and the
  lookups of each replica, the reconcilers and the agent's reporter all write
  the same Lease or Edge. Lease reads and writes are separate requests.
* **Reconnects.** An agent may be back, on the same or another replica, long
  before the handler of its old socket has noticed anything (up to 60 s).
* **Crashes.** A replica that dies leaves its Leases, its Edge status and its
  peers' caches behind; one that restarts in its pod has the same address and
  none of the sockets.
* **Two kinds of writes.** Merge patches always win; whole-object updates fail
  on a stale version and are retried five times, or not at all.
* **Uncorrelated answers.** revdial gives a pick-up, or a failure, to whichever
  Dial is waiting.
* **At most once.** A login code must be redeemed by one caller across all
  replicas, even if a reply is lost; a run must be executed by one goroutine.
* **Work that outlives its permission.** A leader without its Lease, a replica
  whose claim ran out, a pass that read a deletion request before it was
  withdrawn: each goes on for a while beside the one that took over.

## 2. Modules

```
component             implements       model checking       proofs
EdgeTunnel            TunnelRegistry   MCEdgeTunnel         EdgeTunnelProofs
EdgeStatus                             MCEdgeStatus         EdgeStatusProofs
EdgeEngagement        LeasedWork             "                    "
Revdial                                MCRevdial            HubCoordinationProofs
                                       MCHubCoordination          "
LeaderElection                               "                    "
SharedStore           OneShot                "              SharedStoreProofs
AgentRuns                              MCProviderRuns       AgentRunsProofs
AssistantSupervisor   TurnLog                "              AssistantProofs
EdgeRegistration                       MCObjectControllers  EdgeRegistrationProofs
SoftDelete                                   "              SoftDeleteProofs
```

The second column names the abstract specification a component is shown to
implement, by a refinement mapping that TLC checks and TLAPS proves.
MCHubCoordination also instantiates Revdial.
A component module declares CONSTANTS and a named ASSUME, one action per step
between two points where another goroutine can act (an API request, a channel
operation, a lock), `Spec`, `FairSpec` and the properties. Each property is
preceded by a sentence that says what it states. Operators named like another
one with a suffix (`ReleaseGetFreshOnly`, `deleteExactByName`, ...) stand just
before it: they are the deliberately wrong variants with which the properties
are tested, and nothing uses them.

### EdgeTunnel: who holds the tunnel of an edge

One edge key (no operation reads two), any number of replicas and control
sockets. `pc[t]` follows the ingress handler of socket `t`: *upgraded* ->
`StoreLocal` (map entry) -> `ClaimGet`/`ClaimWrite` (the two requests of
`upsertLease`, with `ClaimConflict` for its single retry) -> *serving* ->
`DeleteLocal` -> `ReleaseGet`/`ReleaseDelete` -> finished. `sweep[r]` is the
sweeper of replica `r` (`RenewGet`, `RenewUpdate`), `lookup[r]` and `cache[r]`
an in-flight `LookupTunnel` and its cached answer. Versions and UIDs are only
ever compared with the one an operation has read, so the model keeps the sets
of operations whose copy is still current (`rvCurrent`, `uidCurrent`) instead
of numbers. Time is counted in sweep intervals: `Tick` ages Leases, and a
Lease is `Fresh` up to `LeaseTTL` (90 s / 30 s in the code).

`TunnelRegistry` is what this looks like from outside: a socket is *out*,
*joining*, *in*, *leaving*, *gone* or *lost*, and somebody is advertised or not.
Only a joining socket advertises its host. A claim that is not written is
permitted (`Store` logs the error and goes on), and so is a withdrawal of somebody
else's claim (finding 2). A handler that finishes in order leaves no claim of its
replica behind, unless another handler of that replica still answers for it.

### Revdial: dialing back through the control connection

A Dial call `d` also names the request it causes. `dial[d]` is the caller,
`req[d]` the request and its answer, `agentEnd[d]` the agent's socket,
`writer`/`reader` the two loops of `Dialer.serve`. Keep-alives are left out:
pongs arrive exactly while the link and the agent live, so all they decide is
when the 60 s read deadlines may fire (`ReaderTimeout`, `ListenerTimeout`).

### EdgeStatus: is the edge shown as it is?

The `connected`, `phase` and `lastHeartbeatTime` fields and all their writers:
the retry loop of `markEdgeConnected`, the heartbeat loop, the fire-and-forget
`markEdgeDisconnected`, `LifecycleReconciler`, and the agent's `EdgeReporter`
behind its cap-1 channel. A whole-object update succeeds only if the writer
read the current version, so no copies are kept. `OtherWrite` is any write to
other fields; it only makes updates conflict. The first heartbeat of
`EdgeReporter.Run` and the ticker's are both `ReportTick`.

### EdgeRegistration: join token and kubeconfig

The `joinToken` and `Registered` fields of the same object. Here copies *are*
kept (`copy[a]`), because the question is whether a stale one is written back.
`TokenReconciler` is three steps, `markEdgeConnected` the merge patch and then
the retry loop, and another reconciler (version, lifecycle) reads and updates
the whole object. `Connect` takes the authentication, the lookup of the SA
Secret and the upgrade together. The agent's `kubeconfig` is *none*,
*saving*, *saved* or *lost*: `onAgentToken` may fail to save, or the agent may
die before it has. If only the in-cluster Secret could not be written, the
code still uses the ServiceAccount token until the pod restarts; the model
counts that as *lost* at once. Agents with a static token of the hub, which are
sent no kubeconfig and let the join token be cleared at once, are left out.

### SharedStore and OneShot: single-use entries

`SharedStore` runs Put, Take, Get, Delete and sweeps on one key, request by
request. A Put writes at most once, so its identity also serves as UID and
resourceVersion of what it wrote. With `ApiErrors` a request may fail, or take
effect and lose its reply. `OneShot` is the promise in four actions (Write,
Redeem, Drop, Expire); the refinement mapping counts an entry that a Take has
deleted as stored until that Take returns.

### LeaderElection: one term at a time

`main[r]` is the loop of `runWithClient`, `elector[r]` client-go's elector of the
round (an external part: it acquires, renews, gives up, releases), `callback[r]`
the `OnStartedLeading` goroutine of the round and `orphans[r]` how many callbacks
of earlier rounds still wait to send, since client-go never joins them.
`terms[r]` is the channel of capacity one; a context is *cur* in the round that
made it and *old*, hence cancelled, later. Pauses are not timed.

### EdgeEngagement: which replica of kuery syncs an edge

One edge (edges share nothing) and any number of replicas. `pass[r]` follows
`Reconcile` of replica `r`: `ReadEdgeState` -> `ClaimGet`/`ClaimWrite` (the two requests
of `tryAcquire`) -> `EngageEdge` -> `assertTenantLabel`, or `dropLocal` ->
`DisengageEdge` -> `ReleaseRead`/`ReleaseClaim`. As in `EdgeTunnel`, `readCurrent` and
`uidCurrent` hold the replicas whose copy of the Lease is still its last version, or
still the same object. `row` is the row tenants query; `ending` are contexts that were
cancelled and whose row kuery's engine has yet to mark stale (external).
`unclaimed` is a history variable: the replicas that go on syncing although
their claim ran out or was deleted under them.

`LeasedWork` is the claim without its requests: taking is one step and needs that
nobody has the claim, losing is the holder's, and who works without the claim
lost it while at work. A replica that has engaged the edge, or is about to, is at
work; the claim is nobody's once its Lease has run out.

### AgentRuns: who executes a run

The row (`phase`, checkpoint, `attempt`) and the goroutines that write it:
`job[w]` follows `executeTask` or `resumeRun`, `sweep[s]` the recovery sweep of a
replica, `cancel` a cancel request. No lock is held over the store, so each
`GetRun ... SaveRun` is two actions and the second writes the whole row of
the first; only `ClaimRun` is conditional. `live[s]` is the in-process registry,
`recent` abstracts `updated_at` against `staleRunGrace`. `interfered` is a history
variable: a sweep or a cancel of a replica that cannot see the execution
wrote the row under it. Two more count recoveries, which the row does not:
`recovered[s]` are the resumes that the sweep of `s` started, `uncounted` those of
all sweeps whose count is missing (`SweepUncounted`) or was stored while somebody
held an older copy of the row, whose save may take it back (`CopyHeld`). The counter
`attempt` in the row falls behind even without these, since overlapping sweeps
store one count for two resumes. What it does bound, and `RecoveriesBounded` says, is
each replica: its sweep starts at most `maxRecoveryAttempts` recoveries plus
`uncounted`, because its next look at the row comes after its own count.

### AssistantSupervisor: who writes to the project

The runs of one project (`turn[n]`: status and revision), the durable activity
claim and, per replica, the supervised run, a reservation, a request that
starts a turn, release goroutines under way and a reconciliation between its
read and its write. A transition under `transitionMu` is one action with its
compare-and-swap; `ClaimPending` writes twice and is two. A write that fails
ends in `recordPersistenceFailure` (`Fallback`), which tries to save the outcome and
then the last committed record; both may fail as well, with or without effect. A replica that
stalls lets its claim expire (`ClaimExpires`) and goes on with what it has in
memory.

`TurnLog` is the project as its readers see it: the turns are opened one after the
other and closed once, and at most one replica may write for the open one. A
write that ends a turn takes the right from whoever had it in the same step,
wherever that replica is: this is what the compare-and-swap on the revision buys.
Claims and revisions do not occur in it.

### SoftDelete: how tenants go away

A user, the personal organization, its workspaces, Memberships and index rows.
Five workers run side by side: the organization branch (`orgPass`), the user
branch (`userPass`), the workspace poll (`poll`), the bootstrap controller (`boot`)
and the membership-index controller (`heal`). A pass reads its object once;
`fresh` holds the copies that are still current, because a status update writes
the whole status, the request included, and is dropped on a conflict. Time is
only the end of a grace period; `ranOut` remembers which ended. Passes start at
any time (watch events, the resync, the ticker) and overlap without limit.

## 3. Runs

All runs exhaust their state space. The violation runs state a sentence of the
code's own comments and show a behaviour of the code that contradicts it.

| Run | Bounds | Shows |
|---|---|---|
| `tunnel_safety` | 2 replicas, 2 sockets, 1 crash, API errors, any reconnect | no claim outlives its handlers, no map offers a cleaned-up dialer, `TunnelRegistry` implemented |
| `tunnel_routing` | 2 replicas, 2 sockets, 1 crash, a looking-up replica, TTL 1, clean reconnects | a served socket is advertised; every replica ends up routing to a stable tunnel and stops routing to a dead one |
| `hub_coordination` | 2 puts, 2 calls, 1 sweeper, API errors; 2 candidates, 1 orphan; 2 dials, backlog 1, cancellation | login state is redeemed once, live entries spared, expired ones reclaimed, `OneShot` implemented; terms do not overlap and no Lease is held idle; answers cover waiters, every Dial returns, a dead link is noticed unless the reader is stuck |
| `edge_status` | 2 tunnels, 2 tries, 1 crash, clean reconnects; 2 kuery replicas, 2 changes of `connected`, 2 setbacks | a dead edge ends up disconnected, a live and reporting one connected; whoever syncs an edge claimed it, `LeasedWork` implemented, and a connected edge is again and again synced by one replica and shown to its tenant |
| `provider_runs` | 2 replicas each; 2 goroutines, 1 gate, 2 events, cap 1; 2 turns, revision 2, 1 upset | one executor, the recoveries of each replica bounded, no run open for ever; one writer, `TurnLog` implemented, orphans closed |
| `object_controllers` | 2 tunnels, 2 tokens, 2 tries, 1 crash; 1 user, 1 workspace, 1 call, 1 mishap | nobody stranded, no token revived, tokens offered; nothing lost in grace, requests stay withdrawn, deletions complete, withdrawn ones leave a usable organization |
| `tunnel_release_race` | 2 replicas, 2 sockets | **violated**: `ReleaseTunnel` can delete a newer claim |
| `tunnel_reconnect` | 1 replica, 2 sockets | **violated**: after a same-replica reconnect the live tunnel is lost |
| `revdial_detect_cancel` | 2 dials, cancellation | **violated**: an abandoned failure blocks the read loop |
| `revdial_close` | 2 dials | **violated**: `Close` can panic the agent |
| `edge_late_disconnect` | 2 tunnels, 5 tries, no crash | **violated**: a late `markEdgeDisconnected` sticks |
| `agent_recovery` | 2 replicas, 2 goroutines, 1 event, cap 2 | **violated**: a stranded run with a checkpoint is never resumed |

`hub_coordination`, `edge_status`, `provider_runs` and `object_controllers` each check
components that share no state, or, for kuery and the status it reads, where one side
may already do whatever the other could make it do. Their product would only multiply states, so a variable
`focus`, chosen at first and never changed, says which of them moves; the others
rest in a state in which none of their fair actions is enabled. An
"event", "upset", "setback" or "mishap" is anything that comes from outside: a crash, a
failed request, a stall, an answer, a stop, a lost index write.

Why the bounds are enough to be interesting. Two sockets give every order of
an old handler's cleanup against a new one's set-up; two replicas put these on
the same or on different processes; one crash falls between any two steps. Two
tries are the least with both a retry and an exhausted loop. Two dials suffice
for an answer to reach the wrong caller, and a backlog of 1 for a full queue.
Two calls and two puts let two Takes race around a rewrite, or a Take
meet a Get or Delete. Two tokens allow one regeneration. Two goroutines are two answers, or an answer
and a sweep; the second turn of a project is the one that a stalled owner of
the first could disturb. Recovery is cut off at one attempt instead of three, so
that two replicas pass the cap together; `RecoveriesCapped` covers every other cap. Two setbacks are a stall, and a failed
request or a crash while the edge is being taken over because of it; two changes of
`connected` let an edge come back while its old claim is being released.

In `object_controllers` one user has one organization with one workspace, one
request is waiting at first, and there is one call (the withdrawal, or a
second request) and one mishap. The workers start their passes in rotation
(`turn`), and beside a pass of the organization branch at most one of the user
branch or of the bootstrap controller is under way: those three meet in
most variables. The safety properties do not depend on this restriction, since
`SoftDeleteProofs` is about `SoftSpec`, where passes overlap freely; the two
liveness properties are checked for it only.

The proofs below remove the bounds for the safety properties they name.

`CleanReconnect = TRUE` says that the agent dials again only after the handler
of its old socket has ended. Without it the routing and status properties are
false, which is what the violation runs show; with it, the runs show that the
early reconnect is the only thing that breaks them.

Deadlock is not checked where the system may rest: all sockets, dials, calls
or tunnels of the instance used up and every goroutine idle.

### Fairness

Weak fairness of goroutines that have something to do (handlers, sweepers,
read and write loops, reconcilers, pick-ups), of timers that are armed (read
deadlines, ticks, cache expiry), and of requests returning. None of *when* an
agent connects, dies or returns, of users, of crashes or of errors.

Strong fairness where a step is disabled and enabled again for ever:
* `LifecycleWrite`, `TokenIssue` and `TokenClearAnnotation` with a current
  version: periodic writers act every 20 to 30 seconds, an update takes
  milliseconds, and controller-runtime retries a failed Reconcile, so one
  attempt meets a quiet moment;
* `ReportState` and `ReportLand`: the reporter is ready again after each patch,
  which ends within `heartbeatTimeout`, and the API server does not fail for ever;
* `GCDelete`: the same for the deletes of successive sweeps;
* `TurnEnds`: a turn's iterations and its wall clock are limited, although a
  resumed turn starts anew;
* `Reconcile`: the project is read again and again through every replica, also
  at a moment when the run has just been left alone;
* `UserStampOrg` with a current copy: conditions of an organization change a few
  times in its life, so the passes of the user's cascade do not meet a change
  every time.

Kuery's passes (`PassStep`) are weakly fair: a pass is requeued after each outcome. So is
`ClaimRunsOut`, which the holder's renewals do not prevent in the model while the
budget of setbacks lasts, and afterwards only of a holder that is dead or has no
reason to renew.

No fairness of `Reserve`, `StartRun`, cancels, verdicts, calls, crashes or upsets.
For the leader, fairness of `run` returning is assumed only once its context is
cancelled, which is what the doc of `Run` demands of its callback.

### Assumptions of the models

* The replicas' clocks agree (a Lease is as old on one replica as on another,
  an entry expires everywhere at once).
* The API server is linearizable. Reconcilers read from a cache; a stale read
  is a version that is no longer current, whose update conflicts.
* In `AgentRuns` a few store requests in a row take less than `staleRunGrace`
  (15 minutes): `Age` waits for them, not for a turn, a start or a batch. A run
  that ages while it is executed counts as an event.
* In `AssistantSupervisor` a claim is *fresh* or not for all replicas at once.
* In `SoftDelete` index rows are written one at a time and atomically: the read
  and the write of `mutateUMI` are one action, its lost conflict a mishap. A
  workspace that is deleted is gone at once, with its content; kcp takes its time,
  and the code (`DeleteOrgWorkspace`) does not wait for it.
* In `EdgeStatus` an open tunnel with pongs never lets the heartbeat go stale
  (three stamps in a row would have to fail), and the patches of
  `markEdgeDisconnected` succeed; the code only logs a failure.
* `EdgeStatus` and `EdgeRegistration` have one provider replica; the
  interplay of replicas is the subject of `EdgeTunnel`.

## 4. Findings

Each is a violation run with a short counterexample; `PROJECT.json` quotes the
sentences.

1. `ConnManager.Delete` removes by key. After a reconnect to the same replica
   the old handler's cleanup removes the new dialer and releases its Lease:
   a live agent that nobody can reach.
2. `ReleaseTunnel` checks the holder, then deletes guarded by the UID only. A
   peer's claim updates the same object in between, and is deleted.
3. A `pickup-failed` whose Dial has given up blocks revdial's read loop until
   another Dial comes; a dead tunnel is not noticed in the meantime.
4. `Listener.Close` closes `connc` while `grabConn` may still send on it.
5. `markEdgeDisconnected` may land after `markEdgeConnected` of the next
   tunnel. With no reporter (join-token mode) nothing repairs the status:
   heartbeats do not touch `connected` and the lifecycle reconciler only ever
   clears it.

6. `recoverRun` hands a stranded run to `resumeRun`, which claims it with
   `ClaimRun`; but that refuses a row in phase Running, and the row of a stranded
   run is Running. So no run is ever resumed by recovery: each sweep adds an
   attempt and the last one fails the run.

More observations, which the models contain and no run states. A failed claim is logged with "until the
sweeper retries", but `RenewOwned` only renews Leases the replica already
holds. And the hub clears a join token when it has *sent* a kubeconfig; an
agent that fails to save it (`onAgentToken` returns early) can only be rescued
by regenerating the token. `NoStrandedAgent` is therefore about *sent*.
In App Studio the claim says "operation" between `CreateAssistantRun` and
`Attach`, so a peer that reads the project can interrupt the run that is just
starting, although the comment at `assistant_supervisor.go:305` wants that interval
treated as owned; the reservation it speaks of is only known to the replica
that made it. `releaseActivity` runs in a goroutine and may delete the claim
the same replica has taken for the next run; a failed `AbortWith` on a paused
run leaves a terminal run in memory that makes `Reserve` conflict. An approval
that is answered before PendingApproval was saved is recorded and resumes
nothing, and approving an old request again resumes a later gate of the run.
In soft delete, a cascade that fails after it deleted the Memberships lists no
members when it starts again, so their index rows stay; the poll unmarks, each
minute, workspace rows the organization's grace period marked; `mutateUMI` reports
a conflict as success; and a bootstrap pass under way may recreate a home
workspace the cascade has just removed.
In kuery, `release` has the race of `ReleaseTunnel`: it reads the holder and deletes by UID,
so it also removes the claim of a peer that took the expired Lease over in
between. The peer goes on syncing without a claim until its next pass, and a
third replica may engage the edge meanwhile; the code calls the release
best-effort, so this is no finding. If the replica that syncs an edge dies and the edge
disconnects before a peer takes it over, no replica has an entry for it and
nobody marks the row, which stays active until its TTL.

## 5. Proofs

About 5,750 obligations in eight modules, checked by SMT, Zenon and LS4. Each
module proves `Init => IInv` and `IInv /\ [Next]_vars => IInv'` for the invariant
described here and derives the theorems listed in `PROJECT.json` from it; the
only assumptions are the named ones on the constants.

Four components are proved to implement an abstract specification, for all values
of the constants: `StoreIsOneShot`, `LeaseIsTunnelRegistry`, `EngagementIsLeasedWork`
and `SupervisorIsTurnLog`. Each proof takes the actions one by one and says which
abstract step each is, or that it stutters; the invariant supplies what the
abstract guard asks for.

* **EdgeTunnelProofs** (`ClaimsAreBacked`, `EntriesAreServed`,
  `RenewalNeverSteals`, `ServedIsAdvertised`, `TypeCorrect`), from
  `ConstantsAssumption`. The
  invariant is `TypeOK /\ NoOrphanClaim /\ NoStaleEntry` plus two facts that make
  it inductive: a handler past *idle* has an owner (`OwnerKnown`), and a sweeper
  with a current version renews a Lease that is its own (`RenewalIsOwn`). The
  second one is why the compare-and-swap of `RenewOwned` matters. The heart of
  `NoOrphanClaim` is that a claim, once written, stays backed by the
  handler that wrote it until a delete with the current UID (`BackingKept`).
  `ServedIsAdvertised` assumes `Orderly`: the agent redials only after the old
  handler ended, the API server answers, the TTL is at least one sweep interval.
  `ServingInv` then gives one active handler (`OneActive`) whose entry nobody else
  deletes (`OpenIsStored`) and which alone creates or deletes the Lease
  (`AloneWithLease`). Only the sweeper of the same replica can outdate what the
  handler read, and what it wrote is the claim (`OutdatedMeansRenewed`); each
  interval renews the claim once, so its age stays at most 1 (`ClaimedIsRenewed`).
  `LeaseIsTunnelRegistry` reads off the actions how a step moves a socket from stage
  to stage (`StageMoves`, `StageValues`). Its one deep obligation is Finish, which
  asks that a claim of the replica still be answered for when a handler leaves
  without having deleted it; that is `NoOrphanClaim` in the state after the step
  (`BackedIsAnswered`). The writes of the sweeper stutter because of `RenewalIsOwn`.
* **HubCoordinationProofs**. For Revdial (`NoStarvedDial`, `DialTypeCorrect`), for
  any finite set of Dials: `AnswersCoverWaiters` compares two cardinalities; lemmas
  say how a step adds to or takes from both sides (`BothGrow`, `BothShrink`,
  `WaitersShrink`), and each action is one of these. For LeaderElection
  (`OneTermAtATime`, `LeaderTypeCorrect`): the relation between the loop and the
  terms that run (`runs[r] # {} <=> main[r] = "running"`) is part of the type
  invariant; with it, taking a term happens only when none runs.
  For the composition that the run checks: each of its behaviours is one of the
  store, of the elector and of the dialer (`ProductProjects`), so the theorems
  about these hold of it; `ProductTypesOK` is the one for the types.
* **SharedStoreProofs** (`RedeemedOnce`, `SweepsSpareLiveEntries`,
  `StoreIsOneShot`, `TypeCorrect`). The invariant adds `DropsAreExpired` (what
  Get is about to drop has expired; expiry is never undone) to
  `SingleRedemption`. The refinement shows for each action which step of
  `OneShot` it is: a Take that returns a value is Redeem, any other removal
  Drop, the rest stutters.
* **EdgeRegistrationProofs** (`NobodyStranded`, `RetiredForGood`,
  `TypeCorrect`). `TokenNeverRevived` needs that a copy at the current version
  *is* the object (`ObjOK`): then a whole-object update puts back only what is
  there. `NoStrandedAgent` needs two more: no handler clears the token of an agent
  that was sent nothing (`ClearNeedsKubeconfig`), hence for such an agent the
  token can only be missing if no handler ever ran (`TokenStays`).

* **EdgeStatusProofs**. For EdgeEngagement (`SyncersHoldClaims`,
  `EngagementTypeCorrect`, `EngagementIsLeasedWork`, `OneSyncsUnderClaim`): a replica
  that syncs, or is about to, and whose claim has not ended under it holds a *fresh*
  Lease (`ReliedOnIsFresh`); a read that is still current tells the truth, so
  a takeover with one meets an expired Lease and a renewal one's own (`ReadsHold`); and
  who holds a fresh Lease has not lost it under way (`FreshIsClaimed`). Hence a write takes the Lease from
  nobody who relies on it, which is the guard of Take. The invariant of `LeasedWork`
  is carried over to the code by the refinement (`OneSyncsUnderClaim`).
  For EdgeStatus (`StatusTypeCorrect`): the offered tunnel is an open one, and
  `markEdgeConnected` never exceeds its tries (`TriesLeft`).
  For the two side by side, `ProductProjects` and `ProductTypesOK` as above.
* **AgentRunsProofs** (`OneExecutor`, `RecoveriesCapped`, `TypeCorrect`), for any number of replicas,
  goroutines, gates, attempts and events. Three invariants, one after
  the other. `Inductive` adds to the types that only a goroutine that got as far as
  the registry has to leave it (`EnteredLate`). `Guarded` adds to
  `ExclusiveExecution` that, while somebody executes undisturbed, the row says
  Running, or does not say so yet and nobody is about to claim (`RowGuards`), which a
  checkpoint in flight does not undo (`CheckpointsRunning`).
  `RecoveriesCapped` rests on `Counted`: no replica started more resumes than the
  attempts in the stored row, and in every row somebody holds and may write back
  without another look, plus `uncounted` (`RowsCover`). A sweep that is about to save
  its count covers one resume more of every replica that chose the run too, or may
  still choose it because the row is old (`CountsCover`): these are the
  resumes that share one count. A sweep that judged the run below the cap, and so is
  about to resume it, still has one recovery left (`WithinCap`). A row has to get old
  again before a replica chooses it once more, and no save takes that long, so each
  replica shares a count with at most one resume of its own.
* **AssistantProofs** (`OneWriter`, `OnlyForward`, `SupervisorIsTurnLog`,
  `TypeCorrect`). No supervisor's
  base is ahead of its row (`SupOK`), a run that is supervised with the current
  revision is the only one open (`OneRunner`, `InOrder`), a start refers to the run
  it created (`StartOK`) and a reconciliation to a revision that existed
  (`LookOK`). `ExclusiveWriter` then needs no claim at all: the admission reads the
  row, and only the runner of an open row finds it running.
  For the refinement the writers are the replicas that pass `AdmitMutation`. A save
  that succeeds moves its row along the life of a turn (`RowRefines`); because
  somebody who may write runs the latest revision (`AdmittedRuns`) and there is one
  of them (`OneAdmitted`), the same save takes the right away from everybody
  whenever the row leaves *running* (`OneMoves`). A new turn opens only when the
  earlier ones are closed (`CreateRefines`).
* **SoftDeleteProofs** (`NothingLost`, `UndeletesHold`, `SoftTypeCorrect`), for any
  members, workspaces and overlap of passes. A request that expired is in `ranOut`
  (`RequestGrounds`), and so is the one a pass carries in its copy past the point
  where it decided to delete (`PassGrounds`). A copy that counts as current agrees
  with the object on whether there is a request (`CopyIsCurrent`), which is why
  writing the whole status back revives none.

Only model-checked: every liveness property (`LiveEdgeBecomesRoutable`,
`DeadEdgeBecomesUnroutable`, `DialReturns`, `DeadTunnelDetectedWhileReading`,
`DeadEdgeShownDisconnected`, `LiveEdgeShownConnected`, `TokenOffered`,
`ExpiredReclaimed`, `LeaseNotHeldIdle`, `RunNeverStuck`, `OrphanIsClosed`,
`DeletionCompletes`, `UndeletedIsUsable`, `EngagementSettles`), since fairness is
out of the prover's reach. Every invariant, every action property and every
refinement of a passing run is proved for all values of the constants, with one
condition: `ServedSocketIsAdvertised` under `Orderly`, which is also how
`tunnel_routing` checks it. `OnlyForward` and `RenewalNeverSteals` state what the
refinements of their components imply (a status is never taken back; a renewal
never changes the holder) without the vocabulary of the abstract modules.

## 6. Not modelled

* Byte streams: relaying, kubectl/ssh/MCP proxying, WebSocket framing.
* Authorization decisions, tokens' cryptography, URL parsing.
* `storeSSHCredentials`, the ssh host key, agent version and upgrade condition.
* Agents: conversations, budgets, channels, schedules, the delegation of
  sub-runs. App Studio: the graph an assistant executes, its checkpoints' data,
  stop requests bound while a run is paused, `Shutdown` (an `AbortWith` of every
  run), project pins, thumbnails. These decide what a run does, not who runs it.
* Tenancy: the creation of a personal organization, its API bindings, admin RBAC,
  MCP server and display names; several organizations per user, except that a
  user who administers another one is held up.
* Kuery: `TenantEdges`, the tenant path (an edge waits until it is stamped), what
  the sync controller copies, and the collector that removes old rows.
* Placements: level-triggered reconcilers from Workload to Placement to
  Deployment; nothing in them depends on the order of two writers yet.
* Start-up, bootstrap of kcp, provider registry, REST and portal front ends, CLI,
  template rendering and the providers that drive external systems.

The repository has some 190,000 lines of implementation. Most of it builds
prompts, renders templates, talks to model, git and cloud APIs, proxies bytes or
draws portals: sequential code with little state, whose correctness is in the
data the models abstract from. What is modelled is the part where the order of
steps of several actors matters, and it is a small share of the lines.

## 7. Plan

1. Abstract specifications of `AgentRuns` (a run is executed by one goroutine at a
   time and ends once) and of `SoftDelete` (a request, a grace period, a
   cascade or a withdrawal), with their refinements proved.
2. `TunnelRegistry` under `Orderly`: with clean reconnects a withdrawal is only of
   one's own claim.
3. The relay: a composition of `EdgeTunnel` with clean reconnects and `Revdial`.
4. **Placements**: Workload -> Placement -> Deployment -> status.
5. Longer rotations and two users in `object_controllers`.
