------------------------- MODULE AssistantSupervisor -------------------------
(***************************************************************************)
(* providers/app-studio: the assistant runs of one project on several      *)
(* replicas.  A replica supervises a run in memory (s.runs), holds the     *)
(* project through a durable activity claim it heartbeats, and writes the  *)
(* run's row with a compare-and-swap on the revision.  Any replica that    *)
(* reads the project reconciles a run it takes for orphaned.               *)
(*                                                                         *)
(* A transition of a supervised run is serialised by transitionMu and is   *)
(* one step here, its durable write included; the two writes of            *)
(* ClaimPending are two.  "finished" stands for completed and failed.      *)
(***************************************************************************)
EXTENDS Naturals

CONSTANTS
    Studios,   \* replicas
    MaxRuns,   \* bound on the turns of the project
    MaxRev,    \* bound on the revision a run can still go on from
    MaxUpsets, \* bound on stalls, crashes, failed writes, answers and stops
    NoStudio   \* owner of no claim

ASSUME AssistantAssumption ==
    /\ {MaxRuns, MaxRev, MaxUpsets} \subseteq Nat
    /\ NoStudio \notin Studios

VARIABLES
    turn,      \* turn[n]: status and revision of run n
    claim,     \* the activity claim: owner, detail (a run, or 0: "operation"), fresh
    sup,       \* sup[r]: the run r supervises
    reserved,  \* the replicas with a reservation
    start,     \* start[r]: the request that starts a turn or an operation
    releases,  \* releases[r]: releaseActivity goroutines under way
    look,      \* look[r]: the run and revision a reconciliation will interrupt
    upsets     \* counter for the bound

assistantVars == <<turn, claim, sup, reserved, start, releases, look, upsets>>

Turns == 1..MaxRuns
Closed == {"finished", "interrupted"}
Waiting == {"running", "stopping"}
Statuses == {"none", "pending"} \cup Waiting \cup Closed

(* id 0: no run.  rev is the revision of active.run, base of committedRun. *)
Supervised == [id : 0..MaxRuns, st : Statuses, rev : Nat, base : Nat,
               worker : {"none", "on", "resume", "claimed"}, queued : BOOLEAN]
Detached == [id |-> 0, st |-> "none", rev |-> 0, base |-> 0, worker |-> "none", queued |-> FALSE]
NoClaim == [owner |-> NoStudio, detail |-> 0, fresh |-> FALSE]

(* Types, and: the project has one open run at most (the unique index);    *)
(* a supervised run never is ahead of its row.                             *)
AssistantTypeOK ==
    /\ turn \in [Turns -> [st : Statuses, rev : Nat]]
    /\ claim \in [owner : Studios \cup {NoStudio}, detail : 0..MaxRuns, fresh : BOOLEAN]
    /\ sup \in [Studios -> Supervised]
    /\ reserved \subseteq Studios
    /\ start \in [Studios -> [pc : {"idle", "reserved", "created", "ending", "releasing"}, id : 0..MaxRuns]]
    /\ releases \in [Studios -> Nat]
    /\ look \in [Studios -> [id : 0..MaxRuns, rev : Nat]]
    /\ upsets \in Nat
    /\ \A m, n \in Turns :
          turn[m].st \notin Closed \cup {"none"} /\ turn[n].st \notin Closed \cup {"none"} => m = n
    /\ \A r \in Studios : sup[r].id # 0 => sup[r].base <= turn[sup[r].id].rev

AssistantInit ==
    /\ turn = [n \in Turns |-> [st |-> "none", rev |-> 0]]
    /\ claim = NoClaim
    /\ sup = [r \in Studios |-> Detached]
    /\ reserved = {}
    /\ start = [r \in Studios |-> [pc |-> "idle", id |-> 0]]
    /\ releases = [r \in Studios |-> 0]
    /\ look = [r \in Studios |-> [id |-> 0, rev |-> 0]]
    /\ upsets = 0

Upset == upsets < MaxUpsets /\ upsets' = upsets + 1

-----------------------------------------------------------------------------
(* The store.                                                              *)

(* TryClaimReplica: a missing, an own or a stale claim.                    *)
CanClaim(r) == claim.owner \in {NoStudio, r} \/ ~claim.fresh
Claim(r, n) == claim' = [owner |-> r, detail |-> n, fresh |-> TRUE]

(* SaveAssistantRunSnapshot updates the row at the expected revision only. *)
AnyRevision(n, rev) == TRUE
AtRevision(n, rev) == turn[n].rev = rev
Save(n, rev, st) == turn' = [turn EXCEPT ![n] = [st |-> st, rev |-> rev + 1]]

(* removeRunLocked: the claim is released by a goroutine, later.           *)
Remove(r) ==
    /\ sup' = [sup EXCEPT ![r] = Detached]
    /\ releases' = [releases EXCEPT ![r] = @ + 1]

-----------------------------------------------------------------------------
(* A request reserves the project: for a turn, or for another operation.   *)
Reserve(r) ==
    /\ start[r].pc = "idle" /\ sup[r].id = 0 /\ r \notin reserved /\ CanClaim(r)
    /\ reserved' = reserved \cup {r}
    /\ Claim(r, 0)
    /\ start' = [start EXCEPT ![r].pc = "reserved"]
    /\ UNCHANGED <<turn, sup, releases, look, upsets>>

(* CreateAssistantRun: refused while a run is open.                        *)
CreateRunUnchecked(r, n) ==
    /\ start[r].pc = "reserved"
    /\ turn[n].st = "none" /\ \A m \in Turns : m < n => turn[m].st # "none"
    /\ turn' = [turn EXCEPT ![n] = [st |-> "running", rev |-> 1]]
    /\ start' = [start EXCEPT ![r] = [pc |-> "created", id |-> n]]
    /\ UNCHANGED <<claim, sup, reserved, releases, look, upsets>>
CreateRun(r, n) ==
    /\ start[r].pc = "reserved"
    /\ turn[n].st = "none" /\ \A m \in Turns : m < n => turn[m].st \in Closed
    /\ turn' = [turn EXCEPT ![n] = [st |-> "running", rev |-> 1]]
    /\ start' = [start EXCEPT ![r] = [pc |-> "created", id |-> n]]
    /\ UNCHANGED <<claim, sup, reserved, releases, look, upsets>>

(* Attach, and Start's worker.                                             *)
AttachRun(r) ==
    /\ start[r].pc = "created" /\ sup[r].id = 0 /\ CanClaim(r)
    /\ sup' = [sup EXCEPT ![r] = [id |-> start[r].id, st |-> "running", rev |-> 1, base |-> 1,
                                  worker |-> "on", queued |-> FALSE]]
    /\ Claim(r, start[r].id)
    /\ reserved' = reserved \ {r}
    /\ start' = [start EXCEPT ![r] = [pc |-> "ending", id |-> 0]]
    /\ UNCHANGED <<turn, releases, look, upsets>>

(* The claim was lost, or the start failed otherwise: the run is closed,   *)
(* unless somebody did before.                                             *)
StartFails(r) ==
    /\ start[r].pc = "created"
    /\ \/ ~CanClaim(r) /\ reserved' = reserved \ {r} /\ releases' = [releases EXCEPT ![r] = @ + 1]
          /\ UNCHANGED upsets
       \/ Upset /\ UNCHANGED <<reserved, releases>>
    /\ LET n == start[r].id IN
          \/ AtRevision(n, 1) /\ Save(n, 1, "finished")
          \/ ~AtRevision(n, 1) /\ UNCHANGED turn
    /\ start' = [start EXCEPT ![r] = [pc |-> "ending", id |-> 0]]
    /\ UNCHANGED <<claim, sup, look>>

(* The deferred release of the reservation; the claim stays with a run     *)
(* that is attached by now.                                                *)
ReleaseReservation(r) ==
    /\ start[r].pc \in {"reserved", "ending"}
    /\ reserved' = reserved \ {r}
    /\ start' = [start EXCEPT ![r].pc = IF sup[r].id = 0 THEN "releasing" ELSE "idle"]
    /\ UNCHANGED <<turn, claim, sup, releases, look, upsets>>

(* ReleaseReplicaClaim deletes whatever claim this replica holds by now.   *)
DropClaim(r) == claim' = IF claim.owner = r THEN NoClaim ELSE claim

ReleaseHeld(r) ==
    /\ start[r].pc = "releasing"
    /\ DropClaim(r)
    /\ start' = [start EXCEPT ![r].pc = "idle"]
    /\ UNCHANGED <<turn, sup, reserved, releases, look, upsets>>

ReleaseLate(r) ==
    /\ releases[r] > 0
    /\ DropClaim(r)
    /\ releases' = [releases EXCEPT ![r] = @ - 1]
    /\ UNCHANGED <<turn, sup, reserved, start, look, upsets>>

-----------------------------------------------------------------------------
(* The worker saves a snapshot.  Once stopping, only a tool's settlement   *)
(* and the terminal transition are written.                                *)
Moves(r) ==
    CASE sup[r].st = "running" -> {"running", "pending", "finished", "interrupted"}
      [] sup[r].st = "stopping" -> {"stopping", "finished", "interrupted"}
      [] OTHER -> {}
WorkerMoves(r, st) ==
    /\ sup[r].worker = "on" /\ st \in Moves(r)
    /\ st \notin Closed => sup[r].rev < MaxRev

WorkerSave(r, st) ==
    /\ WorkerMoves(r, st) /\ AtRevision(sup[r].id, sup[r].rev)
    /\ Save(sup[r].id, sup[r].rev, st)
    /\ sup' = [sup EXCEPT ![r].st = st, ![r].rev = @ + 1, ![r].base = sup[r].rev + 1]
    /\ UNCHANGED <<claim, reserved, start, releases, look, upsets>>

(* Another writer was there: recordPersistenceFailure fails the same way   *)
(* and drops the run, or finds it terminal in memory and leaves it.        *)
WorkerConflict(r, st) ==
    /\ WorkerMoves(r, st) /\ ~AtRevision(sup[r].id, sup[r].rev)
    /\ \/ st \in Closed /\ sup' = [sup EXCEPT ![r].st = st] /\ UNCHANGED releases
       \/ st \notin Closed /\ Remove(r)
    /\ UNCHANGED <<turn, claim, reserved, start, look, upsets>>

(* recordPersistenceFailure, after a save of st failed, before or after    *)
(* its effect: the fallback from the committed run succeeds; or it fails   *)
(* too, before or after its effect, or conflicts, and the run is dropped.  *)
Fallback(r, st) ==
    LET n == sup[r].id
        base == sup[r].base IN
    \/ /\ \/ Save(n, sup[r].rev, st)
          \/ AtRevision(n, base) /\ Save(n, base, "finished")
          \/ UNCHANGED turn
       /\ Remove(r)
    \/ /\ AtRevision(n, base) /\ Save(n, base, "finished")
       /\ sup' = [sup EXCEPT ![r].st = "finished", ![r].rev = base + 1, ![r].base = base + 1,
                             ![r].worker = "on"]
       /\ UNCHANGED releases

(* A record that is terminal in memory is left as it is.                   *)
WorkerSaveFails(r, st) ==
    /\ WorkerMoves(r, st) /\ AtRevision(sup[r].id, sup[r].rev) /\ Upset
    /\ \/ /\ st \in Closed
          /\ Save(sup[r].id, sup[r].rev, st) \/ UNCHANGED turn
          /\ sup' = [sup EXCEPT ![r].st = st] /\ UNCHANGED releases
       \/ st \notin Closed /\ Fallback(r, st)
    /\ UNCHANGED <<claim, reserved, start, look>>

(* finish: a queued continuation takes over, a terminal run is removed.    *)
Finish(r) ==
    /\ sup[r].worker = "on" /\ sup[r].st \in Closed \cup {"pending"}
    /\ \/ sup[r].st = "pending" /\ UNCHANGED releases
          /\ sup' = [sup EXCEPT ![r].queued = FALSE,
                                ![r].worker = IF sup[r].queued THEN "resume" ELSE "none"]
       \/ sup[r].st \in Closed /\ Remove(r)
    /\ UNCHANGED <<turn, claim, reserved, start, look, upsets>>

-----------------------------------------------------------------------------
(* An answer resumes a paused run on r: attached again if r does not have  *)
(* it, queued if the paused segment is still returning.                    *)
ResumeHere(r) ==
    \/ sup[r].worker = "none" /\ sup' = [sup EXCEPT ![r].worker = "resume"]
    \/ /\ sup[r].worker = "on" /\ sup[r].st = "pending"
       /\ sup' = [sup EXCEPT ![r].queued = TRUE]
ResumeRun(r, n) ==
    /\ turn[n].st = "pending" /\ Upset
    /\ \/ sup[r].id = n /\ ResumeHere(r) /\ UNCHANGED <<claim, reserved>>
       \/ /\ sup[r].id = 0 /\ CanClaim(r)
          /\ sup' = [sup EXCEPT ![r] = [id |-> n, st |-> "pending", rev |-> turn[n].rev,
                                        base |-> turn[n].rev, worker |-> "resume", queued |-> FALSE]]
          /\ Claim(r, n)
          /\ reserved' = reserved \ {r}
    /\ UNCHANGED <<turn, start, releases, look>>

(* ClaimAssistantRun: pending to running, at the same revision.            *)
ClaimPending(r) ==
    LET n == sup[r].id IN
    /\ sup[r].worker = "resume"
    /\ \/ /\ turn[n].st = "pending"
          /\ turn' = [turn EXCEPT ![n].st = "running"]
          /\ sup' = [sup EXCEPT ![r].worker = "claimed", ![r].st = "running", ![r].rev = turn[n].rev]
       \/ /\ turn[n].st # "pending"
          /\ sup' = [sup EXCEPT ![r].worker = "on"]
          /\ UNCHANGED turn
    /\ UNCHANGED <<claim, reserved, start, releases, look, upsets>>

ClaimPendingSave(r) ==
    /\ sup[r].worker = "claimed"
    /\ \/ /\ AtRevision(sup[r].id, sup[r].rev)
          /\ Save(sup[r].id, sup[r].rev, "running")
          /\ sup' = [sup EXCEPT ![r].worker = "on", ![r].rev = @ + 1, ![r].base = sup[r].rev + 1]
          /\ UNCHANGED releases
       \/ ~AtRevision(sup[r].id, sup[r].rev) /\ Remove(r) /\ UNCHANGED turn
    /\ UNCHANGED <<claim, reserved, start, look, upsets>>

ClaimPendingSaveFails(r) ==
    /\ sup[r].worker = "claimed" /\ AtRevision(sup[r].id, sup[r].rev) /\ Upset
    /\ Fallback(r, "running")
    /\ UNCHANGED <<claim, reserved, start, look>>

(* Stop on the supervising replica; a paused run is aborted instead.       *)
StopRun(r) ==
    /\ sup[r].id # 0 /\ sup[r].st = "running" /\ sup[r].worker = "on" /\ Upset
    /\ \/ /\ AtRevision(sup[r].id, sup[r].rev) /\ turn[sup[r].id].st = "running"
          /\ Save(sup[r].id, sup[r].rev, "stopping")
          /\ sup' = [sup EXCEPT ![r].st = "stopping", ![r].rev = @ + 1, ![r].base = sup[r].rev + 1]
       \/ ~AtRevision(sup[r].id, sup[r].rev) /\ UNCHANGED <<turn, sup>>
    /\ UNCHANGED <<claim, reserved, start, releases, look>>

(* AbortWith: interrupted in memory first, then durably.                   *)
AbortRun(r) ==
    LET idle == sup[r].st = "pending" /\ sup[r].worker = "none" IN
    /\ sup[r].id # 0 /\ sup[r].st \in Waiting \cup {"pending"} /\ sup[r].worker # "claimed" /\ Upset
    /\ \/ /\ AtRevision(sup[r].id, sup[r].rev)
          /\ Save(sup[r].id, sup[r].rev, "interrupted")
          /\ \/ idle /\ Remove(r)
             \/ /\ ~idle /\ UNCHANGED releases
                /\ sup' = [sup EXCEPT ![r].st = "interrupted", ![r].rev = @ + 1, ![r].base = sup[r].rev + 1]
       \/ /\ ~AtRevision(sup[r].id, sup[r].rev)
          /\ sup' = [sup EXCEPT ![r].st = "interrupted"]
          /\ UNCHANGED <<turn, releases>>
    /\ UNCHANGED <<claim, reserved, start, look>>

-----------------------------------------------------------------------------
(* reconcileOrphanedProjectAssistantRun: a run that is open, not here, and *)
(* not claimed by name by a peer that heartbeats.                          *)
LooksOrphaned(r, n) ==
    /\ turn[n].st \in Waiting /\ r \notin reserved /\ sup[r].id # n
    /\ ~(claim.detail = n /\ claim.owner \notin {NoStudio, r} /\ claim.fresh)
Reconcile(r, n) ==
    /\ look[r].id = 0 /\ LooksOrphaned(r, n)
    /\ look' = [look EXCEPT ![r] = [id |-> n, rev |-> turn[n].rev]]
    /\ UNCHANGED <<turn, claim, sup, reserved, start, releases, upsets>>

InterruptNever(r) ==
    /\ look[r].id # 0
    /\ look' = [look EXCEPT ![r] = [id |-> 0, rev |-> 0]]
    /\ UNCHANGED <<turn, claim, sup, reserved, start, releases, upsets>>
InterruptOrphan(r) ==
    /\ look[r].id # 0
    /\ \/ AtRevision(look[r].id, look[r].rev) /\ Save(look[r].id, look[r].rev, "interrupted")
       \/ ~AtRevision(look[r].id, look[r].rev) /\ UNCHANGED turn
    /\ look' = [look EXCEPT ![r] = [id |-> 0, rev |-> 0]]
    /\ UNCHANGED <<claim, sup, reserved, start, releases, upsets>>

-----------------------------------------------------------------------------
(* renewActivityClaims, for what this replica supervises or reserves.      *)
Renews(r) == sup[r].id # 0 \/ r \in reserved
RenewClaim(r) ==
    /\ claim.owner = r /\ Renews(r) /\ ~claim.fresh
    /\ claim' = [claim EXCEPT !.fresh = TRUE]
    /\ UNCHANGED <<turn, sup, reserved, start, releases, look, upsets>>

(* assistantActivityClaimTTL passes without a heartbeat: nobody sends one, *)
(* or the replica stalls.                                                  *)
ClaimExpires ==
    /\ claim.owner # NoStudio /\ claim.fresh
    /\ \/ ~Renews(claim.owner) /\ UNCHANGED upsets
       \/ Renews(claim.owner) /\ Upset
    /\ claim' = [claim EXCEPT !.fresh = FALSE]
    /\ UNCHANGED <<turn, sup, reserved, start, releases, look>>

CrashStudio(r) ==
    /\ Upset
    /\ sup' = [sup EXCEPT ![r] = Detached]
    /\ reserved' = reserved \ {r}
    /\ start' = [start EXCEPT ![r] = [pc |-> "idle", id |-> 0]]
    /\ releases' = [releases EXCEPT ![r] = 0]
    /\ look' = [look EXCEPT ![r] = [id |-> 0, rev |-> 0]]
    /\ UNCHANGED <<turn, claim>>

-----------------------------------------------------------------------------
StartStep(r) ==
    (\E n \in Turns : CreateRun(r, n)) \/ AttachRun(r) \/ StartFails(r)
    \/ ReleaseReservation(r) \/ ReleaseHeld(r)
WorkerStep(r) ==
    \/ \E st \in Statuses : WorkerSave(r, st) \/ WorkerConflict(r, st) \/ WorkerSaveFails(r, st)
    \/ Finish(r) \/ ClaimPending(r) \/ ClaimPendingSave(r) \/ ClaimPendingSaveFails(r)
RequestStep(r) == (\E n \in Turns : ResumeRun(r, n)) \/ StopRun(r) \/ AbortRun(r)
ReconcileStep(r) == (\E n \in Turns : Reconcile(r, n)) \/ InterruptOrphan(r)

AssistantStep ==
    \/ \E r \in Studios :
          \/ StartStep(r) \/ WorkerStep(r) \/ RequestStep(r) \/ ReconcileStep(r)
          \/ ReleaseLate(r) \/ RenewClaim(r)
    \/ ClaimExpires
AssistantNext == AssistantStep \/ \E r \in Studios : Reserve(r) \/ CrashStudio(r)

(* A claim without a heartbeat gets old, requests and reconciliations go   *)
(* on, and the project is read again and again through every replica.      *)
AssistantFairness ==
    /\ WF_assistantVars(ClaimExpires)
    /\ \A r \in Studios :
          /\ WF_assistantVars(StartStep(r))
          /\ WF_assistantVars(InterruptOrphan(r))
          /\ SF_assistantVars(\E n \in Turns : Reconcile(r, n))

AssistantSpec == AssistantInit /\ [][AssistantNext]_assistantVars
AssistantFairSpec == AssistantSpec /\ AssistantFairness

-----------------------------------------------------------------------------
(* AdmitMutation: the last check before the worker of r writes to the      *)
(* project.                                                                *)
AdmitLocally(r) == sup[r].id # 0 /\ sup[r].st = "running"
AdmitMutation(r) ==
    sup[r].id # 0 /\ sup[r].st = "running" /\ turn[sup[r].id].st = "running"

(* "Exclusivity cannot be verified, so fail closed rather than risk two    *)
(* writers": never two replicas that would admit a mutation, though a      *)
(* stalled one may still supervise a run that its peers took for dead and  *)
(* replaced.                                                               *)
ExclusiveWriter == \A q, r \in Studios : AdmitMutation(q) /\ AdmitMutation(r) => q = r

(* "Terminal state is immutable" and a late snapshot "must not revive the  *)
(* run after its durable stop request has been accepted": whoever writes,  *)
(* with whatever stale revision.                                           *)
StatusMovesForward ==
    [][\A n \in Turns :
          /\ turn[n].st \in Closed => turn'[n] = turn[n]
          /\ turn[n].st = "stopping" => turn'[n].st \in Closed \cup {"stopping"}]_assistantVars

(* The rows as TurnLog has them, and the replicas that would write.        *)
Log == INSTANCE TurnLog
    WITH Writers <- Studios,
         log <- [n \in Turns |-> turn[n].st],
         writers <- {r \in Studios : AdmitMutation(r)}

(* The whole supervisor, with claims that expire under a stalled replica,  *)
(* reconciliations that close its run and conflicting snapshots, is a log  *)
(* of turns with one writer: turns open one after the other, none revives, *)
(* and the project passes from one writer to none before the next.         *)
ImplementsTurnLog == Log!Spec

(* An open run that no replica supervises or is starting is closed, so     *)
(* that the project takes new turns: the purpose of reconciliation.        *)
Owns(r, n) == sup[r].id = n \/ start[r] = [pc |-> "created", id |-> n]
Orphaned == \E n \in Turns : turn[n].st \in Waiting /\ \A r \in Studios : ~Owns(r, n)
OrphanIsClosed == []<>~Orphaned
==============================================================================
