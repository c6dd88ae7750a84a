------------------------------- MODULE AgentRuns -------------------------------
(***************************************************************************)
(* providers/agents: one run, its row in the store, and everyone who works *)
(* on it: the goroutines that execute it (executeTask, resumeRun), the     *)
(* recovery sweep of every replica, a cancel request.  No step holds a     *)
(* lock across the store: each GetRun ... SaveRun is two steps, and the    *)
(* save writes the whole row back.  Only ClaimRun is conditional.          *)
(*                                                                         *)
(* Runs share no state, so one is modelled.  Its updated_at is abstracted  *)
(* to recent: was it written within staleRunGrace?                         *)
(***************************************************************************)
EXTENDS Naturals

CONSTANTS
    Servers,              \* replicas of the agents provider
    MaxWorkers,           \* bound on goroutines that execute or resume the run
    MaxRecoveryAttempts,  \* maxRecoveryAttempts
    MaxGates,             \* bound on gated tool calls
    MaxEvents,            \* bound on what happens to the run: answers to approval
                          \* requests, cancels, slow turns, crashes, failed requests
    NoWorker              \* nothing registered

ASSUME AgentAssumption ==
    /\ {MaxWorkers, MaxRecoveryAttempts, MaxGates, MaxEvents} \subseteq Nat
    /\ MaxWorkers > 0 /\ Servers # {}
    /\ NoWorker \notin 1..MaxWorkers

VARIABLES
    run,         \* the row: phase, checkpoint, attempt
    recent,      \* the row was written within staleRunGrace
    job,         \* job[w]: a goroutine that executes or resumes the run
    live,        \* live[s]: the goroutine liveRuns of s knows for the run
    sweep,       \* sweep[s]: the recovery sweep of s, and the row it read
    cancel,      \* the cancel request, and the row it read
    gates, events,  \* counters for the bounds
    interfered,  \* a sweep or a cancel wrote the row while it was executing
    recovered,   \* history: the resumes that the sweep of each replica started
    uncounted    \* history: those whose count is missing or may be taken back

boundVars == <<gates, events>>
recoveryVars == <<recovered, uncounted>>
agentVars == <<run, recent, job, live, sweep, cancel, boundVars, interfered, recoveryVars>>

Workers == 1..MaxWorkers
Unfinished == {"Pending", "Running"}
Terminal == {"Succeeded", "Failed", "Aborted"}
Phases == {"none", "PendingApproval"} \cup Unfinished \cup Terminal
Rows == [phase : Phases, ck : {"none", "mid", "gate"}, attempt : Nat]
NoRow == [phase |-> "none", ck |-> "none", attempt |-> 0]
HomeServer == CHOOSE s \in Servers : TRUE

\* From the claim, or the start, to the last write.
Executing == {"begin", "registered", "load", "turn", "ckptSave", "pause", "pauseSave",
              "finish", "finishSave"}
(* Who has yet to save a whole row that it read, or will build, without    *)
(* looking at the row again.                                               *)
Saving == {"begin", "registered", "ckptSave", "pauseSave", "finishSave"}
Executors == {w \in Workers : job[w].pc \in Executing}

(* A goroutine: where it is, its replica, the phase it resumes from (none: *)
(* executeTask), the row it read and will write back, the phase it will    *)
(* record, whether its context is cancelled and its unregister deferred.   *)
Jobs == [pc : Executing \cup {"idle", "read", "claim", "leave"}, at : Servers,
         from : {"none", "PendingApproval", "Running"}, row : Rows, out : Terminal,
         canceled : BOOLEAN, entered : BOOLEAN]
IdleJob == [pc |-> "idle", at |-> HomeServer, from |-> "none", row |-> NoRow,
            out |-> "Failed", canceled |-> FALSE, entered |-> FALSE]
Sweeps == [pc : {"idle", "doomed", "resumable", "fail", "count"}, row : Rows]
IdleSweep == [pc |-> "idle", row |-> NoRow]
Cancels == [pc : {"idle", "checked", "stamp"}, at : Servers, row : Rows]
IdleCancel == [pc |-> "idle", at |-> HomeServer, row |-> NoRow]

(* Types, and: the registry of a replica names a goroutine of that replica *)
(* which has still to unregister.                                          *)
AgentRunTypeOK ==
    /\ run \in Rows /\ recent \in BOOLEAN
    /\ job \in [Workers -> Jobs]
    /\ live \in [Servers -> Workers \cup {NoWorker}]
    /\ sweep \in [Servers -> Sweeps] /\ cancel \in Cancels
    /\ gates \in 0..MaxGates /\ events \in 0..MaxEvents
    /\ interfered \in BOOLEAN
    /\ recovered \in [Servers -> Nat] /\ uncounted \in Nat
    /\ \A s \in Servers : live[s] # NoWorker => job[live[s]].entered /\ job[live[s]].at = s

AgentRunInit ==
    /\ run = NoRow /\ recent = TRUE
    /\ job = [w \in Workers |-> IdleJob]
    /\ live = [s \in Servers |-> NoWorker]
    /\ sweep = [s \in Servers |-> IdleSweep]
    /\ cancel = IdleCancel
    /\ gates = 0 /\ events = 0
    /\ interfered = FALSE
    /\ recovered = [s \in Servers |-> 0] /\ uncounted = 0

-----------------------------------------------------------------------------
Event == events < MaxEvents /\ events' = events + 1

(* The store.  A write through a cancelled context fails in Postgres and   *)
(* succeeds in the memory store; no caller of SaveRun here looks.          *)
SaveRun(w, row) ==
    \/ run' = row /\ recent' = TRUE /\ UNCHANGED events
    \/ job[w].canceled /\ UNCHANGED <<run, recent, events>>
    \/ Event /\ UNCHANGED <<run, recent>>

(* A write by somebody who is not executing the run.                       *)
Overwrite(row) ==
    /\ run' = row /\ recent' = TRUE
    /\ interfered' = (interfered \/ Executors # {})

(* finishRun: whatever the row says by now, the outcome is written.        *)
Finished(phase) == [run EXCEPT !.phase = phase, !.ck = "none"]

Step(w, l) == job' = [job EXCEPT ![w].pc = l]
Saved(w, l) == job' = [job EXCEPT ![w].pc = l, ![w].row = NoRow]
Returned(w) == job' = [job EXCEPT ![w] = IdleJob]

(* Which free goroutine takes a job is immaterial: the least.              *)
Spawn(s, l, phase) ==
    \E w \in Workers :
        /\ job[w].pc = "idle" /\ \A v \in Workers : v < w => job[v].pc # "idle"
        /\ job' = [job EXCEPT ![w] = [IdleJob EXCEPT !.pc = l, !.at = s, !.from = phase]]

(* GetRun and the row that will be saved; no row, no save.                 *)
GetRun(w, l, row) ==
    \/ run # NoRow /\ job' = [job EXCEPT ![w].pc = l, ![w].row = row, ![w].out = "Failed"]
    \/ (run = NoRow \/ job[w].canceled) /\ Step(w, "leave")

Register(w, l) ==
    /\ job' = [job EXCEPT ![w].pc = l, ![w].entered = TRUE]
    /\ live' = [live EXCEPT ![job[w].at] = w]

-----------------------------------------------------------------------------
(* executeTask.  A detached run has a Pending row before it starts; a chat *)
(* turn has none.  Replicas are interchangeable: it starts on HomeServer.  *)
StartRun ==
    /\ run = NoRow /\ \A w \in Workers : job[w].pc = "idle"
    /\ Spawn(HomeServer, "begin", "none")
    /\ run' \in {NoRow, [NoRow EXCEPT !.phase = "Pending"]}
    /\ UNCHANGED <<recent, live, sweep, cancel, boundVars, interfered, recoveryVars>>

(* Over budget, or no model: nothing is written.                           *)
TaskRefused(w) ==
    /\ job[w].pc = "begin"
    /\ Returned(w)
    /\ UNCHANGED <<run, recent, live, sweep, cancel, boundVars, interfered, recoveryVars>>

TaskRegister(w) ==
    /\ job[w].pc = "begin"
    /\ Register(w, "registered")
    /\ UNCHANGED <<run, recent, sweep, cancel, boundVars, interfered, recoveryVars>>

TaskRunning(w) ==
    /\ job[w].pc = "registered"
    /\ SaveRun(w, [NoRow EXCEPT !.phase = "Running"])
    /\ Step(w, "turn")
    /\ UNCHANGED <<live, sweep, cancel, gates, interfered, recoveryVars>>

(* checkpointRecorder, every few rounds of the turn.                       *)
CheckpointRead(w) ==
    /\ job[w].pc = "turn" /\ run.phase = "Running" /\ ~job[w].canceled
    /\ GetRun(w, "ckptSave", [run EXCEPT !.ck = "mid"])
    /\ UNCHANGED <<run, recent, live, sweep, cancel, boundVars, interfered, recoveryVars>>

CheckpointSave(w) ==
    /\ job[w].pc = "ckptSave"
    /\ SaveRun(w, job[w].row)
    /\ Saved(w, "turn")
    /\ UNCHANGED <<live, sweep, cancel, gates, interfered, recoveryVars>>

(* A gated call posts its approval request, then the run is paused.        *)
GatedCall(w) ==
    /\ job[w].pc = "turn" /\ gates < MaxGates
    /\ gates' = gates + 1
    /\ Step(w, "pause")
    /\ UNCHANGED <<run, recent, live, sweep, cancel, events, interfered, recoveryVars>>

PauseRead(w) ==
    /\ job[w].pc = "pause"
    /\ GetRun(w, "pauseSave", [run EXCEPT !.phase = "PendingApproval", !.ck = "gate"])
    /\ UNCHANGED <<run, recent, live, sweep, cancel, boundVars, interfered, recoveryVars>>

PauseSave(w) ==
    /\ job[w].pc = "pauseSave"
    /\ SaveRun(w, job[w].row)
    /\ Saved(w, "leave")
    /\ UNCHANGED <<live, sweep, cancel, gates, interfered, recoveryVars>>

(* The turn ends with an answer or an error; only executeTask looks        *)
(* whether the error is that of a cancelled context.                       *)
TurnEnds(w) ==
    /\ job[w].pc = "turn"
    /\ \E o \in {"Succeeded",
                 IF job[w].canceled /\ job[w].from = "none" THEN "Aborted" ELSE "Failed"} :
          job' = [job EXCEPT ![w].pc = "finish", ![w].out = o]
    /\ UNCHANGED <<run, recent, live, sweep, cancel, boundVars, interfered, recoveryVars>>

(* The time limit of the run passes, and with it its context.              *)
TurnTimesOut(w) ==
    /\ job[w].pc = "turn" /\ ~job[w].canceled /\ Event
    /\ job' = [job EXCEPT ![w].canceled = TRUE]
    /\ UNCHANGED <<run, recent, live, sweep, cancel, gates, interfered, recoveryVars>>

FinishRead(w) ==
    /\ job[w].pc = "finish"
    /\ GetRun(w, "finishSave", Finished(job[w].out))
    /\ UNCHANGED <<run, recent, live, sweep, cancel, boundVars, interfered, recoveryVars>>

FinishSave(w) ==
    /\ job[w].pc = "finishSave"
    /\ SaveRun(w, job[w].row)
    /\ Saved(w, "leave")
    /\ UNCHANGED <<live, sweep, cancel, gates, interfered, recoveryVars>>

(* The deferred unregister deletes the run's entry, whoever put it there.  *)
UnregisterMissed(w) ==
    /\ job[w].pc = "leave"
    /\ Returned(w)
    /\ UNCHANGED <<run, recent, live, sweep, cancel, boundVars, interfered, recoveryVars>>
Unregister(w) ==
    /\ job[w].pc = "leave"
    /\ Returned(w)
    /\ live' = IF job[w].entered THEN [live EXCEPT ![job[w].at] = NoWorker] ELSE live
    /\ UNCHANGED <<run, recent, sweep, cancel, boundVars, interfered, recoveryVars>>

-----------------------------------------------------------------------------
(* Somebody answers one of the approval requests, again perhaps: the item  *)
(* is resolved whatever its state, and a resume is started.                *)
Verdict(s) ==
    /\ gates > 0 /\ Event
    /\ Spawn(s, "read", "PendingApproval")
    /\ UNCHANGED <<run, recent, live, sweep, cancel, gates, interfered, recoveryVars>>

(* resumeRun.                                                              *)
ResumeRead(w) ==
    /\ job[w].pc = "read"
    /\ IF run.phase = job[w].from /\ run.ck # "none" THEN Step(w, "claim") ELSE Returned(w)
    /\ UNCHANGED <<run, recent, live, sweep, cancel, boundVars, interfered, recoveryVars>>

ClaimRunAlways(w) ==
    /\ job[w].pc = "claim"
    /\ run' = [run EXCEPT !.phase = "Running"] /\ recent' = TRUE
    /\ Step(w, "load")
    /\ UNCHANGED <<live, sweep, cancel, boundVars, interfered, recoveryVars>>
ClaimRun(w) ==
    /\ job[w].pc = "claim"
    /\ \/ /\ run.phase # "Running"
          /\ run' = [run EXCEPT !.phase = "Running"] /\ recent' = TRUE
          /\ Step(w, "load")
       \/ run.phase = "Running" /\ Returned(w) /\ UNCHANGED <<run, recent>>
    /\ UNCHANGED <<live, sweep, cancel, boundVars, interfered, recoveryVars>>

ResumeRegister(w) ==
    /\ job[w].pc = "load"
    /\ Register(w, "turn")
    /\ UNCHANGED <<run, recent, sweep, cancel, boundVars, interfered, recoveryVars>>

(* failResume: the agent or its model cannot be loaded.                    *)
ResumeFails(w) ==
    /\ job[w].pc = "load"
    /\ Step(w, "finish")
    /\ UNCHANGED <<run, recent, live, sweep, cancel, boundVars, interfered, recoveryVars>>

-----------------------------------------------------------------------------
(* sweepStaleRuns on s: the list, then recoverRun, which judges the run by *)
(* the row the list returned.                                              *)
SetSweep(s, l, row) == sweep' = [sweep EXCEPT ![s] = [pc |-> l, row |-> row]]
Listed(s) == sweep[s].pc \in {"doomed", "resumable"}

UncappedResumable == run.ck # "none" /\ run.attempt <= MaxRecoveryAttempts
Resumable == run.ck # "none" /\ run.attempt < MaxRecoveryAttempts

SweepListRunning(s) ==
    /\ sweep[s].pc = "idle" /\ ~recent /\ run.phase = "Running"
    /\ SetSweep(s, IF Resumable THEN "resumable" ELSE "doomed", NoRow)
    /\ UNCHANGED <<run, recent, job, live, cancel, boundVars, interfered, recoveryVars>>
SweepList(s) ==
    /\ sweep[s].pc = "idle" /\ ~recent /\ run.phase \in Unfinished
    /\ SetSweep(s, IF Resumable THEN "resumable" ELSE "doomed", NoRow)
    /\ UNCHANGED <<run, recent, job, live, cancel, boundVars, interfered, recoveryVars>>

Executes(s) == live[s] # NoWorker
SweepSkip(s) ==
    /\ Listed(s) /\ Executes(s)
    /\ SetSweep(s, "idle", NoRow)
    /\ UNCHANGED <<run, recent, job, live, cancel, boundVars, interfered, recoveryVars>>

(* The workspace of a run that could be resumed may be gone too, or the    *)
(* attempt cannot be recorded.                                             *)
SweepFail(s) ==
    /\ \/ sweep[s].pc = "doomed" /\ ~Executes(s) /\ UNCHANGED events
       \/ sweep[s].pc = "resumable" /\ ~Executes(s) /\ Event
       \/ sweep[s].pc = "count" /\ Event
    /\ SetSweep(s, "fail", Finished("Failed"))
    /\ UNCHANGED <<run, recent, job, live, cancel, gates, interfered, recoveryVars>>

SweepFailSave(s) ==
    /\ sweep[s].pc = "fail"
    /\ Overwrite(sweep[s].row)
    /\ SetSweep(s, "idle", NoRow)
    /\ UNCHANGED <<job, live, cancel, boundVars, recoveryVars>>

(* resumeRecoveredRun: count the attempt, then start the resume.           *)
SweepCount(s) ==
    /\ sweep[s].pc = "resumable" /\ ~Executes(s)
    /\ SetSweep(s, "count", [run EXCEPT !.attempt = @ + 1])
    /\ UNCHANGED <<run, recent, job, live, cancel, boundVars, interfered, recoveryVars>>

(* Somebody is about to save a row that was read, or built, earlier.       *)
CopyHeld ==
    \/ \E w \in Workers : job[w].pc \in Saving
    \/ \E t \in Servers : sweep[t].pc = "fail"
    \/ cancel.pc = "stamp"
Recovers(s, n) ==
    /\ recovered' = [recovered EXCEPT ![s] = @ + 1]
    /\ uncounted' = uncounted + n

SweepResume(s) ==
    /\ sweep[s].pc = "count"
    /\ Spawn(s, "read", "Running")
    /\ Overwrite(sweep[s].row)
    /\ SetSweep(s, "idle", NoRow)
    /\ Recovers(s, IF CopyHeld THEN 1 ELSE 0)
    /\ UNCHANGED <<live, cancel, boundVars>>

(* The GetRun of the count failed: the resume is started uncounted.        *)
SweepUncounted(s) ==
    /\ sweep[s].pc = "resumable" /\ ~Executes(s) /\ Event
    /\ Spawn(s, "read", "Running")
    /\ SetSweep(s, "idle", NoRow)
    /\ Recovers(s, 1)
    /\ UNCHANGED <<run, recent, live, cancel, gates, interfered>>

-----------------------------------------------------------------------------
(* cancelRun on s: GetRun, cancel a run that is live here or stamp the row.*)
CancelCheck(s) ==
    /\ cancel.pc = "idle" /\ Event
    /\ run.phase \in Unfinished \cup {"PendingApproval"}
    /\ cancel' = [IdleCancel EXCEPT !.pc = "checked", !.at = s]
    /\ UNCHANGED <<run, recent, job, live, sweep, gates, interfered, recoveryVars>>

CancelLive ==
    /\ cancel.pc = "checked" /\ Executes(cancel.at)
    /\ job' = [job EXCEPT ![live[cancel.at]].canceled = TRUE]
    /\ cancel' = IdleCancel
    /\ UNCHANGED <<run, recent, live, sweep, boundVars, interfered, recoveryVars>>

CancelStamp ==
    /\ cancel.pc = "checked" /\ ~Executes(cancel.at)
    /\ cancel' = [cancel EXCEPT !.pc = "stamp", !.row = Finished("Aborted")]
    /\ UNCHANGED <<run, recent, job, live, sweep, boundVars, interfered, recoveryVars>>

CancelSave ==
    /\ cancel.pc = "stamp"
    /\ Overwrite(cancel.row)
    /\ cancel' = IdleCancel
    /\ UNCHANGED <<job, live, sweep, boundVars, recoveryVars>>

-----------------------------------------------------------------------------
(* staleRunGrace passes without a write.  A few store requests in a row    *)
(* take less than that; a start, a load, a turn and a batch may take more. *)
Settled ==
    /\ \A w \in Workers : job[w].pc \in {"idle", "begin", "registered", "load", "turn", "leave"}
    /\ \A s \in Servers : sweep[s].pc \in {"idle", "doomed", "resumable"}
    /\ cancel = IdleCancel
Age ==
    /\ recent /\ run.phase \in Unfinished /\ Settled
    /\ recent' = FALSE
    /\ \/ Executors = {} /\ UNCHANGED events
       \/ Executors # {} /\ Event
    /\ UNCHANGED <<run, job, live, sweep, cancel, gates, interfered, recoveryVars>>

(* The replica dies, and is started again with an empty registry.          *)
CrashServer(s) ==
    /\ Event
    /\ job' = [w \in Workers |-> IF job[w].at = s THEN IdleJob ELSE job[w]]
    /\ live' = [live EXCEPT ![s] = NoWorker]
    /\ sweep' = [sweep EXCEPT ![s] = IdleSweep]
    /\ cancel' = IF cancel.at = s THEN IdleCancel ELSE cancel
    /\ UNCHANGED <<run, recent, gates, interfered, recoveryVars>>

TaskStep(w) ==
    \/ TaskRefused(w) \/ TaskRegister(w) \/ TaskRunning(w) \/ CheckpointRead(w)
    \/ CheckpointSave(w) \/ GatedCall(w) \/ PauseRead(w) \/ PauseSave(w)
    \/ TurnEnds(w) \/ FinishRead(w) \/ FinishSave(w) \/ Unregister(w)
ResumeStep(w) == ResumeRead(w) \/ ClaimRun(w) \/ ResumeRegister(w) \/ ResumeFails(w)
SweepRuns(s) ==
    \/ SweepList(s) \/ SweepSkip(s) \/ SweepFail(s) \/ SweepFailSave(s)
    \/ SweepCount(s) \/ SweepResume(s) \/ SweepUncounted(s)
CancelStep == CancelLive \/ CancelStamp \/ CancelSave

AgentRunStep ==
    \/ \E w \in Workers : TaskStep(w) \/ ResumeStep(w) \/ TurnTimesOut(w)
    \/ \E s \in Servers : SweepRuns(s) \/ Verdict(s) \/ CancelCheck(s)
    \/ CancelStep \/ Age
AgentRunNext == AgentRunStep \/ StartRun \/ \E s \in Servers : CrashServer(s)

(* Goroutines and the scheduler's tick go on.  A turn ends: its iterations *)
(* and its wall clock are limited.                                         *)
AgentFairness ==
    /\ WF_agentVars(Age) /\ WF_agentVars(CancelStep)
    /\ \A w \in Workers :
          /\ WF_agentVars(TaskStep(w) \/ ResumeStep(w))
          /\ SF_agentVars(TurnEnds(w))
    /\ \A s \in Servers : WF_agentVars(SweepRuns(s))

AgentRunSpec == AgentRunInit /\ [][AgentRunNext]_agentVars
AgentRunFairSpec == AgentRunSpec /\ AgentFairness

-----------------------------------------------------------------------------
(* "Claim so only one resolver resumes (double /approve, portal +          *)
(* channel)": however many answers and sweeps race, two goroutines never   *)
(* execute the run, unless a sweep or a cancel that could not see the      *)
(* execution took the row away under it.                                   *)
ExclusiveExecution ==
    ~interfered => \A v, w \in Executors : v = w

(* "Caps how many times a run may be recovered": the sweep of a replica    *)
(* starts at most MaxRecoveryAttempts recoveries, although overlapping     *)
(* sweeps read the same attempt and store one count for two resumes, and   *)
(* one more for each resume whose count could not be made, or was made     *)
(* while somebody held an older copy of the row to write back over it.     *)
RecoveriesBounded ==
    \A s \in Servers : recovered[s] <= MaxRecoveryAttempts + uncounted

(* The sweep exists so that no row is "stuck in Running until someone      *)
(* notices": a run that is Pending or Running comes to an end or to a      *)
(* person, whichever replica crashes and whichever write is lost.          *)
RunNeverStuck ==
    run.phase \in Unfinished ~> run.phase \notin Unfinished

(* "With a checkpoint they are re-queued for resume": a run that its       *)
(* replica dropped after a checkpoint is executed again.                   *)
Stranded ==
    /\ run.phase = "Running" /\ run.ck = "mid" /\ run.attempt = 0
    /\ Executors = {}
StrandedRunResumes == Stranded ~> Executors # {}
=================================================================================
