---------------------------- MODULE AgentRunsProofs ----------------------------
(***************************************************************************)
(* For any number of replicas, goroutines, gates and recovery attempts:    *)
(* ClaimRun keeps the execution of a run exclusive as long as nobody       *)
(* writes its row from outside, and the sweep of a replica starts no more  *)
(* recoveries than the cap, but for those it could not count (Counted,     *)
(* below).                                                                 *)
(*                                                                         *)
(* RowGuards says why execution is exclusive: while somebody executes the  *)
(* run the row says Running, and ClaimRun refuses; or the row does not say *)
(* so yet (the first save is still to come, or was lost), and then nobody  *)
(* has got as far as ClaimRun.  A checkpoint in flight must not undo this: *)
(* the row it will write back was read as Running (CheckpointsRunning).    *)
(***************************************************************************)
EXTENDS AgentRuns, TLAPS

USE DEF recoveryVars

(* Nobody is registered before it has taken on the run, and only a resume  *)
(* reads before it claims.                                                 *)
EnteredLate ==
    \A w \in Workers :
        /\ job[w].pc \in {"idle", "begin", "read", "claim"} => ~job[w].entered
        /\ job[w].pc = "read" => job[w].from # "none"

CheckpointsRunning ==
    \A w \in Workers : job[w].pc = "ckptSave" => job[w].row.phase = "Running"

RowGuards ==
    ~interfered /\ Executors # {} =>
        \/ run.phase = "Running"
        \/ run.phase \in {"none", "Pending"} /\ \A v \in Workers : job[v].pc # "claim"

Inductive == AgentRunTypeOK /\ EnteredLate
Guarded == CheckpointsRunning /\ RowGuards /\ ExclusiveExecution

LEMMA HomeIsServer == HomeServer \in Servers
  BY AgentAssumption DEF HomeServer

LEMMA RowTypes ==
    /\ NoRow \in Rows /\ IdleJob \in Jobs
    /\ IdleSweep \in Sweeps /\ IdleCancel \in Cancels
  BY HomeIsServer DEF NoRow, Rows, Phases, Unfinished, Terminal, IdleJob, Jobs, Executing,
     IdleSweep, Sweeps, IdleCancel, Cancels

LEMMA InitInductive == AgentRunInit => Inductive
<1> SUFFICES ASSUME AgentRunInit PROVE Inductive OBVIOUS
<1> USE AgentAssumption, RowTypes DEF AgentRunInit
<1>1. AgentRunTypeOK
  <2>1. MaxGates \in Nat /\ MaxEvents \in Nat OBVIOUS
  <2>2. 0 \in 0..MaxGates /\ 0 \in 0..MaxEvents BY <2>1
  <2> QED BY <2>2 DEF AgentRunTypeOK
<1>2. EnteredLate BY DEF EnteredLate, IdleJob
<1> QED BY <1>1, <1>2 DEF Inductive

(* Rows that are derived from the stored one.                              *)
LEMMA RowEdits ==
    ASSUME run \in Rows
    PROVE  /\ \A p \in Phases : Finished(p) \in Rows /\ [run EXCEPT !.phase = p] \in Rows
           /\ \A p \in Phases, c \in {"none", "mid", "gate"} :
                 [run EXCEPT !.phase = p, !.ck = c] \in Rows
           /\ \A c \in {"none", "mid", "gate"} : [run EXCEPT !.ck = c] \in Rows
           /\ [run EXCEPT !.attempt = @ + 1] \in Rows
           /\ \A p \in Phases : [NoRow EXCEPT !.phase = p] \in Rows
<1> USE DEF Rows
<1>1. \A p \in Phases : Finished(p) \in Rows BY DEF Finished
<1>2. \A p \in Phases : [run EXCEPT !.phase = p] \in Rows OBVIOUS
<1>3. \A p \in Phases, c \in {"none", "mid", "gate"} : [run EXCEPT !.phase = p, !.ck = c] \in Rows
  OBVIOUS
<1>4. \A c \in {"none", "mid", "gate"} : [run EXCEPT !.ck = c] \in Rows OBVIOUS
<1>5. [run EXCEPT !.attempt = @ + 1] \in Rows OBVIOUS
<1>6. \A p \in Phases : [NoRow EXCEPT !.phase = p] \in Rows
  BY DEF NoRow
<1> QED BY <1>1, <1>2, <1>3, <1>4, <1>5, <1>6

(* e is the goroutine j after a step to l: its replica and its place in    *)
(* the registry are what they were.                                        *)
Busy == (Executing \ {"begin"}) \cup {"leave"}
Moved(j, e, l) == e \in Jobs /\ e.pc = l /\ e.entered = j.entered /\ e.at = j.at

LEMMA JobEdits ==
    ASSUME NEW j \in Jobs, NEW l \in Busy
    PROVE  /\ Moved(j, [j EXCEPT !.pc = l], l)
           /\ \A q \in Rows : Moved(j, [j EXCEPT !.pc = l, !.row = q], l)
           /\ \A q \in Rows : Moved(j, [j EXCEPT !.pc = l, !.row = q, !.out = "Failed"], l)
           /\ \A o \in Terminal : Moved(j, [j EXCEPT !.pc = l, !.out = o], l)
           /\ [j EXCEPT !.pc = l, !.entered = TRUE] \in Jobs
<1> USE DEF Moved, Jobs, Busy
<1>1. Moved(j, [j EXCEPT !.pc = l], l) OBVIOUS
<1>2. \A q \in Rows : Moved(j, [j EXCEPT !.pc = l, !.row = q], l) OBVIOUS
<1>3. \A q \in Rows : Moved(j, [j EXCEPT !.pc = l, !.row = q, !.out = "Failed"], l)
  BY DEF Terminal
<1>4. \A o \in Terminal : Moved(j, [j EXCEPT !.pc = l, !.out = o], l) OBVIOUS
<1>5. [j EXCEPT !.pc = l, !.entered = TRUE] \in Jobs OBVIOUS
<1> QED BY <1>1, <1>2, <1>3, <1>4, <1>5

LEMMA Bounds == MaxGates \in Nat /\ MaxEvents \in Nat
  BY AgentAssumption

LEMMA EventCounts == ASSUME events \in 0..MaxEvents, Event PROVE events' \in 0..MaxEvents
  BY Bounds DEF Event

LEMMA SaveTypes ==
    ASSUME Inductive, NEW w \in Workers, NEW q \in Rows, SaveRun(w, q)
    PROVE  run' \in Rows /\ recent' \in BOOLEAN /\ events' \in 0..MaxEvents
  BY EventCounts DEF Inductive, AgentRunTypeOK, SaveRun

(* A step of one goroutine that touches neither registry, sweep nor cancel.*)
LEMMA JobStep ==
    ASSUME Inductive, NEW w \in Workers, NEW j \in Jobs, job' = [job EXCEPT ![w] = j],
           j.pc \in {"idle", "begin", "read", "claim"} => ~j.entered,
           j.pc = "read" => j.from # "none",
           job[w].entered => j.entered /\ j.at = job[w].at,
           run' \in Rows, recent' \in BOOLEAN, UNCHANGED <<live, sweep, cancel, interfered, recoveryVars>>,
           gates' \in 0..MaxGates, events' \in 0..MaxEvents
    PROVE  Inductive'
<1> USE DEF Inductive, AgentRunTypeOK
<1>1. job' \in [Workers -> Jobs] /\ EnteredLate'
  BY DEF EnteredLate
<1>2. \A s \in Servers : live'[s] # NoWorker => job'[live'[s]].entered /\ job'[live'[s]].at = s
  OBVIOUS
<1> QED BY <1>1, <1>2

LEMMA BusyStep ==
    ASSUME Inductive, NEW w \in Workers, NEW l \in Busy, NEW e, Moved(job[w], e, l),
           job' = [job EXCEPT ![w] = e],
           run' \in Rows, recent' \in BOOLEAN, UNCHANGED <<live, sweep, cancel, interfered, recoveryVars>>,
           gates' \in 0..MaxGates, events' \in 0..MaxEvents
    PROVE  Inductive'
  BY JobStep DEF Moved, Busy, Executing

(* GetRun only moves the goroutine.                                        *)
LEMMA GetRunMoves ==
    ASSUME Inductive, NEW w \in Workers, NEW l \in Busy, NEW q \in Rows, GetRun(w, l, q),
           UNCHANGED <<run, recent, live, sweep, cancel, boundVars, interfered, recoveryVars>>
    PROVE  Inductive'
<1>0. /\ job[w] \in Jobs /\ run \in Rows /\ recent \in BOOLEAN
      /\ gates \in 0..MaxGates /\ events \in 0..MaxEvents
  BY DEF Inductive, AgentRunTypeOK
<1>1. CASE job' = [job EXCEPT ![w].pc = l, ![w].row = q, ![w].out = "Failed"]
  <2> DEFINE e == [job[w] EXCEPT !.pc = l, !.row = q, !.out = "Failed"]
  <2>1. Moved(job[w], e, l) BY <1>0, JobEdits
  <2>2. job' = [job EXCEPT ![w] = e] BY <1>1
  <2> HIDE DEF e
  <2> QED BY <1>0, <2>1, <2>2, BusyStep DEF boundVars
<1>2. CASE Step(w, "leave")
  <2> DEFINE e == [job[w] EXCEPT !.pc = "leave"]
  <2>1. "leave" \in Busy BY DEF Busy
  <2>2. Moved(job[w], e, "leave") BY <1>0, <2>1, JobEdits
  <2>3. job' = [job EXCEPT ![w] = e] BY <1>2 DEF Step
  <2> HIDE DEF e
  <2> QED BY <1>0, <2>1, <2>2, <2>3, BusyStep DEF boundVars
<1> QED BY <1>1, <1>2 DEF GetRun

(* SaveRun, then the goroutine goes on without the row it read.            *)
LEMMA SaveMoves ==
    ASSUME Inductive, NEW w \in Workers, NEW l \in Busy, NEW q \in Rows, SaveRun(w, q),
           Step(w, l) \/ Saved(w, l), UNCHANGED <<live, sweep, cancel, gates, interfered, recoveryVars>>
    PROVE  Inductive'
<1>0. job[w] \in Jobs /\ gates \in 0..MaxGates
  BY DEF Inductive, AgentRunTypeOK
<1>1. run' \in Rows /\ recent' \in BOOLEAN /\ events' \in 0..MaxEvents
  BY SaveTypes
<1>2. PICK e : Moved(job[w], e, l) /\ job' = [job EXCEPT ![w] = e]
  <2>1. CASE Step(w, l)
    BY <1>0, <2>1, JobEdits DEF Step
  <2>2. CASE Saved(w, l)
    BY <1>0, <2>2, JobEdits, RowTypes DEF Saved
  <2> QED BY <2>1, <2>2
<1> QED BY <1>0, <1>1, <1>2, BusyStep

(* executeTask.                                                            *)
LEMMA TaskInductive == ASSUME Inductive, NEW w \in Workers, TaskStep(w) PROVE Inductive'
<1>0. /\ job[w] \in Jobs /\ job[w].row \in Rows /\ job[w].out \in Terminal /\ run \in Rows
      /\ gates \in 0..MaxGates /\ events \in 0..MaxEvents /\ recent \in BOOLEAN
  BY DEF Inductive, AgentRunTypeOK, Jobs
<1> USE <1>0, RowTypes DEF Busy, Executing
<1>1. CASE TaskRefused(w)
  <2>1. job' = [job EXCEPT ![w] = IdleJob] /\ ~job[w].entered /\ ~IdleJob.entered /\ IdleJob.pc = "idle"
    BY <1>1 DEF TaskRefused, Returned, Inductive, EnteredLate, IdleJob
  <2> QED BY <1>1, <2>1, JobStep DEF TaskRefused, boundVars
<1>2. CASE TaskRegister(w)
  <2>1. [job[w] EXCEPT !.pc = "registered", !.entered = TRUE] \in Jobs BY JobEdits
  <2> QED
    BY <1>2, <2>1 DEF TaskRegister, Register, boundVars, Inductive, AgentRunTypeOK, EnteredLate, Jobs
<1>3. CASE TaskRunning(w)
  <2>1. [NoRow EXCEPT !.phase = "Running"] \in Rows
    BY RowEdits DEF Phases, Unfinished
  <2> QED BY <1>3, <2>1, SaveMoves DEF TaskRunning
<1>4. CASE CheckpointRead(w)
  <2>1. [run EXCEPT !.ck = "mid"] \in Rows BY RowEdits
  <2> QED BY <1>4, <2>1, GetRunMoves DEF CheckpointRead
<1>5. CASE CheckpointSave(w)
  BY <1>5, SaveMoves DEF CheckpointSave
<1>6. CASE GatedCall(w)
  <2>1. gates' \in 0..MaxGates BY <1>6, Bounds DEF GatedCall
  <2>2. Moved(job[w], [job[w] EXCEPT !.pc = "pause"], "pause") BY JobEdits
  <2> QED BY <1>6, <2>1, <2>2, BusyStep DEF GatedCall, Step
<1>7. CASE PauseRead(w)
  <2>1. [run EXCEPT !.phase = "PendingApproval", !.ck = "gate"] \in Rows
    BY RowEdits DEF Phases
  <2> QED BY <1>7, <2>1, GetRunMoves DEF PauseRead
<1>8. CASE PauseSave(w)
  BY <1>8, SaveMoves DEF PauseSave
<1>9. CASE TurnEnds(w)
  <2>1. PICK o \in Terminal : job' = [job EXCEPT ![w].pc = "finish", ![w].out = o]
    BY <1>9 DEF TurnEnds, Terminal
  <2> DEFINE e == [job[w] EXCEPT !.pc = "finish", !.out = o]
  <2>2. Moved(job[w], e, "finish") BY JobEdits
  <2>3. job' = [job EXCEPT ![w] = e] BY <2>1
  <2> HIDE DEF e
  <2> QED BY <1>9, <2>2, <2>3, BusyStep DEF TurnEnds, boundVars
<1>10. CASE FinishRead(w)
  <2>1. Finished(job[w].out) \in Rows BY RowEdits DEF Phases
  <2> QED BY <1>10, <2>1, GetRunMoves DEF FinishRead
<1>11. CASE FinishSave(w)
  BY <1>11, SaveMoves DEF FinishSave
<1>12. CASE Unregister(w)
  <2> USE DEF Inductive, AgentRunTypeOK
  <2>1. job' = [job EXCEPT ![w] = IdleJob] /\ ~IdleJob.entered /\ IdleJob.pc = "idle" /\ job[w].at \in Servers
    BY <1>12 DEF Unregister, Returned, IdleJob, Jobs
  <2>2. job' \in [Workers -> Jobs] /\ EnteredLate' BY <2>1 DEF EnteredLate
  <2>3. live' \in [Servers -> Workers \cup {NoWorker}] /\ \A s \in Servers : live'[s] # w
    BY <1>12, <2>1, AgentAssumption DEF Unregister, Workers
  <2>4. \A s \in Servers : live'[s] # NoWorker => live'[s] = live[s]
    BY <1>12, <2>1 DEF Unregister
  <2>5. \A s \in Servers : live'[s] # NoWorker => job'[live'[s]].entered /\ job'[live'[s]].at = s
    BY <2>1, <2>3, <2>4
  <2> QED BY <1>12, <2>2, <2>3, <2>5 DEF Unregister, boundVars
<1> QED
  BY <1>1, <1>2, <1>3, <1>4, <1>5, <1>6, <1>7, <1>8, <1>9, <1>10, <1>11, <1>12 DEF TaskStep

(* resumeRun, up to the turn.                                              *)
LEMMA ResumeInductive == ASSUME Inductive, NEW w \in Workers, ResumeStep(w) PROVE Inductive'
<1>0. /\ job[w] \in Jobs /\ run \in Rows /\ recent \in BOOLEAN
      /\ gates \in 0..MaxGates /\ events \in 0..MaxEvents
  BY DEF Inductive, AgentRunTypeOK
<1> USE <1>0, RowTypes DEF Busy, Executing
<1>1. ASSUME job[w].pc \in {"read", "claim"}, Returned(w),
             UNCHANGED <<run, recent, live, sweep, cancel, boundVars, interfered, recoveryVars>>
      PROVE  Inductive'
  <2>1. job' = [job EXCEPT ![w] = IdleJob] /\ ~job[w].entered /\ ~IdleJob.entered /\ IdleJob.pc = "idle"
    BY <1>1 DEF Returned, Inductive, EnteredLate, IdleJob
  <2> QED BY <1>1, <2>1, JobStep DEF boundVars
<1>2. ASSUME job[w].pc = "read", Step(w, "claim"),
             UNCHANGED <<run, recent, live, sweep, cancel, boundVars, interfered, recoveryVars>>
      PROVE  Inductive'
  <2> DEFINE e == [job[w] EXCEPT !.pc = "claim"]
  <2>1. /\ e \in Jobs /\ job' = [job EXCEPT ![w] = e] /\ ~e.entered /\ ~job[w].entered
        /\ e.pc = "claim"
    BY <1>2 DEF Step, Inductive, EnteredLate, Jobs
  <2> HIDE DEF e
  <2> QED BY <1>2, <2>1, JobStep DEF boundVars
<1>3. CASE ResumeRead(w)
  BY <1>1, <1>2, <1>3 DEF ResumeRead
<1>4. CASE ClaimRun(w)
  <2>1. CASE run.phase # "Running"
    <3> DEFINE e == [job[w] EXCEPT !.pc = "load"]
    <3>1. Moved(job[w], e, "load") BY JobEdits
    <3>2. job' = [job EXCEPT ![w] = e] BY <1>4, <2>1 DEF ClaimRun, Step
    <3>3. run' \in Rows BY <1>4, <2>1, RowEdits DEF ClaimRun, Phases, Unfinished
    <3> HIDE DEF e
    <3> QED BY <1>4, <2>1, <3>1, <3>2, <3>3, BusyStep DEF ClaimRun, boundVars
  <2> QED BY <1>1, <1>4, <2>1 DEF ClaimRun
<1>5. CASE ResumeRegister(w)
  <2>1. [job[w] EXCEPT !.pc = "turn", !.entered = TRUE] \in Jobs BY JobEdits
  <2> QED
    BY <1>5, <2>1 DEF ResumeRegister, Register, boundVars, Inductive, AgentRunTypeOK, EnteredLate, Jobs
<1>6. CASE ResumeFails(w)
  <2> DEFINE e == [job[w] EXCEPT !.pc = "finish"]
  <2>1. Moved(job[w], e, "finish") /\ job' = [job EXCEPT ![w] = e]
    BY <1>6, JobEdits DEF ResumeFails, Step
  <2> HIDE DEF e
  <2> QED BY <1>6, <2>1, BusyStep DEF ResumeFails, boundVars
<1> QED BY <1>3, <1>4, <1>5, <1>6 DEF ResumeStep

(* A new goroutine.                                                        *)
LEMMA Spawned ==
    ASSUME Inductive, NEW s \in Servers, NEW l \in {"begin", "read"},
           NEW p \in {"none", "PendingApproval", "Running"}, Spawn(s, l, p)
    PROVE  \E w \in Workers, j \in Jobs :
              /\ job[w].pc = "idle" /\ job' = [job EXCEPT ![w] = j]
              /\ ~job[w].entered /\ ~j.entered /\ j.pc = l /\ j.row = NoRow /\ j.from = p
<1>1. PICK w \in Workers :
         /\ job[w].pc = "idle"
         /\ job' = [job EXCEPT ![w] = [IdleJob EXCEPT !.pc = l, !.at = s, !.from = p]]
  BY DEF Spawn
<1> DEFINE j == [IdleJob EXCEPT !.pc = l, !.at = s, !.from = p]
<1>2. j \in Jobs /\ ~j.entered /\ j.pc = l /\ j.row = NoRow /\ j.from = p
  BY RowTypes DEF Jobs, IdleJob, Executing
<1>3. ~job[w].entered
  BY <1>1 DEF Inductive, EnteredLate
<1> QED BY <1>1, <1>2, <1>3

(* The start of the run, and the answers to its approval requests.         *)
LEMMA StartInductive ==
    ASSUME Inductive, StartRun \/ \E s \in Servers : Verdict(s)
    PROVE  Inductive'
<1>0. /\ run \in Rows /\ recent \in BOOLEAN
      /\ gates \in 0..MaxGates /\ events \in 0..MaxEvents
  BY DEF Inductive, AgentRunTypeOK
<1>1. CASE StartRun
  <2>1. PICK w \in Workers, j \in Jobs :
           /\ job' = [job EXCEPT ![w] = j] /\ ~job[w].entered /\ ~j.entered /\ j.pc = "begin"
    BY <1>1, HomeIsServer, Spawned DEF StartRun
  <2>2. [NoRow EXCEPT !.phase = "Pending"] \in Rows
    BY <1>0, RowEdits DEF Phases, Unfinished
  <2>3. run' \in Rows
    BY <1>1, <2>2, RowTypes DEF StartRun
  <2> QED BY <1>0, <1>1, <2>1, <2>3, JobStep DEF StartRun, boundVars
<1>2. ASSUME NEW s \in Servers, Verdict(s) PROVE Inductive'
  <2>1. PICK w \in Workers, j \in Jobs :
           /\ job' = [job EXCEPT ![w] = j] /\ ~job[w].entered /\ ~j.entered
           /\ j.from # "none"
    BY <1>2, Spawned DEF Verdict
  <2>2. events' \in 0..MaxEvents BY <1>0, <1>2, EventCounts DEF Verdict
  <2> QED BY <1>0, <1>2, <2>1, <2>2, JobStep DEF Verdict
<1> QED BY <1>1, <1>2

(* A step of a sweep, of the cancel request or of the clock that leaves    *)
(* the goroutines and the registry alone.                                  *)
LEMMA OutsideStep ==
    ASSUME Inductive, UNCHANGED <<job, live, gates, recoveryVars>>,
           run' \in Rows, recent' \in BOOLEAN, interfered' \in BOOLEAN,
           sweep' \in [Servers -> Sweeps], cancel' \in Cancels, events' \in 0..MaxEvents
    PROVE  Inductive'
  BY DEF Inductive, AgentRunTypeOK, EnteredLate

LEMMA SweepSet ==
    ASSUME Inductive, NEW s \in Servers, NEW q \in Rows,
           NEW l \in {"idle", "doomed", "resumable", "fail", "count"}, SetSweep(s, l, q)
    PROVE  sweep' \in [Servers -> Sweeps]
<1>1. [pc |-> l, row |-> q] \in Sweeps BY DEF Sweeps
<1> QED BY <1>1 DEF Inductive, AgentRunTypeOK, SetSweep

LEMMA Recovering ==
    ASSUME Inductive, NEW s \in Servers, NEW n \in Nat, Recovers(s, n)
    PROVE  recovered' \in [Servers -> Nat] /\ uncounted' \in Nat
  BY DEF Inductive, AgentRunTypeOK, Recovers

(* sweepStaleRuns and resumeRecoveredRun.                                  *)
LEMMA SweepInductive == ASSUME Inductive, NEW s \in Servers, SweepRuns(s) PROVE Inductive'
<1>0. /\ run \in Rows /\ recent \in BOOLEAN /\ interfered \in BOOLEAN /\ sweep[s].row \in Rows
      /\ cancel \in Cancels /\ gates \in 0..MaxGates /\ events \in 0..MaxEvents
      /\ sweep \in [Servers -> Sweeps]
  BY DEF Inductive, AgentRunTypeOK, Sweeps
<1> USE <1>0, RowTypes DEF boundVars
<1>1. CASE SweepList(s)
  <2>1. sweep' \in [Servers -> Sweeps] BY <1>1, SweepSet DEF SweepList
  <2> QED BY <1>1, <2>1, OutsideStep DEF SweepList
<1>2. CASE SweepSkip(s)
  <2>1. sweep' \in [Servers -> Sweeps] BY <1>2, SweepSet DEF SweepSkip
  <2> QED BY <1>2, <2>1, OutsideStep DEF SweepSkip
<1>3. CASE SweepFail(s)
  <2>1. Finished("Failed") \in Rows BY RowEdits DEF Phases, Terminal
  <2>2. sweep' \in [Servers -> Sweeps] BY <1>3, <2>1, SweepSet DEF SweepFail
  <2>3. events' \in 0..MaxEvents BY <1>3, EventCounts DEF SweepFail
  <2> QED BY <1>3, <2>2, <2>3, OutsideStep DEF SweepFail
<1>4. CASE SweepFailSave(s)
  <2>1. sweep' \in [Servers -> Sweeps] BY <1>4, SweepSet DEF SweepFailSave
  <2> QED BY <1>4, <2>1, OutsideStep DEF SweepFailSave, Overwrite
<1>5. CASE SweepCount(s)
  <2>1. [run EXCEPT !.attempt = @ + 1] \in Rows BY RowEdits
  <2>2. sweep' \in [Servers -> Sweeps] BY <1>5, <2>1, SweepSet DEF SweepCount
  <2> QED BY <1>5, <2>2, OutsideStep DEF SweepCount
<1>6. CASE SweepResume(s)
  <2>1. PICK w \in Workers, j \in Jobs :
           /\ job' = [job EXCEPT ![w] = j] /\ ~job[w].entered /\ ~j.entered
           /\ j.from # "none"
    BY <1>6, Spawned DEF SweepResume
  <2>2. sweep' \in [Servers -> Sweeps] BY <1>6, SweepSet DEF SweepResume
  <2>3. job' \in [Workers -> Jobs] /\ EnteredLate'
    BY <2>1 DEF Inductive, AgentRunTypeOK, EnteredLate
  <2>4. \A t \in Servers : live'[t] # NoWorker => job'[live'[t]].entered /\ job'[live'[t]].at = t
    BY <1>6, <2>1 DEF SweepResume, Inductive, AgentRunTypeOK
  <2>5. recovered' \in [Servers -> Nat] /\ uncounted' \in Nat
    BY <1>6, Recovering DEF SweepResume
  <2> QED BY <1>6, <2>2, <2>3, <2>4, <2>5 DEF SweepResume, Overwrite, Inductive, AgentRunTypeOK
<1>7. CASE SweepUncounted(s)
  <2>1. PICK w \in Workers, j \in Jobs :
           /\ job' = [job EXCEPT ![w] = j] /\ ~job[w].entered /\ ~j.entered
           /\ j.from # "none"
    BY <1>7, Spawned DEF SweepUncounted
  <2>2. sweep' \in [Servers -> Sweeps] BY <1>7, SweepSet DEF SweepUncounted
  <2>3. job' \in [Workers -> Jobs] /\ EnteredLate'
    BY <2>1 DEF Inductive, AgentRunTypeOK, EnteredLate
  <2>4. \A t \in Servers : live'[t] # NoWorker => job'[live'[t]].entered /\ job'[live'[t]].at = t
    BY <1>7, <2>1 DEF SweepUncounted, Inductive, AgentRunTypeOK
  <2>5. events' \in 0..MaxEvents BY <1>7, EventCounts DEF SweepUncounted
  <2>6. recovered' \in [Servers -> Nat] /\ uncounted' \in Nat
    BY <1>7, Recovering DEF SweepUncounted
  <2> QED BY <1>7, <2>2, <2>3, <2>4, <2>5, <2>6 DEF SweepUncounted, Inductive, AgentRunTypeOK
<1> QED BY <1>1, <1>2, <1>3, <1>4, <1>5, <1>6, <1>7 DEF SweepRuns

(* The time limit of a turn.                                               *)
LEMMA TimeoutInductive == ASSUME Inductive, NEW w \in Workers, TurnTimesOut(w) PROVE Inductive'
<1> DEFINE e == [job[w] EXCEPT !.canceled = TRUE]
<1>1. job[w] \in Jobs BY DEF Inductive, AgentRunTypeOK
<1>2. /\ e \in Jobs /\ e.pc = job[w].pc /\ e.entered = job[w].entered /\ e.at = job[w].at
      /\ e.from = job[w].from
  BY <1>1 DEF Jobs
<1>3. job' = [job EXCEPT ![w] = e] BY DEF TurnTimesOut
<1>4. events' \in 0..MaxEvents BY EventCounts DEF TurnTimesOut, Inductive, AgentRunTypeOK
<1> HIDE DEF e
<1>5. job' \in [Workers -> Jobs] /\ EnteredLate'
  BY <1>2, <1>3 DEF Inductive, AgentRunTypeOK, EnteredLate
<1>6. \A t \in Servers : live'[t] # NoWorker => job'[live'[t]].entered /\ job'[live'[t]].at = t
  BY <1>2, <1>3 DEF TurnTimesOut, Inductive, AgentRunTypeOK
<1> QED BY <1>4, <1>5, <1>6 DEF TurnTimesOut, Inductive, AgentRunTypeOK

(* cancelRun, and time.                                                    *)
LEMMA CancelInductive ==
    ASSUME Inductive, CancelStep \/ Age \/ \E s \in Servers : CancelCheck(s)
    PROVE  Inductive'
<1>0. /\ run \in Rows /\ recent \in BOOLEAN /\ interfered \in BOOLEAN
      /\ cancel \in Cancels /\ gates \in 0..MaxGates /\ events \in 0..MaxEvents
      /\ sweep \in [Servers -> Sweeps] /\ cancel.row \in Rows
  BY DEF Inductive, AgentRunTypeOK, Cancels
<1> USE <1>0, RowTypes DEF boundVars
<1>1. ASSUME NEW s \in Servers, CancelCheck(s) PROVE Inductive'
  <2>1. cancel' \in Cancels BY <1>1 DEF CancelCheck, Cancels, IdleCancel
  <2>2. events' \in 0..MaxEvents BY <1>1, EventCounts DEF CancelCheck
  <2> QED BY <1>1, <2>1, <2>2, OutsideStep DEF CancelCheck
<1>2. CASE CancelLive
  <2> DEFINE v == live[cancel.at]
             e == [job[v] EXCEPT !.canceled = TRUE]
  <2>1. v \in Workers /\ job[v] \in Jobs
    BY <1>2 DEF CancelLive, Executes, Inductive, AgentRunTypeOK, Cancels
  <2>2. /\ e \in Jobs /\ e.pc = job[v].pc /\ e.entered = job[v].entered /\ e.at = job[v].at
        /\ e.from = job[v].from
    BY <2>1 DEF Jobs
  <2>3. job' = [job EXCEPT ![v] = e] BY <1>2 DEF CancelLive
  <2> HIDE DEF v, e
  <2>4. job' \in [Workers -> Jobs] /\ EnteredLate'
    BY <2>1, <2>2, <2>3 DEF Inductive, AgentRunTypeOK, EnteredLate
  <2>5. \A t \in Servers : live'[t] # NoWorker => job'[live'[t]].entered /\ job'[live'[t]].at = t
    BY <1>2, <2>1, <2>2, <2>3 DEF CancelLive, Inductive, AgentRunTypeOK
  <2> QED BY <1>2, <2>4, <2>5 DEF CancelLive, Inductive, AgentRunTypeOK
<1>3. CASE CancelStamp
  <2>1. Finished("Aborted") \in Rows BY RowEdits DEF Phases, Terminal
  <2>2. cancel' \in Cancels BY <1>3, <2>1 DEF CancelStamp, Cancels
  <2> QED BY <1>3, <2>2, OutsideStep DEF CancelStamp
<1>4. CASE CancelSave
  BY <1>4, OutsideStep DEF CancelSave, Overwrite
<1>5. CASE Age
  <2>1. events' \in 0..MaxEvents BY <1>5, EventCounts DEF Age
  <2> QED BY <1>5, <2>1, OutsideStep DEF Age
<1> QED BY <1>1, <1>2, <1>3, <1>4, <1>5 DEF CancelStep

(* A crash takes the goroutines of one replica and its registry.           *)
LEMMA CrashInductive == ASSUME Inductive, NEW s \in Servers, CrashServer(s) PROVE Inductive'
<1> USE RowTypes DEF CrashServer, Inductive, AgentRunTypeOK
<1>1. job' \in [Workers -> Jobs] OBVIOUS
<1>2. EnteredLate' BY DEF EnteredLate, IdleJob
<1>3. \A t \in Servers : live'[t] # NoWorker => t # s /\ live'[t] = live[t]
  OBVIOUS
<1>4. \A t \in Servers : live'[t] # NoWorker => job'[live'[t]].entered /\ job'[live'[t]].at = t
  BY <1>3
<1>5. events' \in 0..MaxEvents BY EventCounts
<1> QED BY <1>1, <1>2, <1>4, <1>5

LEMMA NextInductive == ASSUME Inductive, [AgentRunNext]_agentVars PROVE Inductive'
<1>1. CASE UNCHANGED agentVars
  BY <1>1 DEF agentVars, boundVars, Inductive, AgentRunTypeOK, EnteredLate
<1> QED
  BY <1>1, TaskInductive, ResumeInductive, StartInductive, SweepInductive, CancelInductive,
     TimeoutInductive, CrashInductive DEF AgentRunNext, AgentRunStep

-----------------------------------------------------------------------------
(* Now the execution.  Most steps leave the row alone and start nobody.    *)
LEMMA InitGuarded == AgentRunInit => Guarded
  BY DEF AgentRunInit, Guarded, CheckpointsRunning, RowGuards, ExclusiveExecution, Executors,
     Executing, IdleJob

(* No goroutine begins to execute or to claim, and a checkpoint that is    *)
(* about to be saved says Running.                                         *)
Calm ==
    \A v \in Workers :
        /\ job'[v].pc \in Executing => job[v].pc \in Executing
        /\ job'[v].pc = "claim" => job[v].pc = "claim"
        /\ job'[v].pc = "ckptSave" => job'[v].row.phase = "Running"

(* The row stays, or comes to say Running.                                 *)
LEMMA CalmStep ==
    ASSUME Guarded, Calm, interfered' = interfered, run' = run \/ run'.phase = "Running"
    PROVE  Guarded'
<1> USE DEF Guarded, Calm
<1>1. CheckpointsRunning' BY DEF CheckpointsRunning
<1>2. Executors' \subseteq Executors BY DEF Executors
<1>3. ExclusiveExecution' BY <1>2 DEF ExclusiveExecution
<1>4. RowGuards' BY <1>2 DEF RowGuards
<1> QED BY <1>1, <1>3, <1>4

(* The last write of the goroutine that executes.                          *)
LEMMA LastStep ==
    ASSUME Guarded, Calm, interfered' = interfered, NEW w \in Workers,
           job[w].pc \in Executing, job'[w].pc \notin Executing
    PROVE  Guarded'
<1> USE DEF Guarded, Calm
<1>1. CheckpointsRunning' BY DEF CheckpointsRunning
<1>2. Executors' \subseteq Executors \ {w} /\ w \in Executors BY DEF Executors
<1>3. ~interfered => Executors' = {} BY <1>2 DEF ExclusiveExecution
<1> QED BY <1>1, <1>3 DEF RowGuards, ExclusiveExecution

(* A write from outside counts only when nobody executes.                  *)
LEMMA OutsideWrite ==
    ASSUME Guarded, Calm, NEW q, Overwrite(q)
    PROVE  Guarded'
<1> USE DEF Guarded, Calm
<1>1. CheckpointsRunning' BY DEF CheckpointsRunning
<1>2. Executors' \subseteq Executors BY DEF Executors
<1>3. ~interfered' => Executors' = {} BY <1>2 DEF Overwrite
<1> QED BY <1>1, <1>3 DEF RowGuards, ExclusiveExecution

(* executeTask.                                                            *)
LEMMA TaskGuarded == ASSUME Inductive, Guarded, NEW w \in Workers, TaskStep(w) PROVE Guarded'
<1>0. job \in [Workers -> Jobs] /\ CheckpointsRunning
  BY DEF Inductive, AgentRunTypeOK, Guarded
<1> USE <1>0 DEF Jobs, Executing, CheckpointsRunning, Calm
<1>1. CASE TaskRefused(w) \/ Unregister(w)
  <2>1. Calm BY <1>1 DEF TaskRefused, Unregister, Returned, IdleJob
  <2> QED BY <1>1, <2>1, CalmStep DEF TaskRefused, Unregister
<1>2. CASE TaskRegister(w)
  <2>1. Calm BY <1>2 DEF TaskRegister, Register
  <2> QED BY <1>2, <2>1, CalmStep DEF TaskRegister
<1>3. CASE TaskRunning(w)
  <2>1. Calm BY <1>3 DEF TaskRunning, Step
  <2>2. run' = run \/ run'.phase = "Running" BY <1>3 DEF TaskRunning, SaveRun, NoRow
  <2> QED BY <1>3, <2>1, <2>2, CalmStep DEF TaskRunning
<1>4. CASE CheckpointRead(w)
  <2>1. [run EXCEPT !.ck = "mid"].phase = "Running"
    BY <1>4 DEF CheckpointRead, Inductive, AgentRunTypeOK, Rows
  <2> DEFINE q == [run EXCEPT !.ck = "mid"]
  <2>2. /\ job[w].pc = "turn" /\ job'[w].pc \in {"ckptSave", "leave"}
        /\ job'[w].pc = "ckptSave" => job'[w].row = q
        /\ \A v \in Workers : v # w => job'[v] = job[v]
    BY <1>4 DEF CheckpointRead, GetRun, Step
  <2>3. q.phase = "Running" BY <2>1
  <2> HIDE DEF q
  <2>4. Calm BY <2>2, <2>3
  <2> QED BY <1>4, <2>4, CalmStep DEF CheckpointRead
<1>5. CASE CheckpointSave(w)
  <2>1. Calm BY <1>5 DEF CheckpointSave, Saved
  <2>2. run' = run \/ run'.phase = "Running" BY <1>5 DEF CheckpointSave, SaveRun
  <2> QED BY <1>5, <2>1, <2>2, CalmStep DEF CheckpointSave
<1>6. CASE GatedCall(w)
  <2>1. Calm BY <1>6 DEF GatedCall, Step
  <2> QED BY <1>6, <2>1, CalmStep DEF GatedCall
<1>7. CASE PauseRead(w) \/ FinishRead(w)
  <2>1. /\ job[w].pc \in {"pause", "finish"}
        /\ job'[w].pc \in {"pauseSave", "finishSave", "leave"}
        /\ \A v \in Workers : v # w => job'[v] = job[v]
    BY <1>7 DEF PauseRead, FinishRead, GetRun, Step
  <2>2. Calm BY <2>1
  <2> QED BY <1>7, <2>2, CalmStep DEF PauseRead, FinishRead
<1>8. CASE PauseSave(w) \/ FinishSave(w)
  <2>1. Calm /\ job[w].pc \in Executing /\ job'[w].pc \notin Executing
    BY <1>8 DEF PauseSave, FinishSave, Saved
  <2> QED BY <1>8, <2>1, LastStep DEF PauseSave, FinishSave
<1>9. CASE TurnEnds(w)
  <2>1. Calm BY <1>9 DEF TurnEnds
  <2> QED BY <1>9, <2>1, CalmStep DEF TurnEnds
<1> QED
  BY <1>1, <1>2, <1>3, <1>4, <1>5, <1>6, <1>7, <1>8, <1>9 DEF TaskStep

(* resumeRun.  A claim is reached only from a row that says what the       *)
(* resume expects, and succeeds only if nobody executes.                   *)
LEMMA ResumeGuarded == ASSUME Inductive, Guarded, NEW w \in Workers, ResumeStep(w) PROVE Guarded'
<1>0. job \in [Workers -> Jobs] /\ CheckpointsRunning
  BY DEF Inductive, AgentRunTypeOK, Guarded
<1> USE <1>0 DEF Jobs, Executing, CheckpointsRunning, Calm
<1>1. CASE ResumeRead(w) /\ Returned(w)
  <2>1. Calm BY <1>1 DEF Returned, IdleJob
  <2> QED BY <1>1, <2>1, CalmStep DEF ResumeRead
<1>2. CASE ResumeRead(w) /\ ~Returned(w)
  <2>1. /\ run.phase \in {"PendingApproval", "Running"} /\ job[w].pc = "read"
        /\ job' = [job EXCEPT ![w].pc = "claim"] /\ run' = run /\ interfered' = interfered
    BY <1>2 DEF ResumeRead, Step, Inductive, EnteredLate
  <2>2. Executors' = Executors BY <2>1 DEF Executors
  <2>3. CheckpointsRunning' BY <2>1
  <2>4. ExclusiveExecution' BY <2>1, <2>2 DEF ExclusiveExecution, Guarded
  <2>5. RowGuards' BY <2>1, <2>2 DEF RowGuards, Guarded
  <2> QED BY <2>3, <2>4, <2>5 DEF Guarded
<1>3. CASE ClaimRun(w) /\ run.phase = "Running"
  <2>1. Calm BY <1>3 DEF ClaimRun, Returned, IdleJob
  <2> QED BY <1>3, <2>1, CalmStep DEF ClaimRun
<1>4. CASE ClaimRun(w) /\ run.phase # "Running"
  <2>1. /\ job[w].pc = "claim" /\ job' = [job EXCEPT ![w].pc = "load"]
        /\ run'.phase = "Running" /\ interfered' = interfered
    BY <1>4 DEF ClaimRun, Step, Inductive, AgentRunTypeOK, Rows
  <2>2. ~interfered => Executors = {} BY <1>4, <2>1 DEF Guarded, RowGuards
  <2>3. Executors' = Executors \cup {w} BY <2>1 DEF Executors
  <2>4. CheckpointsRunning' BY <2>1
  <2>5. ExclusiveExecution' BY <2>1, <2>2, <2>3 DEF ExclusiveExecution
  <2>6. RowGuards' BY <2>1 DEF RowGuards
  <2> QED BY <2>4, <2>5, <2>6 DEF Guarded
<1>5. CASE ResumeRegister(w) \/ ResumeFails(w)
  <2>1. Calm BY <1>5 DEF ResumeRegister, ResumeFails, Register, Step
  <2> QED BY <1>5, <2>1, CalmStep DEF ResumeRegister, ResumeFails
<1> QED BY <1>1, <1>2, <1>3, <1>4, <1>5 DEF ResumeStep

(* The start: nobody executes or claims.                                   *)
LEMMA StartGuarded == ASSUME Inductive, Guarded, StartRun PROVE Guarded'
<1>1. PICK w \in Workers, j \in Jobs :
         job[w].pc = "idle" /\ job' = [job EXCEPT ![w] = j] /\ j.pc = "begin"
  BY HomeIsServer, Spawned DEF StartRun
<1>2. job \in [Workers -> Jobs] /\ \A v \in Workers : job[v].pc = "idle"
  BY DEF Inductive, AgentRunTypeOK, StartRun
<1>3. \A v \in Workers : job'[v].pc \in {"idle", "begin"} /\ (v # w => job'[v].pc = "idle")
  BY <1>1, <1>2
<1>4. run'.phase \in {"none", "Pending"} BY DEF StartRun, NoRow
<1>5. \A v \in Executors' : v = w BY <1>3 DEF Executors, Executing
<1> QED
  BY <1>3, <1>4, <1>5 DEF Guarded, CheckpointsRunning, RowGuards, ExclusiveExecution

(* Everybody else neither executes nor claims.                             *)
LEMMA SpawnCalm ==
    ASSUME Inductive, Guarded, NEW s \in Servers, NEW p \in {"PendingApproval", "Running"},
           Spawn(s, "read", p)
    PROVE  Calm
<1>1. PICK w \in Workers, j \in Jobs : job' = [job EXCEPT ![w] = j] /\ j.pc = "read"
  BY Spawned
<1> QED BY <1>1 DEF Calm, Inductive, AgentRunTypeOK, Guarded, CheckpointsRunning, Executing

LEMMA OthersGuarded ==
    ASSUME Inductive, Guarded,
           \/ \E s \in Servers : SweepRuns(s) \/ Verdict(s) \/ CancelCheck(s) \/ CrashServer(s)
           \/ CancelStep \/ Age \/ \E w \in Workers : TurnTimesOut(w)
    PROVE  Guarded'
<1>0. job \in [Workers -> Jobs] /\ CheckpointsRunning
  BY DEF Inductive, AgentRunTypeOK, Guarded
<1>1. UNCHANGED job => Calm BY <1>0 DEF Calm, CheckpointsRunning
<1>2. ASSUME NEW s \in Servers, SweepRuns(s) PROVE Guarded'
  <2>1. CASE SweepList(s) \/ SweepSkip(s) \/ SweepFail(s) \/ SweepCount(s)
    BY <1>1, <2>1, CalmStep DEF SweepList, SweepSkip, SweepFail, SweepCount
  <2>2. CASE SweepFailSave(s)
    BY <1>1, <2>2, OutsideWrite DEF SweepFailSave
  <2>3. CASE SweepResume(s)
    BY <2>3, SpawnCalm, OutsideWrite DEF SweepResume
  <2>4. CASE SweepUncounted(s)
    BY <2>4, SpawnCalm, CalmStep DEF SweepUncounted
  <2> QED BY <1>2, <2>1, <2>2, <2>3, <2>4 DEF SweepRuns
<1>3. ASSUME NEW s \in Servers, Verdict(s) PROVE Guarded'
  BY <1>3, SpawnCalm, CalmStep DEF Verdict
<1>4. ASSUME NEW s \in Servers, CancelCheck(s) PROVE Guarded'
  BY <1>1, <1>4, CalmStep DEF CancelCheck
<1>5. ASSUME NEW s \in Servers, CrashServer(s) PROVE Guarded'
  <2>1. Calm BY <1>0, <1>5 DEF CrashServer, Calm, CheckpointsRunning, IdleJob, Executing
  <2> QED BY <1>5, <2>1, CalmStep DEF CrashServer
<1>6. CASE CancelLive
  <2>1. Calm BY <1>0, <1>6 DEF CancelLive, Calm, CheckpointsRunning, Jobs
  <2> QED BY <1>6, <2>1, CalmStep DEF CancelLive
<1>7. CASE CancelStamp \/ Age
  BY <1>1, <1>7, CalmStep DEF CancelStamp, Age
<1>8. CASE CancelSave
  BY <1>1, <1>8, OutsideWrite DEF CancelSave
<1>9. ASSUME NEW w \in Workers, TurnTimesOut(w) PROVE Guarded'
  <2>1. Calm BY <1>0, <1>9 DEF TurnTimesOut, Calm, CheckpointsRunning, Jobs
  <2> QED BY <1>9, <2>1, CalmStep DEF TurnTimesOut
<1> QED BY <1>2, <1>3, <1>4, <1>5, <1>6, <1>7, <1>8, <1>9 DEF CancelStep

LEMMA NextGuarded == ASSUME Inductive, Guarded, [AgentRunNext]_agentVars PROVE Guarded'
<1>1. CASE UNCHANGED agentVars
  BY <1>1 DEF agentVars, Guarded, CheckpointsRunning, RowGuards, ExclusiveExecution, Executors
<1> QED
  BY <1>1, TaskGuarded, ResumeGuarded, StartGuarded, OthersGuarded
  DEF AgentRunNext, AgentRunStep

-----------------------------------------------------------------------------
(* The cap on recoveries.  A row covers the recoveries when its count,     *)
(* with those that were never counted safely, is as high as what any       *)
(* replica has started.                                                    *)
Covers(n) == \A t \in Servers : recovered[t] <= n + uncounted

(* Every row that is stored or will be saved covers them.                  *)
RowsCover ==
    /\ Covers(run.attempt)
    /\ \A w \in Workers : job[w].pc \in Saving => Covers(job[w].row.attempt)
    /\ \A s \in Servers : sweep[s].pc = "fail" => Covers(sweep[s].row.attempt)
    /\ cancel.pc = "stamp" => Covers(cancel.row.attempt)
BlankStarts ==
    \A w \in Workers : job[w].pc \in {"begin", "registered"} => job[w].row.attempt = 0

(* A replica that may still resume the run before anybody else writes it.  *)
Chosen(t) == sweep[t].pc \in {"resumable", "count"}
Due(t) == IF Chosen(t) \/ ~recent THEN 1 ELSE 0

(* A count that is being recorded covers those of overlapping sweeps too:  *)
(* each of them starts one resume, and writes the row as it does.          *)
CountsCover ==
    \A s, t \in Servers :
        sweep[s].pc = "count" => recovered[t] + Due(t) <= sweep[s].row.attempt + uncounted
WithinCap ==
    \A t \in Servers :
        recovered[t] + (IF Chosen(t) THEN 1 ELSE 0) <= MaxRecoveryAttempts + uncounted

Counted == RowsCover /\ BlankStarts /\ CountsCover /\ WithinCap

LEMMA CountTypes ==
    ASSUME Inductive
    PROVE  /\ run.attempt \in Nat /\ cancel.row.attempt \in Nat /\ MaxRecoveryAttempts \in Nat
           /\ \A w \in Workers : job[w].row.attempt \in Nat
           /\ \A s \in Servers : sweep[s].row.attempt \in Nat /\ recovered[s] \in Nat
           /\ uncounted \in Nat
  BY AgentAssumption DEF Inductive, AgentRunTypeOK, Rows, Jobs, Sweeps, Cancels

LEMMA InitCounted == AgentRunInit => Counted
<1> SUFFICES ASSUME AgentRunInit PROVE Counted OBVIOUS
<1> USE HomeIsServer DEF AgentRunInit, NoRow, IdleJob, IdleSweep, IdleCancel
<1>1. RowsCover /\ BlankStarts BY DEF RowsCover, BlankStarts, Covers, Saving
<1>2. CountsCover BY DEF CountsCover
<1>3. WithinCap BY AgentAssumption DEF WithinCap, Chosen
<1> QED BY <1>1, <1>2, <1>3 DEF Counted

(* A step that starts no recovery and chooses nobody for one.              *)
LEMMA CoveredStep ==
    ASSUME Inductive, Inductive', Counted, UNCHANGED recoveryVars,
           Covers(run'.attempt), recent' \/ ~recent,
           \A w \in Workers :
              /\ job'[w].pc \in Saving => Covers(job'[w].row.attempt)
              /\ job'[w].pc \in {"begin", "registered"} => job'[w].row.attempt = 0,
           \A s \in Servers :
              \/ sweep'[s] = sweep[s]
              \/ sweep'[s].pc \in {"idle", "doomed"}
              \/ sweep'[s].pc = "fail" /\ Covers(sweep'[s].row.attempt),
           cancel'.pc = "stamp" => Covers(cancel'.row.attempt)
    PROVE  Counted'
<1> USE DEF Counted
<1>1. RowsCover' BY DEF RowsCover, Covers
<1>2. BlankStarts' BY DEF BlankStarts
<1>3. \A t \in Servers : Chosen(t)' => Chosen(t) BY DEF Chosen
<1>4. CountsCover'
  <2> SUFFICES ASSUME NEW s \in Servers, NEW t \in Servers, sweep'[s].pc = "count"
               PROVE  recovered'[t] + Due(t)' <= sweep'[s].row.attempt + uncounted'
    BY DEF CountsCover
  <2>1. sweep'[s] = sweep[s] OBVIOUS
  <2>2. recovered[t] + Due(t) <= sweep[s].row.attempt + uncounted BY <2>1 DEF CountsCover
  <2>3. Due(t)' <= Due(t) BY <1>3 DEF Due
  <2> QED BY <2>1, <2>2, <2>3, CountTypes DEF Due
<1>5. WithinCap' BY <1>3, CountTypes DEF WithinCap
<1> QED BY <1>1, <1>2, <1>4, <1>5

(* A goroutine's step.                                                     *)
LEMMA JobCovered ==
    ASSUME Inductive, Inductive', Counted, NEW w \in Workers,
           \A v \in Workers : v # w => job'[v] = job[v],
           job'[w].pc \in Saving => Covers(job'[w].row.attempt),
           job'[w].pc \in {"begin", "registered"} => job'[w].row.attempt = 0,
           UNCHANGED <<sweep, cancel, recoveryVars>>,
           UNCHANGED <<run, recent>> \/ (recent' /\ Covers(run'.attempt))
    PROVE  Counted'
<1>1. Covers(run'.attempt) BY DEF Counted, RowsCover
<1>2. \A v \in Workers :
         /\ job'[v].pc \in Saving => Covers(job'[v].row.attempt)
         /\ job'[v].pc \in {"begin", "registered"} => job'[v].row.attempt = 0
  BY DEF Counted, RowsCover, BlankStarts
<1>3. cancel'.pc = "stamp" => Covers(cancel'.row.attempt) BY DEF Counted, RowsCover
<1> QED BY <1>1, <1>2, <1>3, CoveredStep

LEMMA SaveCovers ==
    ASSUME NEW w \in Workers, NEW q, Covers(q.attempt), SaveRun(w, q)
    PROVE  UNCHANGED <<run, recent>> \/ (recent' /\ Covers(run'.attempt))
  BY DEF SaveRun

LEMMA TaskCounted ==
    ASSUME Inductive, Inductive', Counted, NEW w \in Workers, TaskStep(w) \/ TurnTimesOut(w)
    PROVE  Counted'
<1>0. /\ job \in [Workers -> Jobs] /\ run \in Rows /\ job[w].row \in Rows
      /\ Covers(run.attempt)
      /\ job[w].pc \in Saving => Covers(job[w].row.attempt)
      /\ job[w].pc \in {"begin", "registered"} => job[w].row.attempt = 0
  BY DEF Inductive, AgentRunTypeOK, Jobs, Counted, RowsCover, BlankStarts
<1> USE <1>0 DEF Saving
<1>1. CASE TaskRefused(w) \/ Unregister(w)
  <2>1. job' = [job EXCEPT ![w] = IdleJob] BY <1>1 DEF TaskRefused, Unregister, Returned
  <2> QED BY <1>1, <2>1, JobCovered DEF TaskRefused, Unregister, IdleJob
<1>2. CASE TaskRegister(w) \/ GatedCall(w) \/ TurnEnds(w) \/ TurnTimesOut(w)
  <2>1. /\ \A v \in Workers : v # w => job'[v] = job[v]
        /\ \/ job[w].pc = "begin" /\ job'[w].pc = "registered"
           \/ job'[w].pc \in {"pause", "finish", "turn"}
        /\ job'[w].row = job[w].row
    BY <1>2 DEF TaskRegister, GatedCall, TurnEnds, TurnTimesOut, Register, Step, Jobs
  <2> QED BY <1>2, <2>1, JobCovered DEF TaskRegister, GatedCall, TurnEnds, TurnTimesOut
<1>3. CASE TaskRunning(w)
  <2>1. [NoRow EXCEPT !.phase = "Running"].attempt = 0 BY DEF NoRow
  <2>2. /\ \A v \in Workers : v # w => job'[v] = job[v]
        /\ job[w].pc = "registered" /\ job'[w].pc = "turn"
    BY <1>3 DEF TaskRunning, Step, Jobs
  <2>3. UNCHANGED <<run, recent>> \/ (recent' /\ Covers(run'.attempt))
    BY <1>3, <2>1, <2>2, SaveCovers DEF TaskRunning
  <2> QED BY <1>3, <2>2, <2>3, JobCovered DEF TaskRunning
<1>4. CASE CheckpointRead(w) \/ PauseRead(w) \/ FinishRead(w)
  <2>1. /\ [run EXCEPT !.ck = "mid"].attempt = run.attempt
        /\ [run EXCEPT !.phase = "PendingApproval", !.ck = "gate"].attempt = run.attempt
        /\ Finished(job[w].out).attempt = run.attempt
    BY DEF Finished, Rows
  <2>2. \E l \in {"ckptSave", "pauseSave", "finishSave"} :
           \E q \in {[run EXCEPT !.ck = "mid"], Finished(job[w].out),
                    [run EXCEPT !.phase = "PendingApproval", !.ck = "gate"]} : GetRun(w, l, q)
    BY <1>4 DEF CheckpointRead, PauseRead, FinishRead
  <2>3. PICK l \in {"ckptSave", "pauseSave", "finishSave"},
           q \in {[run EXCEPT !.ck = "mid"], Finished(job[w].out),
                  [run EXCEPT !.phase = "PendingApproval", !.ck = "gate"]} : GetRun(w, l, q)
    BY <2>2
  <2>4. /\ \A v \in Workers : v # w => job'[v] = job[v]
        /\ \/ job'[w].pc = l /\ job'[w].row = q
           \/ job'[w].pc = "leave"
    BY <2>3 DEF GetRun, Step, Jobs
  <2>5. UNCHANGED <<run, recent, sweep, cancel, recoveryVars>>
    BY <1>4 DEF CheckpointRead, PauseRead, FinishRead
  <2>6. q.attempt = run.attempt BY <2>1
  <2> QED BY <2>4, <2>5, <2>6, JobCovered
<1>5. CASE CheckpointSave(w) \/ PauseSave(w) \/ FinishSave(w)
  <2>1. /\ \A v \in Workers : v # w => job'[v] = job[v]
        /\ job'[w].pc \in {"turn", "leave"}
    BY <1>5 DEF CheckpointSave, PauseSave, FinishSave, Saved, Jobs
  <2>2. UNCHANGED <<run, recent>> \/ (recent' /\ Covers(run'.attempt))
    BY <1>5, SaveCovers DEF CheckpointSave, PauseSave, FinishSave
  <2> QED BY <1>5, <2>1, <2>2, JobCovered DEF CheckpointSave, PauseSave, FinishSave
<1> QED BY <1>1, <1>2, <1>3, <1>4, <1>5 DEF TaskStep

LEMMA ResumeCounted ==
    ASSUME Inductive, Inductive', Counted, NEW w \in Workers, ResumeStep(w)
    PROVE  Counted'
<1>0. job \in [Workers -> Jobs] /\ run \in Rows /\ Covers(run.attempt)
  BY DEF Inductive, AgentRunTypeOK, Counted, RowsCover
<1>1. /\ \A v \in Workers : v # w => job'[v] = job[v]
      /\ job'[w].pc \in {"idle", "claim", "load", "turn", "finish"}
  BY <1>0 DEF ResumeStep, ResumeRead, ClaimRun, ResumeRegister, ResumeFails, Register, Step,
     Returned, IdleJob, Jobs
<1>2. UNCHANGED <<run, recent>> \/ (recent' /\ run'.attempt = run.attempt)
  BY <1>0 DEF ResumeStep, ResumeRead, ClaimRun, ResumeRegister, ResumeFails, Rows
<1>3. UNCHANGED <<sweep, cancel, recoveryVars>>
  BY DEF ResumeStep, ResumeRead, ClaimRun, ResumeRegister, ResumeFails
<1> QED BY <1>0, <1>1, <1>2, <1>3, JobCovered DEF Saving

(* A goroutine that is started holds no row.                               *)
LEMMA SpawnCovered ==
    ASSUME Inductive, Counted, NEW s \in Servers, NEW l \in {"begin", "read"},
           NEW p \in {"none", "PendingApproval", "Running"}, Spawn(s, l, p)
    PROVE  \A w \in Workers :
              \/ job'[w] = job[w]
              \/ job'[w].pc = l /\ job'[w].row.attempt = 0
<1>1. PICK w \in Workers, j \in Jobs :
         job' = [job EXCEPT ![w] = j] /\ j.row = NoRow /\ j.pc = l
  BY Spawned
<1> QED BY <1>1 DEF Inductive, AgentRunTypeOK, NoRow

(* The start, a verdict, a crash, a cancel: no sweep moves on.             *)
LEMMA OthersCounted ==
    ASSUME Inductive, Inductive', Counted,
           \/ StartRun \/ CancelStep
           \/ \E s \in Servers : Verdict(s) \/ CancelCheck(s) \/ CrashServer(s)
    PROVE  Counted'
<1>0. /\ job \in [Workers -> Jobs] /\ run \in Rows /\ cancel \in Cancels
      /\ sweep \in [Servers -> Sweeps] /\ Covers(run.attempt)
      /\ cancel.pc = "stamp" => Covers(cancel.row.attempt)
      /\ \A w \in Workers : /\ job[w].pc \in Saving => Covers(job[w].row.attempt)
                            /\ job[w].pc \in {"begin", "registered"} => job[w].row.attempt = 0
  BY DEF Inductive, AgentRunTypeOK, Counted, RowsCover, BlankStarts
<1> USE <1>0
<1>1. CASE StartRun
  <2>1. /\ run.attempt = 0 /\ run'.attempt = 0 /\ UNCHANGED <<recent, sweep, cancel, recoveryVars>>
    BY <1>1 DEF StartRun, NoRow
  <2>2. \A w \in Workers : job'[w] = job[w] \/ (job'[w].pc = "begin" /\ job'[w].row.attempt = 0)
    BY <1>1, HomeIsServer, SpawnCovered DEF StartRun
  <2> QED BY <2>1, <2>2, CoveredStep
<1>2. ASSUME NEW s \in Servers, Verdict(s) PROVE Counted'
  <2>1. UNCHANGED <<run, recent, sweep, cancel, recoveryVars>> BY <1>2 DEF Verdict
  <2>2. \A w \in Workers : job'[w] = job[w] \/ (job'[w].pc = "read" /\ job'[w].row.attempt = 0)
    BY <1>2, SpawnCovered DEF Verdict
  <2> QED BY <2>1, <2>2, CoveredStep DEF Saving
<1>3. ASSUME NEW s \in Servers, CancelCheck(s) PROVE Counted'
  <2>1. UNCHANGED <<run, recent, job, sweep, recoveryVars>> /\ cancel'.pc = "checked"
    BY <1>3 DEF CancelCheck, IdleCancel
  <2> QED BY <2>1, CoveredStep
<1>4. ASSUME NEW s \in Servers, CrashServer(s) PROVE Counted'
  <2>1. /\ UNCHANGED <<run, recent, recoveryVars>>
        /\ \A w \in Workers : job'[w] = job[w] \/ job'[w] = IdleJob
        /\ \A t \in Servers : sweep'[t] = sweep[t] \/ sweep'[t] = IdleSweep
        /\ cancel' = cancel \/ cancel' = IdleCancel
    BY <1>4 DEF CrashServer
  <2> QED BY <2>1, CoveredStep DEF Saving, IdleJob, IdleSweep, IdleCancel
<1>5. CASE CancelLive
  <2>1. \A w \in Workers : job'[w].row = job[w].row /\ job'[w].pc = job[w].pc
    BY <1>5 DEF CancelLive, Jobs
  <2>2. UNCHANGED <<run, recent, sweep, recoveryVars>> /\ cancel'.pc = "idle"
    BY <1>5 DEF CancelLive, IdleCancel
  <2> QED BY <2>1, <2>2, CoveredStep
<1>6. CASE CancelStamp
  <2>1. UNCHANGED <<run, recent, sweep, job, recoveryVars>> /\ cancel'.row.attempt = run.attempt
    BY <1>6 DEF CancelStamp, Cancels, Finished, Rows
  <2> QED BY <2>1, CoveredStep
<1>7. CASE CancelSave
  <2>1. /\ UNCHANGED <<sweep, job, recoveryVars>> /\ cancel'.pc = "idle" /\ recent'
        /\ Covers(run'.attempt)
    BY <1>7 DEF CancelSave, Overwrite, IdleCancel
  <2> QED BY <2>1, CoveredStep
<1> QED BY <1>1, <1>2, <1>3, <1>4, <1>5, <1>6, <1>7 DEF CancelStep

(* staleRunGrace passes: nobody is recording a count.                      *)
LEMMA AgeCounted == ASSUME Inductive, Counted, Age PROVE Counted'
<1>1. UNCHANGED <<run, job, sweep, cancel, recoveryVars>> /\ Settled BY DEF Age
<1>2. RowsCover' /\ BlankStarts' /\ WithinCap'
  BY <1>1 DEF Counted, RowsCover, BlankStarts, WithinCap, Covers, Chosen
<1>3. CountsCover' BY <1>1 DEF Settled, CountsCover
<1> QED BY <1>2, <1>3 DEF Counted

(* The list of a run below the cap: its count covers what the replica has  *)
(* started, so there is room for one more.                                 *)
LEMMA ListCounted == ASSUME Inductive, Inductive', Counted, NEW s \in Servers, SweepList(s) PROVE Counted'
<1>0. sweep \in [Servers -> Sweeps] BY DEF Inductive, AgentRunTypeOK
<1>1. /\ UNCHANGED <<run, recent, job, cancel, recoveryVars>> /\ ~recent
      /\ \A t \in Servers : t # s => sweep'[t] = sweep[t]
      /\ sweep'[s].pc = IF Resumable THEN "resumable" ELSE "doomed"
  BY <1>0 DEF SweepList, SetSweep
<1>2. RowsCover' /\ BlankStarts' BY <1>1 DEF Counted, RowsCover, BlankStarts, Covers
<1>3. CountsCover'
  <2> SUFFICES ASSUME NEW q \in Servers, NEW t \in Servers, sweep'[q].pc = "count"
               PROVE  recovered'[t] + Due(t)' <= sweep'[q].row.attempt + uncounted'
    BY DEF CountsCover
  <2>1. q # s /\ sweep'[q] = sweep[q] BY <1>1
  <2>2. recovered[t] + Due(t) <= sweep[q].row.attempt + uncounted
    BY <2>1 DEF Counted, CountsCover
  <2>3. Due(t)' = 1 /\ Due(t) = 1 BY <1>1 DEF Due
  <2> QED BY <1>1, <2>1, <2>2, <2>3
<1>4. WithinCap'
  <2> SUFFICES ASSUME NEW t \in Servers
               PROVE  recovered'[t] + (IF Chosen(t)' THEN 1 ELSE 0)
                          <= MaxRecoveryAttempts + uncounted'
    BY DEF WithinCap
  <2>0. recovered[t] + (IF Chosen(t) THEN 1 ELSE 0) <= MaxRecoveryAttempts + uncounted
    BY DEF Counted, WithinCap
  <2>1. CASE t = s /\ Resumable
    <3>1. recovered[s] <= run.attempt + uncounted BY DEF Counted, RowsCover, Covers
    <3>2. run.attempt < MaxRecoveryAttempts BY <2>1 DEF Resumable
    <3> QED BY <1>1, <2>1, <3>1, <3>2, CountTypes
  <2>2. CASE ~(t = s /\ Resumable)
    <3>1. Chosen(t)' => Chosen(t) BY <1>1, <2>2 DEF Chosen
    <3> QED BY <1>1, <2>0, <3>1, CountTypes
  <2> QED BY <2>1, <2>2
<1> QED BY <1>2, <1>3, <1>4 DEF Counted

(* The count is one above the stored one, which covers them all.           *)
LEMMA CountCounted == ASSUME Inductive, Counted, NEW s \in Servers, SweepCount(s) PROVE Counted'
<1>0. sweep \in [Servers -> Sweeps] /\ run \in Rows BY DEF Inductive, AgentRunTypeOK
<1>1. /\ UNCHANGED <<run, recent, job, cancel, recoveryVars>> /\ sweep[s].pc = "resumable"
      /\ \A t \in Servers : t # s => sweep'[t] = sweep[t]
      /\ sweep'[s].pc = "count" /\ sweep'[s].row.attempt = run.attempt + 1
  BY <1>0 DEF SweepCount, SetSweep, Rows
<1>2. \A t \in Servers : Chosen(t)' <=> Chosen(t) BY <1>1 DEF Chosen
<1>3. RowsCover' /\ BlankStarts' BY <1>1 DEF Counted, RowsCover, BlankStarts, Covers
<1>4. CountsCover'
  <2> SUFFICES ASSUME NEW q \in Servers, NEW t \in Servers, sweep'[q].pc = "count"
               PROVE  recovered'[t] + Due(t)' <= sweep'[q].row.attempt + uncounted'
    BY DEF CountsCover
  <2>1. Due(t)' = Due(t) /\ Due(t) \in {0, 1} BY <1>1, <1>2 DEF Due
  <2>2. CASE q = s
    <3>1. recovered[t] <= run.attempt + uncounted BY DEF Counted, RowsCover, Covers
    <3> QED BY <1>1, <2>1, <2>2, <3>1, CountTypes
  <2>3. CASE q # s
    <3>1. recovered[t] + Due(t) <= sweep[q].row.attempt + uncounted
      BY <1>1, <2>3 DEF Counted, CountsCover
    <3> QED BY <1>1, <2>1, <2>3, <3>1
  <2> QED BY <2>2, <2>3
<1>5. WithinCap' BY <1>1, <1>2 DEF Counted, WithinCap
<1> QED BY <1>3, <1>4, <1>5 DEF Counted

(* The resume that SweepResume and SweepUncounted start.                   *)
LEMMA ResumeStarted ==
    ASSUME Inductive, Inductive', Counted, NEW s \in Servers, Chosen(s),
           NEW n \in {0, 1}, Recovers(s, n), Spawn(s, "read", "Running"),
           SetSweep(s, "idle", NoRow), UNCHANGED cancel,
           \/ n = 1 /\ UNCHANGED <<run, recent>>
           \/ /\ sweep[s].pc = "count" /\ (n = 1 \/ ~CopyHeld)
              /\ recent' /\ run' = sweep[s].row
    PROVE  Counted'
<1>0. sweep \in [Servers -> Sweeps] /\ recovered \in [Servers -> Nat]
  BY DEF Inductive, AgentRunTypeOK
<1>1. /\ recovered'[s] = recovered[s] + 1 /\ uncounted' = uncounted + n
      /\ \A t \in Servers : t # s => recovered'[t] = recovered[t] /\ sweep'[t] = sweep[t]
      /\ sweep'[s].pc = "idle"
  BY <1>0 DEF Recovers, SetSweep
<1>2. \A w \in Workers : job'[w] = job[w] \/ (job'[w].pc = "read" /\ job'[w].row.attempt = 0)
  BY SpawnCovered
<1>3. ASSUME NEW k \in Nat, Covers(k), n = 1
      PROVE  \A t \in Servers : recovered'[t] <= k + uncounted'
  BY <1>1, <1>3, CountTypes DEF Covers
<1>4. Covers(run.attempt)'
  <2>1. CASE n = 1 /\ UNCHANGED run
    BY <1>3, <2>1, CountTypes DEF Counted, RowsCover, Covers
  <2>2. CASE run' = sweep[s].row /\ sweep[s].pc = "count"
    <3>1. \A t \in Servers : recovered[t] + Due(t) <= sweep[s].row.attempt + uncounted
      BY <2>2 DEF Counted, CountsCover
    <3>2. Due(s) = 1 /\ \A t \in Servers : Due(t) \in {0, 1} BY DEF Due
    <3>3. \A t \in Servers : recovered'[t] <= sweep[s].row.attempt + uncounted'
      BY <1>1, <3>1, <3>2, CountTypes
    <3> QED BY <2>2, <3>3 DEF Covers
  <2> QED BY <2>1, <2>2
<1>5. RowsCover'
  <2>1. CASE n = 1
    <3>1. \A w \in Workers : job'[w].pc \in Saving => Covers(job[w].row.attempt)'
      BY <1>2, <1>3, <2>1, CountTypes DEF Saving, Counted, RowsCover, Covers
    <3>2. \A t \in Servers : sweep'[t].pc = "fail" => Covers(sweep[t].row.attempt)'
      BY <1>1, <1>3, <2>1, CountTypes DEF Counted, RowsCover, Covers
    <3>3. cancel'.pc = "stamp" => Covers(cancel.row.attempt)'
      BY <1>3, <2>1, CountTypes DEF Counted, RowsCover, Covers
    <3> QED BY <1>4, <3>1, <3>2, <3>3 DEF RowsCover
  <2>2. CASE n = 0
    <3>1. \A w \in Workers : job'[w].pc \notin Saving BY <1>2, <2>2 DEF CopyHeld, Saving
    <3>2. /\ \A t \in Servers : sweep'[t].pc # "fail"
          /\ cancel'.pc # "stamp"
      BY <1>1, <2>2 DEF CopyHeld
    <3> QED BY <1>4, <3>1, <3>2 DEF RowsCover
  <2> QED BY <2>1, <2>2
<1>6. BlankStarts' BY <1>2 DEF Counted, BlankStarts
<1>7. CountsCover'
  <2> SUFFICES ASSUME NEW q \in Servers, NEW t \in Servers, sweep'[q].pc = "count"
               PROVE  recovered'[t] + Due(t)' <= sweep'[q].row.attempt + uncounted'
    BY DEF CountsCover
  <2>1. q # s /\ sweep'[q] = sweep[q] BY <1>1
  <2>2. recovered[t] + Due(t) <= sweep[q].row.attempt + uncounted
    BY <2>1 DEF Counted, CountsCover
  <2>3. CASE t # s
    <3>1. Chosen(t)' <=> Chosen(t) BY <1>1, <2>3 DEF Chosen
    <3>2. Due(t)' <= Due(t) BY <3>1 DEF Due
    <3> QED BY <1>1, <2>1, <2>2, <2>3, <3>2, CountTypes DEF Due
  <2>4. CASE t = s
    <3>1. Due(s) = 1 BY DEF Due
    <3>2. n = 1 \/ Due(s)' = 0 BY <1>1 DEF Due, Chosen
    <3>3. Due(s)' \in {0, 1} BY DEF Due
    <3> QED BY <1>1, <2>1, <2>2, <2>4, <3>1, <3>2, <3>3, CountTypes
  <2> QED BY <2>3, <2>4
<1>8. WithinCap'
  <2> SUFFICES ASSUME NEW t \in Servers
               PROVE  recovered'[t] + (IF Chosen(t)' THEN 1 ELSE 0)
                          <= MaxRecoveryAttempts + uncounted'
    BY DEF WithinCap
  <2>1. recovered[t] + (IF Chosen(t) THEN 1 ELSE 0) <= MaxRecoveryAttempts + uncounted
    BY DEF Counted, WithinCap
  <2>2. CASE t = s BY <1>1, <2>1, <2>2, CountTypes DEF Chosen
  <2>3. CASE t # s
    <3>1. Chosen(t)' <=> Chosen(t) BY <1>1, <2>3 DEF Chosen
    <3> QED BY <1>1, <2>1, <2>3, <3>1, CountTypes
  <2> QED BY <2>2, <2>3
<1> QED BY <1>5, <1>6, <1>7, <1>8 DEF Counted

LEMMA SweepCounted ==
    ASSUME Inductive, Inductive', Counted, NEW s \in Servers, SweepRuns(s)
    PROVE  Counted'
<1>0. /\ sweep \in [Servers -> Sweeps] /\ run \in Rows /\ Covers(run.attempt)
      /\ sweep[s].pc = "fail" => Covers(sweep[s].row.attempt)
      /\ cancel.pc = "stamp" => Covers(cancel.row.attempt)
      /\ \A w \in Workers : /\ job[w].pc \in Saving => Covers(job[w].row.attempt)
                            /\ job[w].pc \in {"begin", "registered"} => job[w].row.attempt = 0
  BY DEF Inductive, AgentRunTypeOK, Counted, RowsCover, BlankStarts
<1> USE <1>0
<1>1. CASE SweepSkip(s) \/ SweepFail(s)
  <2>1. /\ UNCHANGED <<run, recent, job, cancel, recoveryVars>>
        /\ \A t \in Servers : t # s => sweep'[t] = sweep[t]
        /\ \/ sweep'[s].pc = "idle"
           \/ sweep'[s].pc = "fail" /\ sweep'[s].row.attempt = run.attempt
    <3>1. Finished("Failed").attempt = run.attempt BY DEF Finished, Rows
    <3> QED BY <1>1, <3>1 DEF SweepSkip, SweepFail, SetSweep
  <2> QED BY <2>1, CoveredStep
<1>2. CASE SweepFailSave(s)
  <2>1. /\ UNCHANGED <<job, cancel, recoveryVars>> /\ recent' /\ Covers(run'.attempt)
        /\ \A t \in Servers : t # s => sweep'[t] = sweep[t]
        /\ sweep'[s].pc = "idle"
    BY <1>2 DEF SweepFailSave, Overwrite, SetSweep
  <2> QED BY <2>1, CoveredStep
<1>3. CASE SweepResume(s)
  <2>1. \E n \in {0, 1} : Recovers(s, n) /\ (n = 0 => ~CopyHeld)
    BY <1>3 DEF SweepResume
  <2>2. PICK n \in {0, 1} : Recovers(s, n) /\ (n = 0 => ~CopyHeld) BY <2>1
  <2>3. /\ Chosen(s) /\ Spawn(s, "read", "Running") /\ SetSweep(s, "idle", NoRow)
        /\ UNCHANGED cancel /\ recent' /\ run' = sweep[s].row /\ sweep[s].pc = "count"
    BY <1>3 DEF SweepResume, Overwrite, Chosen
  <2> QED BY <2>2, <2>3, ResumeStarted
<1>4. CASE SweepUncounted(s)
  <2>1. /\ Chosen(s) /\ Recovers(s, 1) /\ Spawn(s, "read", "Running") /\ SetSweep(s, "idle", NoRow)
        /\ UNCHANGED <<run, recent, cancel>>
    BY <1>4 DEF SweepUncounted, Chosen
  <2> QED BY <2>1, ResumeStarted
<1> QED BY <1>1, <1>2, <1>3, <1>4, ListCounted, CountCounted DEF SweepRuns

LEMMA NextCounted == ASSUME Inductive, Counted, [AgentRunNext]_agentVars PROVE Counted'
<1>1. Inductive' BY NextInductive
<1>2. CASE UNCHANGED agentVars
  BY <1>2 DEF agentVars, Counted, RowsCover, BlankStarts, CountsCover, WithinCap, Covers, Chosen, Due
<1>3. CASE AgentRunNext
  BY <1>1, <1>3, TaskCounted, ResumeCounted, OthersCounted, AgeCounted, SweepCounted
  DEF AgentRunNext, AgentRunStep
<1> QED BY <1>2, <1>3

-----------------------------------------------------------------------------
(* Types, and: a replica's registry names one of its own goroutines that   *)
(* has still to unregister, through crashes and paused and resumed turns.  *)
THEOREM TypeCorrect == AgentRunSpec => []AgentRunTypeOK
<1>1. Inductive => AgentRunTypeOK BY DEF Inductive
<1> QED BY <1>1, InitInductive, NextInductive, PTL DEF AgentRunSpec

(* However many replicas, answers and sweeps race for a run, two           *)
(* goroutines never execute it, unless a sweep or a cancel wrote its row   *)
(* while it was executing.                                                 *)
THEOREM OneExecutor == AgentRunSpec => []ExclusiveExecution
<1>1. Guarded => ExclusiveExecution BY DEF Guarded
<1> QED
  BY <1>1, InitInductive, NextInductive, InitGuarded, NextGuarded, PTL DEF AgentRunSpec

(* Whatever sweeps overlap, crash or fail to count, the sweep of one       *)
(* replica starts at most MaxRecoveryAttempts recoveries of a run, and one *)
(* more for each resume whose count was not made or was made while         *)
(* somebody held an older copy of the row.  N replicas may start N times   *)
(* as many, because their sweeps may read the same count.                  *)
THEOREM RecoveriesCapped == AgentRunSpec => []RecoveriesBounded
<1>1. Inductive /\ Counted => RecoveriesBounded
  <2> SUFFICES ASSUME Inductive, WithinCap, NEW t \in Servers
               PROVE  recovered[t] <= MaxRecoveryAttempts + uncounted
    BY DEF Counted, RecoveriesBounded
  <2>1. recovered[t] \in Nat /\ MaxRecoveryAttempts + uncounted \in Nat BY CountTypes
  <2>2. recovered[t] + (IF Chosen(t) THEN 1 ELSE 0) <= MaxRecoveryAttempts + uncounted
    BY DEF WithinCap
  <2>3. CASE Chosen(t)
    <3>1. recovered[t] + 1 <= MaxRecoveryAttempts + uncounted BY <2>2, <2>3
    <3> QED BY <2>1, <3>1
  <2>4. CASE ~Chosen(t)
    <3>1. recovered[t] + 0 <= MaxRecoveryAttempts + uncounted BY <2>2, <2>4
    <3> QED BY <2>1, <3>1
  <2> QED BY <2>3, <2>4
<1> QED
  BY <1>1, InitInductive, NextInductive, InitCounted, NextCounted, PTL DEF AgentRunSpec
=================================================================================
