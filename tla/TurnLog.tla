------------------------------- MODULE TurnLog -------------------------------
(***************************************************************************)
(* What the assistant of a project promises, however many replicas serve   *)
(* it: its turns are a log, opened one after the other and closed once,    *)
(* and one replica at a time writes to the project for the open turn.      *)
(* Revisions, activity claims and what a replica keeps in memory are not   *)
(* seen here.                                                              *)
(***************************************************************************)
CONSTANTS Turns, Writers

VARIABLES
    log,      \* log[n]: status of turn n
    writers   \* the replicas that may write to the project

vars == <<log, writers>>

Closed == {"finished", "interrupted"}
Becomes(n, st) == log' = [log EXCEPT ![n] = st]

Init == log = [n \in Turns |-> "none"] /\ writers = {}

(* A turn opens when all before it are closed.                             *)
Open(n) ==
    /\ log[n] = "none" /\ \A m \in Turns : log[m] \in Closed \cup {"none"}
    /\ Becomes(n, "running") /\ UNCHANGED writers

(* A replica starts to write for a turn, or resumes one that waits for an  *)
(* answer.                                                                 *)
TakeUp(w, n) ==
    /\ writers = {} /\ log[n] \in {"running", "pending"}
    /\ Becomes(n, "running") /\ writers' = {w}

(* Whatever ends the writing of a turn is seen by its writer at once.      *)
Pause(n) == log[n] = "running" /\ Becomes(n, "pending") /\ writers' = {}
Stop(n) == log[n] = "running" /\ Becomes(n, "stopping") /\ writers' = {}
Close(n, st) ==
    /\ log[n] \in {"running", "pending", "stopping"}
    /\ Becomes(n, st) /\ writers' = {}

(* The writer crashes, or gives up its turn after a write that failed.     *)
LetGo == writers # {} /\ writers' = {} /\ UNCHANGED log

Next ==
    \/ \E n \in Turns :
          \/ Open(n) \/ Pause(n) \/ Stop(n)
          \/ \E st \in Closed : Close(n, st)
          \/ \E w \in Writers : TakeUp(w, n)
    \/ LetGo

Spec == Init /\ [][Next]_vars
=============================================================================
