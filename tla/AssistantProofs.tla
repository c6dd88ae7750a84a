---------------------------- MODULE AssistantProofs ----------------------------
(***************************************************************************)
(* For any number of replicas, turns, revisions, stalls and crashes: never *)
(* two replicas that would admit a mutation, and the status of a turn only *)
(* moves forward.                                                          *)
(*                                                                         *)
(* A replica may supervise a turn that others have long closed or taken    *)
(* on.  What saves it is the revision: the invariant relates every record  *)
(* a replica keeps in memory to the row (Sound).  A record that still runs *)
(* is either at the row's revision, and then the row runs too, or the row  *)
(* is closed and its revision is out of reach.  Two records that both run  *)
(* can only be on a closed row (OneRunner).                                *)
(***************************************************************************)
EXTENDS AssistantSupervisor, TLAPS

Open == {"pending", "running", "stopping"}

(* A record s in memory, and the row of its run.                           *)
Sound(s, row) ==
    /\ row.st # "none" /\ s.base <= row.rev /\ s.rev <= row.rev
    /\ row.st \in Closed /\ s.st \notin Closed => s.rev < row.rev
    /\ s.st = "running" => row.st \in Closed \/ (row.st = "running" /\ s.rev = row.rev)
    /\ s.st = "stopping" => row.st \in Closed \cup {"stopping"}
    /\ s.worker = "claimed" => s.st = "running"

Shapes ==
    /\ turn \in [Turns -> [st : Statuses, rev : Nat]]
    /\ claim \in [owner : Studios \cup {NoStudio}, detail : 0..MaxRuns, fresh : BOOLEAN]
    /\ sup \in [Studios -> Supervised]
    /\ reserved \subseteq Studios
    /\ start \in [Studios -> [pc : {"idle", "reserved", "created", "ending", "releasing"}, id : 0..MaxRuns]]
    /\ releases \in [Studios -> Nat]
    /\ look \in [Studios -> [id : 0..MaxRuns, rev : Nat]]
    /\ upsets \in Nat

SupOK ==
    \A r \in Studios : sup[r] = Detached \/ (sup[r].id \in Turns /\ Sound(sup[r], turn[sup[r].id]))

Runs(r, n) == sup[r].id = n /\ sup[r].st = "running"
OneRunner ==
    \A q, r \in Studios : \A n \in Turns :
        q # r /\ Runs(q, n) /\ Runs(r, n) => turn[n].st \in Closed

InOrder == \A m, n \in Turns : m < n /\ turn[n].st # "none" => turn[m].st \in Closed

(* A run that is being started is untouched and nobody else's, or closed.  *)
Starts(r, n) == start[r].pc = "created" /\ start[r].id = n
Untouched(r, n) ==
    /\ turn[n] = [st |-> "running", rev |-> 1]
    /\ \A q \in Studios : sup[q].id # n /\ (q # r => ~Starts(q, n))
StartOK ==
    \A r \in Studios : start[r].pc = "created" =>
        /\ start[r].id \in Turns
        /\ \/ Untouched(r, start[r].id)
           \/ turn[start[r].id].st \in Closed /\ turn[start[r].id].rev > 1

LookOK ==
    \A r \in Studios : look[r].id # 0 =>
        /\ look[r].id \in Turns /\ turn[look[r].id].st # "none"
        /\ look[r].rev <= turn[look[r].id].rev
        /\ turn[look[r].id].st \in Closed => look[r].rev < turn[look[r].id].rev

IInv == Shapes /\ SupOK /\ OneRunner /\ InOrder /\ StartOK /\ LookOK

LEMMA InitIInv == AssistantInit => IInv
<1> SUFFICES ASSUME AssistantInit PROVE IInv OBVIOUS
<1> USE AssistantAssumption DEF AssistantInit
<1>0. 0 \in 0..MaxRuns OBVIOUS
<1>1. NoClaim \in [owner : Studios \cup {NoStudio}, detail : 0..MaxRuns, fresh : BOOLEAN]
  BY <1>0 DEF NoClaim
<1>2. Detached \in Supervised BY <1>0 DEF Detached, Supervised, Statuses
<1>3. Shapes BY <1>0, <1>1, <1>2 DEF Shapes, Statuses
<1>4. SupOK BY DEF SupOK
<1>5. OneRunner BY DEF OneRunner, Runs, Detached
<1>6. InOrder BY DEF InOrder
<1>7. StartOK /\ LookOK BY DEF StartOK, LookOK
<1> QED BY <1>3, <1>4, <1>5, <1>6, <1>7 DEF IInv

(* The invariant gives the type invariant.                                 *)
LEMMA IInvTypes == IInv => AssistantTypeOK
<1> SUFFICES ASSUME IInv PROVE AssistantTypeOK OBVIOUS
<1>1. \A m, n \in Turns :
         turn[m].st \notin Closed \cup {"none"} /\ turn[n].st \notin Closed \cup {"none"} => m = n
  <2> SUFFICES ASSUME NEW m \in Turns, NEW n \in Turns, m # n,
                      turn[m].st \notin Closed \cup {"none"}, turn[n].st \notin Closed \cup {"none"}
               PROVE  FALSE
    OBVIOUS
  <2>1. m < n \/ n < m BY AssistantAssumption DEF Turns
  <2> QED BY <2>1 DEF IInv, InOrder
<1>2. \A r \in Studios : sup[r].id # 0 => sup[r].base <= turn[sup[r].id].rev
  BY DEF IInv, SupOK, Sound, Detached
<1> QED BY <1>1, <1>2 DEF IInv, Shapes, AssistantTypeOK

-----------------------------------------------------------------------------
(* What a step does to a row.                                              *)
Closes(p, q) == p.st \in Open /\ q.st \in Closed /\ q.rev = p.rev + 1
Goes(p, q) ==
    /\ p.st \in Open /\ q.st \in Open /\ q.rev \in {p.rev, p.rev + 1}
    /\ p.st = "stopping" => q.st = "stopping"
    /\ p.st = "pending" => q.st = "running"
RowStep(p, q) == q = p \/ Closes(p, q) \/ Goes(p, q)

Rows == [st : Statuses, rev : Nat]

(* A record that its replica leaves alone stays sound when somebody else   *)
(* closes the row, and when somebody else moves it unless the record runs. *)
LEMMA Bystander ==
    ASSUME NEW s \in Supervised, NEW p \in Rows, NEW q \in Rows, Sound(s, p),
           q = p \/ Closes(p, q) \/ (Goes(p, q) /\ s.st # "running")
    PROVE  Sound(s, q)
  BY DEF Sound, Closes, Goes, Open, Closed, Rows, Supervised, Statuses, Waiting

LEMMA LookKept ==
    ASSUME IInv, Shapes', \A n \in Turns : RowStep(turn[n], turn'[n]),
           \A r \in Studios : look'[r] = look[r] \/ look'[r].id = 0
    PROVE  LookOK'
<1> SUFFICES ASSUME NEW r \in Studios, look'[r].id # 0
             PROVE  /\ look'[r].id \in Turns /\ turn'[look'[r].id].st # "none"
                    /\ look'[r].rev <= turn'[look'[r].id].rev
                    /\ turn'[look'[r].id].st \in Closed => look'[r].rev < turn'[look'[r].id].rev
  BY DEF LookOK
<1> DEFINE n == look[r].id
<1>1. /\ look'[r] = look[r] /\ n \in Turns /\ turn[n].st # "none"
      /\ look[r].rev <= turn[n].rev /\ (turn[n].st \in Closed => look[r].rev < turn[n].rev)
  BY DEF IInv, LookOK
<1>2. turn[n] \in Rows /\ turn'[n] \in Rows /\ look[r].rev \in Nat
  BY <1>1 DEF IInv, Shapes, Rows
<1>3. RowStep(turn[n], turn'[n]) BY <1>1
<1> HIDE DEF n
<1>4. /\ turn'[n].st # "none" /\ look[r].rev <= turn'[n].rev
      /\ (turn'[n].st \in Closed => look[r].rev < turn'[n].rev)
  BY <1>1, <1>2, <1>3 DEF RowStep, Closes, Goes, Open, Closed, Rows
<1> QED BY <1>1, <1>4 DEF n

LEMMA OrderKept ==
    ASSUME IInv, \A n \in Turns : RowStep(turn[n], turn'[n])
    PROVE  InOrder'
<1> SUFFICES ASSUME NEW m \in Turns, NEW n \in Turns, m < n, turn'[n].st # "none"
             PROVE  turn'[m].st \in Closed
  BY DEF InOrder
<1>1. turn[n].st # "none"
  BY DEF RowStep, Closes, Goes, Open
<1>2. turn[m].st \in Closed BY <1>1 DEF IInv, InOrder
<1> QED BY <1>2 DEF RowStep, Closes, Goes, Open, Closed

(* Requests that are starting a run: they stay or end, and a run that was  *)
(* untouched is so still, or was closed.                                   *)
LEMMA StartKept ==
    ASSUME IInv, Shapes', \A n \in Turns : RowStep(turn[n], turn'[n]),
           \A r \in Studios : start'[r] = start[r] \/ start'[r].pc # "created",
           \A r \in Studios, n \in Turns : Starts(r, n) /\ Starts(r, n)' /\ Untouched(r, n) =>
               \/ turn'[n] = turn[n] /\ \A q \in Studios : sup'[q].id # n
               \/ Closes(turn[n], turn'[n])
    PROVE  StartOK'
<1> SUFFICES ASSUME NEW r \in Studios, start'[r].pc = "created"
             PROVE  (/\ start[r].id \in Turns
                     /\ \/ Untouched(r, start[r].id)
                        \/ turn[start[r].id].st \in Closed /\ turn[start[r].id].rev > 1)'
  BY DEF StartOK
<1>1. PICK n \in Turns : n = start[r].id /\ start'[r] = start[r] /\ start[r].pc = "created"
  BY DEF IInv, StartOK
<1>2. Starts(r, n) /\ Starts(r, n)' BY <1>1 DEF Starts
<1>3. CASE turn[n].st \in Closed /\ turn[n].rev > 1
  <2>1. turn'[n] = turn[n] BY <1>1, <1>3 DEF RowStep, Closes, Goes, Open, Closed
  <2> QED BY <1>1, <1>3, <2>1
<1>4. CASE Untouched(r, n)
  <2>1. CASE turn'[n] = turn[n] /\ \A q \in Studios : sup'[q].id # n
    <3>1. \A q \in Studios : q # r => ~Starts(q, n)'
      BY <1>4 DEF Untouched, Starts
    <3>2. Untouched(r, n)' BY <1>4, <2>1, <3>1 DEF Untouched
    <3> QED BY <1>1, <3>2 DEF Untouched, Starts
  <2>2. CASE Closes(turn[n], turn'[n])
    BY <1>1, <1>4, <2>2 DEF Closes, Untouched
  <2> QED BY <1>1, <1>2, <1>4, <2>1, <2>2
<1> QED BY <1>1, <1>3, <1>4 DEF IInv, StartOK

(* A step that leaves the records alone, and every row alone or closed.    *)
LEMMA RowsOnly ==
    ASSUME IInv, Shapes', sup' = sup, LookOK',
           \A n \in Turns : turn'[n] = turn[n] \/ Closes(turn[n], turn'[n]),
           \A r \in Studios : start'[r] = start[r] \/ start'[r].pc # "created"
    PROVE  IInv'
<1>1. \A n \in Turns : RowStep(turn[n], turn'[n]) BY DEF RowStep
<1>2. InOrder' BY <1>1, OrderKept
<1>3. StartOK'
  <2>1. \A r \in Studios, n \in Turns : Starts(r, n) /\ Starts(r, n)' /\ Untouched(r, n) =>
               \/ turn'[n] = turn[n] /\ \A q \in Studios : sup'[q].id # n
               \/ Closes(turn[n], turn'[n])
    BY DEF Untouched
  <2> QED BY <1>1, <2>1, StartKept
<1>4. SupOK'
  <2> SUFFICES ASSUME NEW r \in Studios, sup[r] # Detached
               PROVE  sup[r].id \in Turns /\ Sound(sup[r], turn'[sup[r].id])
    BY DEF SupOK
  <2>1. PICK n \in Turns : n = sup[r].id /\ Sound(sup[r], turn[n]) BY DEF IInv, SupOK
  <2>2. sup[r] \in Supervised /\ turn[n] \in Rows /\ turn'[n] \in Rows
    BY <2>1 DEF IInv, Shapes, Rows
  <2>3. Sound(sup[r], turn'[n]) BY <2>1, <2>2, Bystander
  <2> QED BY <2>1, <2>3
<1>5. OneRunner'
  <2> SUFFICES ASSUME NEW q \in Studios, NEW r \in Studios, NEW n \in Turns, q # r,
                      Runs(q, n), Runs(r, n)
               PROVE  turn'[n].st \in Closed
    BY DEF OneRunner, Runs
  <2>1. turn[n].st \in Closed BY DEF IInv, OneRunner
  <2> QED BY <2>1 DEF Closes
<1> QED BY <1>2, <1>3, <1>4, <1>5 DEF IInv

(* A step of replica r: its record becomes e, sound and alone in running;  *)
(* the row of its run may go on when nobody else runs it.                  *)
LEMMA OwnerStep ==
    ASSUME IInv, Shapes', LookOK', NEW r \in Studios, NEW e \in Supervised,
           sup' = [sup EXCEPT ![r] = e],
           e = Detached \/ (e.id \in Turns /\ Sound(e, turn'[e.id])),
           e.st = "running" => turn'[e.id].st \in Closed \/ \A q \in Studios : q # r => ~Runs(q, e.id),
           \A n \in Turns : \/ turn'[n] = turn[n]
                            \/ Closes(turn[n], turn'[n])
                            \/ /\ Goes(turn[n], turn'[n]) /\ n = sup[r].id
                               /\ \A q \in Studios : q # r => ~Runs(q, n),
           \A q \in Studios : start'[q] = start[q] \/ start'[q].pc # "created",
           \A q \in Studios, n \in Turns :
               Starts(q, n) /\ Starts(q, n)' /\ Untouched(q, n) => e.id # n
    PROVE  IInv'
<1>0. sup \in [Studios -> Supervised] BY DEF IInv, Shapes
<1>1. \A n \in Turns : RowStep(turn[n], turn'[n]) BY DEF RowStep
<1>2. InOrder' BY <1>1, OrderKept
<1>3. StartOK'
  <2>1. \A q \in Studios, n \in Turns : Starts(q, n) /\ Starts(q, n)' /\ Untouched(q, n) =>
               \/ turn'[n] = turn[n] /\ \A w \in Studios : sup'[w].id # n
               \/ Closes(turn[n], turn'[n])
    BY <1>0 DEF Untouched
  <2> QED BY <1>1, <2>1, StartKept
<1>4. SupOK'
  <2> SUFFICES ASSUME NEW q \in Studios, sup'[q] # Detached
               PROVE  sup'[q].id \in Turns /\ Sound(sup'[q], turn'[sup'[q].id])
    BY DEF SupOK
  <2>1. CASE q = r BY <1>0, <2>1
  <2>2. CASE q # r
    <3>0. sup'[q] = sup[q] BY <1>0, <2>2
    <3>1. PICK n \in Turns : n = sup[q].id /\ Sound(sup[q], turn[n]) BY <3>0 DEF IInv, SupOK
    <3>2. sup[q] \in Supervised /\ turn[n] \in Rows /\ turn'[n] \in Rows
      BY <3>1 DEF IInv, Shapes, Rows
    <3>3. \/ turn'[n] = turn[n] \/ Closes(turn[n], turn'[n])
          \/ Goes(turn[n], turn'[n]) /\ sup[q].st # "running"
      BY <2>2, <3>1 DEF Runs
    <3>4. Sound(sup[q], turn'[n]) BY <3>1, <3>2, <3>3, Bystander
    <3> QED BY <3>0, <3>1, <3>4
  <2> QED BY <2>1, <2>2
<1>5. OneRunner'
  <2> SUFFICES ASSUME NEW q \in Studios, NEW w \in Studios, NEW n \in Turns, q # w,
                      Runs(q, n)', Runs(w, n)'
               PROVE  turn'[n].st \in Closed
    BY DEF OneRunner
  <2>1. CASE q = r
    <3>1. e.id = n /\ e.st = "running" /\ Runs(w, n) BY <1>0, <2>1 DEF Runs
    <3> QED BY <2>1, <3>1
  <2>2. CASE w = r
    <3>1. e.id = n /\ e.st = "running" /\ Runs(q, n) BY <1>0, <2>2 DEF Runs
    <3> QED BY <2>2, <3>1
  <2>3. CASE q # r /\ w # r
    <3>1. Runs(q, n) /\ Runs(w, n) BY <1>0, <2>3 DEF Runs
    <3>2. turn[n].st \in Closed BY <3>1 DEF IInv, OneRunner
    <3> QED BY <2>3, <3>1, <3>2 DEF Closes
  <2> QED BY <2>1, <2>2, <2>3
<1> QED BY <1>2, <1>3, <1>4, <1>5 DEF IInv

(* Whoever runs or stops a run at the revision of its row is the only one. *)
LEMMA Alone ==
    ASSUME IInv, NEW r \in Studios, sup[r].id # 0, sup[r].st \notin Closed,
           AtRevision(sup[r].id, sup[r].rev)
    PROVE  /\ sup[r].id \in Turns /\ turn[sup[r].id].st \in Open
           /\ sup[r].st \in Waiting => /\ turn[sup[r].id].st = sup[r].st
                                       /\ \A q \in Studios : q # r => ~Runs(q, sup[r].id)
<1>1. PICK n \in Turns : n = sup[r].id /\ Sound(sup[r], turn[n]) BY DEF IInv, SupOK, Detached
<1>2. turn[n].rev = sup[r].rev /\ turn[n].rev \in Nat /\ turn[n].st \in Statuses
  BY <1>1 DEF AtRevision, IInv, Shapes
<1>3. turn[n].st \in Open BY <1>1, <1>2 DEF Sound, Open, Statuses, Waiting
<1>4. ASSUME sup[r].st \in Waiting PROVE turn[n].st = sup[r].st
  BY <1>1, <1>3, <1>4 DEF Sound, Waiting, Open, Closed
<1>5. ASSUME sup[r].st \in Waiting, NEW q \in Studios, q # r, Runs(q, n) PROVE FALSE
  <2>1. sup[q].id = n /\ Sound(sup[q], turn[n]) BY <1>5, <1>1 DEF Runs, IInv, SupOK, Detached
  <2>2. turn[n].st = "running" BY <1>3, <1>5, <2>1 DEF Sound, Runs, Open, Closed
  <2>3. Runs(r, n) BY <1>1, <1>4, <1>5, <2>2 DEF Runs
  <2> QED BY <1>3, <1>5, <2>3 DEF IInv, OneRunner, Open, Closed
<1> QED BY <1>1, <1>3, <1>4, <1>5

-----------------------------------------------------------------------------
(* The actions.  First those that leave the records alone.                 *)
LEMMA QuietKept ==
    ASSUME IInv, NEW r \in Studios,
           \/ Reserve(r) \/ ReleaseReservation(r) \/ ReleaseHeld(r) \/ ReleaseLate(r)
           \/ RenewClaim(r) \/ ClaimExpires
    PROVE  IInv'
<1> USE AssistantAssumption
<1>1. sup' = sup /\ turn' = turn /\ look' = look
  BY DEF Reserve, ReleaseReservation, ReleaseHeld, ReleaseLate, RenewClaim, ClaimExpires
<1>2. \A q \in Studios : start'[q] = start[q] \/ start'[q].pc # "created"
  BY DEF Reserve, ReleaseReservation, ReleaseHeld, ReleaseLate, RenewClaim, ClaimExpires, IInv, Shapes
<1>3. Shapes'
  <2> USE DEF IInv, Shapes
  <2>0. NoClaim \in [owner : Studios \cup {NoStudio}, detail : 0..MaxRuns, fresh : BOOLEAN] /\ 0 \in 0..MaxRuns
    BY DEF NoClaim
  <2>1. CASE Reserve(r) BY <2>0, <2>1 DEF Reserve, Claim
  <2>2. CASE ReleaseReservation(r) BY <2>2 DEF ReleaseReservation
  <2>3. CASE ReleaseHeld(r) BY <2>0, <2>3 DEF ReleaseHeld, DropClaim
  <2>4. CASE ReleaseLate(r) BY <2>0, <2>4 DEF ReleaseLate, DropClaim
  <2>5. CASE RenewClaim(r) BY <2>5 DEF RenewClaim
  <2>6. CASE ClaimExpires
    <3>1. claim' \in [owner : Studios \cup {NoStudio}, detail : 0..MaxRuns, fresh : BOOLEAN]
      BY <2>6 DEF ClaimExpires
    <3>2. upsets' \in Nat BY <2>6 DEF ClaimExpires, Upset
    <3> QED BY <2>6, <3>1, <3>2 DEF ClaimExpires
  <2> QED BY <2>1, <2>2, <2>3, <2>4, <2>5, <2>6
<1>4. LookOK' BY <1>1 DEF IInv, LookOK
<1> QED BY <1>1, <1>2, <1>3, <1>4, RowsOnly

LEMMA ReconcileKept ==
    ASSUME IInv, NEW r \in Studios, NEW n \in Turns, Reconcile(r, n) PROVE IInv'
<1>1. /\ sup' = sup /\ turn' = turn /\ start' = start /\ turn[n].st \in Waiting /\ n \in 0..MaxRuns
      /\ look' = [look EXCEPT ![r] = [id |-> n, rev |-> turn[n].rev]]
  BY AssistantAssumption DEF Reconcile, LooksOrphaned, Turns
<1>2. Shapes' BY <1>1 DEF Reconcile, IInv, Shapes
<1>3. turn[n].rev \in Nat BY DEF IInv, Shapes
<1>4. LookOK'
  <2> SUFFICES ASSUME NEW q \in Studios, look'[q].id # 0
               PROVE  /\ look'[q].id \in Turns /\ turn[look'[q].id].st # "none"
                      /\ look'[q].rev <= turn[look'[q].id].rev
                      /\ turn[look'[q].id].st \in Closed => look'[q].rev < turn[look'[q].id].rev
    BY <1>1 DEF LookOK
  <2>1. CASE q = r BY <1>1, <1>3, <2>1 DEF IInv, Shapes, Waiting, Closed
  <2>2. CASE q # r BY <1>1, <2>2 DEF IInv, LookOK, Shapes
  <2> QED BY <2>1, <2>2
<1> QED BY <1>1, <1>2, <1>4, RowsOnly

LEMMA InterruptKept ==
    ASSUME IInv, NEW r \in Studios, InterruptOrphan(r)
    PROVE  IInv' /\ \A n \in Turns : turn'[n] = turn[n] \/ Closes(turn[n], turn'[n])
<1> USE AssistantAssumption
<1>1. PICK n \in Turns : n = look[r].id /\ turn[n].st # "none" /\ look[r].rev \in Nat
                         /\ (turn[n].st \in Closed => look[r].rev < turn[n].rev)
  BY DEF InterruptOrphan, IInv, LookOK, Shapes
<1>2. /\ sup' = sup /\ start' = start
      /\ look' = [look EXCEPT ![r] = [id |-> 0, rev |-> 0]]
  BY DEF InterruptOrphan
<1>3. turn \in [Turns -> Rows] /\ "interrupted" \in Statuses
  BY DEF IInv, Shapes, Rows, Statuses, Closed
<1>4. turn' = turn \/ (turn[n].rev = look[r].rev
                       /\ turn' = [turn EXCEPT ![n] = [st |-> "interrupted", rev |-> look[r].rev + 1]])
  BY <1>1 DEF InterruptOrphan, AtRevision, Save
<1>5. \A m \in Turns : turn'[m] = turn[m] \/ Closes(turn[m], turn'[m])
  BY <1>1, <1>3, <1>4 DEF Closes, Open, Closed, Rows, Statuses, Waiting
<1>6. Shapes'
  <2>1. turn' \in [Turns -> Rows] BY <1>1, <1>3, <1>4 DEF Rows
  <2>2. look' \in [Studios -> [id : 0..MaxRuns, rev : Nat]] BY <1>2 DEF IInv, Shapes
  <2> QED BY <2>1, <2>2 DEF InterruptOrphan, IInv, Shapes, Rows
<1>7. LookOK'
  <2>1. \A m \in Turns : RowStep(turn[m], turn'[m]) BY <1>5 DEF RowStep
  <2>2. \A q \in Studios : look'[q] = look[q] \/ look'[q].id = 0 BY <1>2 DEF IInv, Shapes
  <2> QED BY <1>6, <2>1, <2>2, LookKept
<1> QED BY <1>2, <1>5, <1>6, <1>7, RowsOnly

(* A start that fails closes the run only if nobody has touched it.        *)
LEMMA StartFailsKept ==
    ASSUME IInv, NEW r \in Studios, StartFails(r)
    PROVE  IInv' /\ \A n \in Turns : turn'[n] = turn[n] \/ Closes(turn[n], turn'[n])
<1> USE AssistantAssumption
<1>1. PICK n \in Turns : n = start[r].id /\ (turn[n].rev = 1 => turn[n].st = "running")
  BY DEF StartFails, IInv, StartOK, Untouched
<1>2. /\ sup' = sup /\ look' = look
      /\ start' = [start EXCEPT ![r] = [pc |-> "ending", id |-> 0]]
  BY DEF StartFails
<1>3. turn \in [Turns -> Rows] /\ "finished" \in Statuses
  BY DEF IInv, Shapes, Rows, Statuses, Closed
<1>4. turn' = turn \/ (turn[n].rev = 1 /\ turn' = [turn EXCEPT ![n] = [st |-> "finished", rev |-> 1 + 1]])
  BY <1>1 DEF StartFails, AtRevision, Save
<1>5. \A m \in Turns : turn'[m] = turn[m] \/ Closes(turn[m], turn'[m])
  BY <1>1, <1>3, <1>4 DEF Closes, Open, Closed, Rows
<1>6. Shapes'
  <2>1. turn' \in [Turns -> Rows] BY <1>3, <1>4 DEF Rows
  <2>2. reserved' \subseteq Studios /\ releases' \in [Studios -> Nat] /\ upsets' \in Nat
    BY DEF StartFails, Upset, IInv, Shapes
  <2>3. start' \in [Studios -> [pc : {"idle", "reserved", "created", "ending", "releasing"}, id : 0..MaxRuns]]
    BY <1>2 DEF IInv, Shapes
  <2>4. claim' = claim /\ sup' = sup /\ look' = look BY DEF StartFails
  <2> HIDE AssistantAssumption
  <2> QED BY <2>1, <2>2, <2>3, <2>4 DEF IInv, Shapes, Rows
<1>7. LookOK'
  <2>1. \A m \in Turns : RowStep(turn[m], turn'[m]) BY <1>5 DEF RowStep
  <2> QED BY <1>2, <1>6, <2>1, LookKept
<1>8. \A q \in Studios : start'[q] = start[q] \/ start'[q].pc # "created"
  BY <1>2 DEF IInv, Shapes
<1> QED BY <1>2, <1>5, <1>6, <1>7, <1>8, RowsOnly

(* A new run: no record and no request can be about it before.             *)
LEMMA CreateKept ==
    ASSUME IInv, NEW r \in Studios, NEW n \in Turns, CreateRun(r, n) PROVE IInv'
<1> USE AssistantAssumption
<1>1. /\ turn[n].st = "none" /\ sup' = sup /\ look' = look
      /\ \A m \in Turns : m < n => turn[m].st \in Closed
      /\ turn' = [turn EXCEPT ![n] = [st |-> "running", rev |-> 1]]
      /\ start' = [start EXCEPT ![r] = [pc |-> "created", id |-> n]]
  BY DEF CreateRun
<1>2. /\ turn \in [Turns -> Rows] /\ "running" \in Statuses /\ n \in 0..MaxRuns
      /\ start \in [Studios -> [pc : {"idle", "reserved", "created", "ending", "releasing"}, id : 0..MaxRuns]]
  BY DEF IInv, Shapes, Rows, Statuses, Waiting, Turns
<1>3. Shapes'
  <2>1. turn' \in [Turns -> Rows] BY <1>1, <1>2 DEF Rows
  <2> QED BY <1>1, <1>2, <2>1 DEF CreateRun, IInv, Shapes, Rows
<1>4. \A m \in Turns : m # n => turn'[m] = turn[m] BY <1>1, <1>2
<1>5. turn'[n] = [st |-> "running", rev |-> 1] BY <1>1, <1>2
<1>6. \A q \in Studios : sup[q].id # n
  <2> SUFFICES ASSUME NEW q \in Studios, sup[q].id = n PROVE FALSE OBVIOUS
  <2>1. sup[q] # Detached BY DEF Detached, Turns
  <2> QED BY <1>1, <2>1 DEF IInv, SupOK, Sound
<1>7. SupOK' /\ OneRunner'
  <2>1. SupOK' BY <1>1, <1>4, <1>6 DEF IInv, SupOK
  <2>2. OneRunner' BY <1>1, <1>4, <1>6 DEF IInv, OneRunner, Runs
  <2> QED BY <2>1, <2>2
<1>8. InOrder'
  <2> SUFFICES ASSUME NEW k \in Turns, NEW m \in Turns, k < m, turn'[m].st # "none"
               PROVE  turn'[k].st \in Closed
    BY DEF InOrder
  <2>1. CASE m = n
    <3>1. k # n BY <2>1 DEF Turns
    <3> QED BY <1>1, <1>4, <2>1, <3>1
  <2>2. CASE m # n
    <3>1. turn[k].st \in Closed BY <1>4, <2>2 DEF IInv, InOrder
    <3>2. k # n BY <1>1, <3>1 DEF Closed
    <3> QED BY <1>4, <3>1, <3>2
  <2> QED BY <2>1, <2>2
<1>9. \A q \in Studios : ~Starts(q, n)
  BY <1>1 DEF IInv, StartOK, Starts, Untouched, Closed
<1>10. StartOK'
  <2> SUFFICES ASSUME NEW q \in Studios, start'[q].pc = "created"
               PROVE  (/\ start[q].id \in Turns
                       /\ \/ Untouched(q, start[q].id)
                          \/ turn[start[q].id].st \in Closed /\ turn[start[q].id].rev > 1)'
    BY DEF StartOK
  <2>1. CASE q = r
    <3>1. start'[q].id = n BY <1>1, <1>2, <2>1
    <3>2. \A w \in Studios : w # r => ~Starts(w, n)'
      BY <1>1, <1>2, <1>9 DEF Starts
    <3>3. Untouched(q, n)' BY <1>1, <1>5, <1>6, <2>1, <3>2 DEF Untouched
    <3> QED BY <3>1, <3>3 DEF Untouched, Starts
  <2>2. CASE q # r
    <3>1. PICK m \in Turns : m = start[q].id /\ start'[q] = start[q] /\ start[q].pc = "created"
      BY <1>1, <1>2, <2>2 DEF IInv, StartOK
    <3>2. m # n BY <1>9, <3>1 DEF Starts
    <3>3. CASE Untouched(q, m)
      <4>1. \A w \in Studios : w # q => ~Starts(w, m)'
        BY <1>1, <1>2, <3>2, <3>3 DEF Starts, Untouched
      <4>2. Untouched(q, m)' BY <1>1, <1>4, <3>2, <3>3, <4>1 DEF Untouched
      <4> QED BY <3>1, <4>2 DEF Untouched, Starts
    <3>4. CASE turn[m].st \in Closed /\ turn[m].rev > 1
      BY <1>4, <3>1, <3>2, <3>4
    <3> QED BY <3>1, <3>3, <3>4 DEF IInv, StartOK
  <2> QED BY <2>1, <2>2
<1>11. LookOK' BY <1>1, <1>4 DEF IInv, LookOK
<1> QED BY <1>3, <1>7, <1>8, <1>10, <1>11 DEF IInv

-----------------------------------------------------------------------------
(* The steps of a replica on the run it supervises.                        *)
Quiet == start' = start /\ look' = look /\ claim' = claim /\ reserved' = reserved

LEMMA SupervisedStep ==
    ASSUME IInv, NEW r \in Studios, sup[r].id # 0, NEW e \in Supervised,
           sup' = [sup EXCEPT ![r] = e], Quiet,
           turn' \in [Turns -> Rows], releases' \in [Studios -> Nat], upsets' \in Nat,
           e = Detached \/ (e.id = sup[r].id /\ Sound(e, turn'[e.id])),
           e.st = "running" => turn'[e.id].st \in Closed \/ \A q \in Studios : q # r => ~Runs(q, e.id),
           \A n \in Turns : \/ turn'[n] = turn[n]
                            \/ Closes(turn[n], turn'[n])
                            \/ /\ Goes(turn[n], turn'[n]) /\ n = sup[r].id
                               /\ \A q \in Studios : q # r => ~Runs(q, n)
    PROVE  IInv' /\ \A n \in Turns : RowStep(turn[n], turn'[n])
<1>1. \A n \in Turns : RowStep(turn[n], turn'[n]) BY DEF RowStep
<1>2. Shapes'
  <2>1. sup' \in [Studios -> Supervised] BY DEF IInv, Shapes
  <2> QED BY <2>1 DEF Quiet, IInv, Shapes, Rows
<1>3. LookOK' BY <1>1, <1>2, LookKept DEF Quiet
<1>4. sup[r].id \in Turns BY DEF IInv, SupOK, Detached
<1>5. \A q \in Studios, n \in Turns :
         Starts(q, n) /\ Starts(q, n)' /\ Untouched(q, n) => e.id # n
  <2>1. 0 \notin Turns BY AssistantAssumption DEF Turns
  <2> QED BY <1>4, <2>1 DEF Untouched, Detached
<1>6. \A q \in Studios : start'[q] = start[q] \/ start'[q].pc # "created" BY DEF Quiet
<1>7. e = Detached \/ (e.id \in Turns /\ Sound(e, turn'[e.id])) BY <1>4
<1> QED BY <1>1, <1>2, <1>3, <1>5, <1>6, <1>7, OwnerStep

(* The row after a save by r at the row's revision.                        *)
LEMMA SaveStep ==
    ASSUME IInv, NEW n \in Turns, turn[n].st \in Open, NEW st \in Open \cup Closed, NEW rev,
           AtRevision(n, rev), Save(n, rev, st),
           turn[n].st = "stopping" => st \in Closed \cup {"stopping"},
           turn[n].st = "pending" => st \in Closed
    PROVE  /\ turn' \in [Turns -> Rows] /\ turn'[n] = [st |-> st, rev |-> turn[n].rev + 1]
           /\ rev = turn[n].rev /\ rev \in Nat
           /\ \A m \in Turns : m # n => turn'[m] = turn[m]
           /\ st \in Closed => Closes(turn[n], turn'[n])
           /\ st \notin Closed => Goes(turn[n], turn'[n])
<1>1. turn \in [Turns -> Rows] /\ rev = turn[n].rev /\ st \in Statuses
  BY DEF IInv, Shapes, Rows, AtRevision, Open, Statuses, Waiting
<1>2. rev \in Nat BY <1>1 DEF Rows
<1>3. turn' = [turn EXCEPT ![n] = [st |-> st, rev |-> rev + 1]] BY DEF Save
<1>4. turn' \in [Turns -> Rows] BY <1>1, <1>2, <1>3 DEF Rows
<1>5. turn'[n] = [st |-> st, rev |-> turn[n].rev + 1] BY <1>1, <1>3
<1>6. \A m \in Turns : m # n => turn'[m] = turn[m] BY <1>1, <1>3
<1>7. st \in Closed => Closes(turn[n], turn'[n]) BY <1>5 DEF Closes
<1>8. st \notin Closed => Goes(turn[n], turn'[n]) BY <1>5 DEF Goes, Open, Closed
<1> QED BY <1>1, <1>2, <1>4, <1>5, <1>6, <1>7, <1>8

(* A record closed in memory, or handed on, is sound where it was.         *)
LEMMA ClosedRecord ==
    ASSUME NEW s \in Supervised, NEW p \in Rows, NEW q \in Rows, Sound(s, p),
           q = p \/ Closes(p, q), s.worker # "claimed", NEW st \in Closed,
           NEW e, e = [s EXCEPT !.st = st]
    PROVE  e \in Supervised /\ e.id = s.id /\ e.st = st /\ Sound(e, q)
<1>1. /\ e.id = s.id /\ e.st = st /\ e.rev = s.rev /\ e.base = s.base /\ e.worker = s.worker
      /\ e.queued = s.queued /\ st \in Statuses
  BY DEF Supervised, Statuses
<1>2. e \in Supervised BY <1>1 DEF Supervised
<1>3. Sound(e, q) BY <1>1 DEF Sound, Closes, Closed, Rows, Supervised
<1> QED BY <1>1, <1>2, <1>3

LEMMA Detaching ==
    ASSUME IInv, NEW r \in Studios, Remove(r)
    PROVE  /\ Detached \in Supervised /\ sup' = [sup EXCEPT ![r] = Detached]
           /\ releases' \in [Studios -> Nat] /\ Detached.st # "running"
<1>1. Detached \in Supervised /\ Detached.st # "running"
  BY AssistantAssumption DEF Detached, Supervised, Statuses
<1> QED BY <1>1 DEF Remove, IInv, Shapes

(* What r knows of its run.                                                *)
LEMMA Known ==
    ASSUME IInv, NEW r \in Studios, sup[r].id # 0
    PROVE  /\ sup[r] \in Supervised /\ sup[r].id \in Turns /\ sup \in [Studios -> Supervised]
           /\ turn \in [Turns -> Rows] /\ turn[sup[r].id] \in Rows
           /\ Sound(sup[r], turn[sup[r].id])
           /\ releases \in [Studios -> Nat] /\ upsets \in Nat
  BY DEF IInv, Shapes, Rows, SupOK, Detached

LEMMA MovingRun ==
    ASSUME IInv, NEW r \in Studios, NEW st, WorkerMoves(r, st)
    PROVE  /\ sup[r].id # 0 /\ sup[r].st \in Waiting /\ sup[r].st \notin Closed /\ sup[r].worker = "on"
           /\ st \in Open \cup Closed
           /\ sup[r].st = "stopping" => st \in Closed \cup {"stopping"}
<1>1. sup[r].worker = "on" /\ st \in Moves(r) BY DEF WorkerMoves
<1>2. sup[r].id # 0 BY <1>1, AssistantAssumption DEF IInv, SupOK, Detached, Turns
<1>3. CASE sup[r].st = "running" BY <1>1, <1>2, <1>3 DEF Moves, Open, Closed, Waiting
<1>4. CASE sup[r].st = "stopping" BY <1>1, <1>2, <1>4 DEF Moves, Open, Closed, Waiting
<1> QED BY <1>1, <1>3, <1>4 DEF Moves

(* r saves its record: the one shape of WorkerSave, StopRun, AbortRun, the *)
(* fallback of a failed save and the second write of ClaimPending.         *)
LEMMA SavingStep ==
    ASSUME IInv, NEW r \in Studios, sup[r].id # 0, sup[r].st \notin Closed,
           AtRevision(sup[r].id, sup[r].rev), NEW st \in Open \cup Closed,
           Save(sup[r].id, sup[r].rev, st), Quiet,
           st \in Closed \/ sup[r].st \in Waiting,
           sup[r].st = "stopping" => st \in Closed \cup {"stopping"},
           NEW w \in {"none", "on", "resume"},
           \/ /\ releases' = releases
              /\ sup' = [sup EXCEPT ![r] = [sup[r] EXCEPT !.st = st, !.rev = @ + 1,
                                              !.base = sup[r].rev + 1, !.worker = w]]
           \/ Remove(r),
           upsets' \in Nat
    PROVE  IInv' /\ \A n \in Turns : RowStep(turn[n], turn'[n])
<1> DEFINE n == sup[r].id
<1>1. /\ sup[r] \in Supervised /\ n \in Turns /\ turn[n] \in Rows /\ releases \in [Studios -> Nat]
  BY Known
<1>2. /\ turn[n].st \in Open
      /\ sup[r].st \in Waiting => /\ turn[n].st = sup[r].st
                                  /\ \A q \in Studios : q # r => ~Runs(q, n)
  BY Alone
<1>3. /\ turn[n].st = "stopping" => st \in Closed \cup {"stopping"}
      /\ turn[n].st = "pending" => st \in Closed
  BY <1>2 DEF Waiting
<1> HIDE DEF n
<1>4. /\ turn' \in [Turns -> Rows] /\ turn'[n] = [st |-> st, rev |-> turn[n].rev + 1]
      /\ sup[r].rev = turn[n].rev
      /\ \A m \in Turns : m # n => turn'[m] = turn[m]
      /\ st \in Closed => Closes(turn[n], turn'[n])
      /\ st \notin Closed => Goes(turn[n], turn'[n])
  <2>1. AtRevision(n, sup[r].rev) /\ Save(n, sup[r].rev, st) BY DEF n
  <2> QED BY <1>1, <1>2, <1>3, <2>1, SaveStep
<1>5. \A m \in Turns : \/ turn'[m] = turn[m]
                       \/ Closes(turn[m], turn'[m])
                       \/ /\ Goes(turn[m], turn'[m]) /\ m = sup[r].id
                          /\ \A q \in Studios : q # r => ~Runs(q, m)
  <2> SUFFICES ASSUME NEW m \in Turns
               PROVE  \/ turn'[m] = turn[m] \/ Closes(turn[m], turn'[m])
                      \/ /\ Goes(turn[m], turn'[m]) /\ m = sup[r].id
                         /\ \A q \in Studios : q # r => ~Runs(q, m)
    OBVIOUS
  <2>1. CASE m # n BY <1>4, <2>1
  <2>2. CASE m = n /\ st \in Closed BY <1>4, <2>2
  <2>3. CASE m = n /\ st \notin Closed
    <3>1. \A q \in Studios : q # r => ~Runs(q, n) BY <1>2, <2>3
    <3>2. Goes(turn[m], turn'[m]) BY <1>4, <2>3
    <3>3. m = sup[r].id BY <2>3 DEF n
    <3> QED BY <2>3, <3>1, <3>2, <3>3
  <2> QED BY <2>1, <2>2, <2>3
<1>6. CASE Remove(r)
  <2>1. /\ Detached \in Supervised /\ sup' = [sup EXCEPT ![r] = Detached]
        /\ releases' \in [Studios -> Nat] /\ Detached.st # "running"
    BY <1>6, Detaching
  <2> QED BY <1>4, <1>5, <2>1, SupervisedStep
<1>7. ASSUME NEW e, e = [sup[r] EXCEPT !.st = st, !.rev = @ + 1, !.base = sup[r].rev + 1, !.worker = w],
             releases' = releases, sup' = [sup EXCEPT ![r] = e]
      PROVE  IInv' /\ \A m \in Turns : RowStep(turn[m], turn'[m])
  <2>1. turn'[n] \in Rows /\ turn'[n] = [st |-> st, rev |-> sup[r].rev + 1] BY <1>1, <1>4
  <2>2. e \in Supervised /\ e.id = sup[r].id /\ e.st = st /\ Sound(e, turn'[n])
    <3>1. sup[r].rev + 1 \in Nat BY <1>1 DEF Supervised
    <3>2. e = [id |-> sup[r].id, st |-> st, rev |-> sup[r].rev + 1, base |-> sup[r].rev + 1,
               worker |-> w, queued |-> sup[r].queued]
      BY <1>1, <1>7 DEF Supervised
    <3>3. st \in Statuses BY DEF Open, Statuses, Waiting
    <3>4. e \in Supervised BY <1>1, <3>1, <3>2, <3>3 DEF Supervised
    <3>5. Sound(e, turn'[n]) BY <2>1, <3>1, <3>2 DEF Sound, Open, Closed
    <3> QED BY <3>2, <3>4, <3>5
  <2>3. e.id = n BY <2>2 DEF n
  <2>4. e.st = "running" => \A q \in Studios : q # r => ~Runs(q, e.id)
    BY <1>2, <2>2, <2>3 DEF Closed
  <2> QED BY <1>1, <1>4, <1>5, <1>7, <2>2, <2>3, <2>4, SupervisedStep
<1> QED BY <1>6, <1>7

(* r closes its record in memory; the row may have been closed by it.      *)
LEMMA ClosingStep ==
    ASSUME IInv, NEW r \in Studios, sup[r].id # 0, sup[r].worker # "claimed", NEW st \in Closed,
           sup' = [sup EXCEPT ![r] = [sup[r] EXCEPT !.st = st]], Quiet,
           \/ turn' = turn
           \/ /\ sup[r].st \notin Closed /\ AtRevision(sup[r].id, sup[r].rev)
              /\ Save(sup[r].id, sup[r].rev, st),
           releases' = releases, upsets' \in Nat
    PROVE  IInv' /\ \A n \in Turns : RowStep(turn[n], turn'[n])
<1> DEFINE n == sup[r].id
<1>1. /\ sup[r] \in Supervised /\ n \in Turns /\ turn \in [Turns -> Rows] /\ turn[n] \in Rows
      /\ Sound(sup[r], turn[n]) /\ releases \in [Studios -> Nat]
  BY Known
<1> HIDE DEF n
<1>2. /\ turn' \in [Turns -> Rows]
      /\ \A m \in Turns : turn'[m] = turn[m] \/ Closes(turn[m], turn'[m])
  <2>1. CASE turn' = turn BY <1>1, <2>1
  <2>2. CASE /\ sup[r].st \notin Closed /\ AtRevision(sup[r].id, sup[r].rev)
             /\ Save(sup[r].id, sup[r].rev, st)
    <3>1. turn[n].st \in Open BY <2>2, Alone DEF n
    <3>2. AtRevision(n, sup[r].rev) /\ Save(n, sup[r].rev, st) BY <2>2 DEF n
    <3> QED BY <1>1, <3>1, <3>2, SaveStep
  <2> QED BY <2>1, <2>2
<1>3. ASSUME NEW e, e = [sup[r] EXCEPT !.st = st], sup' = [sup EXCEPT ![r] = e]
      PROVE  IInv' /\ \A m \in Turns : RowStep(turn[m], turn'[m])
  <2>1. turn'[n] \in Rows /\ (turn'[n] = turn[n] \/ Closes(turn[n], turn'[n])) BY <1>1, <1>2
  <2>2. e \in Supervised /\ e.id = sup[r].id /\ e.st = st /\ Sound(e, turn'[n])
    BY <1>1, <1>3, <2>1, ClosedRecord
  <2>3. e.id = n BY <2>2 DEF n
  <2>4. e.st # "running" BY <2>2 DEF Closed
  <2> QED BY <1>1, <1>2, <1>3, <2>2, <2>3, <2>4, SupervisedStep
<1> QED BY <1>3

(* r drops its record, the row as it was.                                  *)
LEMMA RemovingStep ==
    ASSUME IInv, NEW r \in Studios, sup[r].id # 0, Remove(r), Quiet, turn' = turn, upsets' \in Nat
    PROVE  IInv' /\ \A n \in Turns : RowStep(turn[n], turn'[n])
<1>1. turn \in [Turns -> Rows] BY Known
<1> QED BY <1>1, Detaching, SupervisedStep

(* After a save that failed the row moved at its revision, or not at all.  *)
LEMMA FallbackKept ==
    ASSUME IInv, NEW r \in Studios, sup[r].id # 0, sup[r].st \in Waiting,
           AtRevision(sup[r].id, sup[r].rev), NEW st \in Open \cup Closed, Quiet,
           sup[r].st = "stopping" => st \in Closed \cup {"stopping"},
           Fallback(r, st), upsets' \in Nat
    PROVE  IInv' /\ \A n \in Turns : RowStep(turn[n], turn'[n])
<1> DEFINE n == sup[r].id
           base == sup[r].base
<1>1. sup[r] \in Supervised /\ sup \in [Studios -> Supervised] BY Known
<1>2. sup[r].st \notin Closed /\ "finished" \in Closed BY DEF Waiting, Closed
<1>3. AtRevision(n, base) => base = sup[r].rev BY DEF AtRevision
<1>4. CASE Save(n, sup[r].rev, st) /\ Remove(r) BY <1>2, <1>4, SavingStep
<1>5. CASE AtRevision(n, base) /\ Save(n, base, "finished") /\ Remove(r)
  <2>1. Save(n, sup[r].rev, "finished") BY <1>3, <1>5
  <2> QED BY <1>2, <1>5, <2>1, SavingStep
<1>6. CASE UNCHANGED turn /\ Remove(r) BY <1>6, RemovingStep
<1>7. CASE /\ AtRevision(n, base) /\ Save(n, base, "finished")
           /\ sup' = [sup EXCEPT ![r].st = "finished", ![r].rev = base + 1, ![r].base = base + 1,
                                 ![r].worker = "on"]
           /\ UNCHANGED releases
  <2>1. Save(n, sup[r].rev, "finished") BY <1>3, <1>7
  <2>2. sup' = [sup EXCEPT ![r] = [sup[r] EXCEPT !.st = "finished", !.rev = @ + 1,
                                     !.base = sup[r].rev + 1, !.worker = "on"]]
    BY <1>1, <1>3, <1>7 DEF Supervised
  <2> QED BY <1>2, <1>7, <2>1, <2>2, SavingStep
<1> QED BY <1>4, <1>5, <1>6, <1>7 DEF Fallback

(* r hands its record on to another segment of the worker.                 *)
LEMMA HandingStep ==
    ASSUME IInv, NEW r \in Studios, sup[r].id # 0, turn' = turn, releases' = releases, Quiet,
           upsets' \in Nat, NEW w \in {"none", "on", "resume"}, NEW b \in BOOLEAN,
           sup' = [sup EXCEPT ![r] = [sup[r] EXCEPT !.worker = w, !.queued = b]]
    PROVE  IInv' /\ \A n \in Turns : RowStep(turn[n], turn'[n])
<1>1. /\ sup[r] \in Supervised /\ turn \in [Turns -> Rows] /\ sup[r].id \in Turns
      /\ Sound(sup[r], turn[sup[r].id]) /\ releases \in [Studios -> Nat]
  BY Known
<1>2. ASSUME NEW e, e = [sup[r] EXCEPT !.worker = w, !.queued = b], sup' = [sup EXCEPT ![r] = e]
      PROVE  IInv' /\ \A n \in Turns : RowStep(turn[n], turn'[n])
  <2>1. /\ e.id = sup[r].id /\ e.st = sup[r].st /\ e.rev = sup[r].rev /\ e.base = sup[r].base
        /\ e.worker = w /\ e.queued = b
    BY <1>1, <1>2 DEF Supervised
  <2>2. e \in Supervised BY <1>1, <1>2 DEF Supervised
  <2>3. Sound(e, turn'[e.id]) BY <1>1, <2>1 DEF Sound
  <2>4. e.st = "running" => turn'[e.id].st \in Closed \/ \A q \in Studios : q # r => ~Runs(q, e.id)
    BY <1>1, <2>1 DEF IInv, OneRunner, Runs
  <2> QED BY <1>1, <1>2, <2>1, <2>2, <2>3, <2>4, SupervisedStep
<1> QED BY <1>2

-----------------------------------------------------------------------------
LEMMA WorkerKept ==
    ASSUME IInv, NEW r \in Studios, NEW st,
           WorkerSave(r, st) \/ WorkerConflict(r, st) \/ WorkerSaveFails(r, st)
    PROVE  IInv' /\ \A n \in Turns : RowStep(turn[n], turn'[n])
<1>1. WorkerMoves(r, st) BY DEF WorkerSave, WorkerConflict, WorkerSaveFails
<1>2. /\ sup[r].id # 0 /\ sup[r].st \in Waiting /\ sup[r].st \notin Closed /\ sup[r].worker = "on"
      /\ st \in Open \cup Closed
      /\ sup[r].st = "stopping" => st \in Closed \cup {"stopping"}
  BY <1>1, MovingRun
<1>3. /\ sup[r] \in Supervised /\ sup \in [Studios -> Supervised] /\ upsets \in Nat BY <1>2, Known
<1>4. Quiet BY DEF Quiet, WorkerSave, WorkerConflict, WorkerSaveFails
<1>5. upsets' \in Nat BY <1>3 DEF WorkerSave, WorkerConflict, WorkerSaveFails, Upset
<1>6. CASE WorkerSave(r, st)
  <2>1. /\ sup' = [sup EXCEPT ![r] = [sup[r] EXCEPT !.st = st, !.rev = @ + 1,
                                        !.base = sup[r].rev + 1, !.worker = "on"]]
        /\ releases' = releases
    BY <1>2, <1>3, <1>6 DEF WorkerSave, Supervised
  <2>2. AtRevision(sup[r].id, sup[r].rev) /\ Save(sup[r].id, sup[r].rev, st) BY <1>6 DEF WorkerSave
  <2> QED BY <1>2, <1>4, <1>5, <2>1, <2>2, SavingStep
<1>7. CASE WorkerConflict(r, st)
  <2>1. turn' = turn /\ upsets' = upsets BY <1>7 DEF WorkerConflict
  <2>2. CASE st \in Closed
    <3>1. sup' = [sup EXCEPT ![r] = [sup[r] EXCEPT !.st = st]] /\ releases' = releases
      BY <1>3, <1>7, <2>2 DEF WorkerConflict
    <3> QED BY <1>2, <1>4, <1>5, <2>1, <2>2, <3>1, ClosingStep
  <2>3. CASE st \notin Closed
    <3>1. Remove(r) BY <1>7, <2>3 DEF WorkerConflict
    <3> QED BY <1>2, <1>3, <1>4, <2>1, <3>1, RemovingStep
  <2> QED BY <2>2, <2>3
<1>8. CASE WorkerSaveFails(r, st)
  <2>0. AtRevision(sup[r].id, sup[r].rev) BY <1>8 DEF WorkerSaveFails
  <2>1. CASE /\ st \in Closed
             /\ Save(sup[r].id, sup[r].rev, st) \/ UNCHANGED turn
             /\ sup' = [sup EXCEPT ![r].st = st] /\ UNCHANGED releases
    <3>1. sup' = [sup EXCEPT ![r] = [sup[r] EXCEPT !.st = st]] BY <1>3, <2>1
    <3> QED BY <1>2, <1>4, <1>5, <2>0, <2>1, <3>1, ClosingStep
  <2>2. CASE st \notin Closed /\ Fallback(r, st)
    BY <1>2, <1>4, <1>5, <2>0, <2>2, FallbackKept
  <2> QED BY <1>8, <2>1, <2>2 DEF WorkerSaveFails
<1> QED BY <1>6, <1>7, <1>8

LEMMA FinishKept ==
    ASSUME IInv, NEW r \in Studios, Finish(r)
    PROVE  IInv' /\ \A n \in Turns : RowStep(turn[n], turn'[n])
<1>1. sup[r].id # 0 BY AssistantAssumption DEF Finish, IInv, SupOK, Detached, Turns
<1>2. /\ sup[r] \in Supervised /\ sup \in [Studios -> Supervised] /\ upsets \in Nat BY <1>1, Known
<1>3. Quiet /\ turn' = turn /\ upsets' = upsets BY DEF Quiet, Finish
<1>4. CASE Remove(r) BY <1>1, <1>2, <1>3, <1>4, RemovingStep
<1>5. CASE ~Remove(r)
  <2>1. PICK w \in {"none", "resume"} :
           sup' = [sup EXCEPT ![r].queued = FALSE, ![r].worker = w] /\ releases' = releases
    BY <1>5 DEF Finish
  <2>2. sup' = [sup EXCEPT ![r] = [sup[r] EXCEPT !.worker = w, !.queued = FALSE]]
    BY <1>2, <2>1 DEF Supervised
  <2> QED BY <1>1, <1>2, <1>3, <2>1, <2>2, HandingStep
<1> QED BY <1>4, <1>5

(* The first write of ClaimPending: the row was pending, so nobody runs.   *)
LEMMA ClaimKept ==
    ASSUME IInv, NEW r \in Studios, ClaimPending(r)
    PROVE  IInv' /\ \A n \in Turns : RowStep(turn[n], turn'[n])
<1>1. sup[r].id # 0 BY AssistantAssumption DEF ClaimPending, IInv, SupOK, Detached, Turns
<1> DEFINE n == sup[r].id
<1>2. /\ sup[r] \in Supervised /\ sup \in [Studios -> Supervised] /\ upsets \in Nat /\ n \in Turns
      /\ turn \in [Turns -> Rows] /\ turn[n] \in Rows /\ Sound(sup[r], turn[n])
      /\ releases \in [Studios -> Nat]
  BY <1>1, Known
<1>3. Quiet /\ upsets' = upsets /\ releases' = releases BY DEF Quiet, ClaimPending
<1>4. CASE turn[n].st # "pending"
  <2>1. sup' = [sup EXCEPT ![r] = [sup[r] EXCEPT !.worker = "on", !.queued = sup[r].queued]]
    BY <1>2, <1>4 DEF ClaimPending, Supervised
  <2>2. turn' = turn /\ sup[r].queued \in BOOLEAN BY <1>2, <1>4 DEF ClaimPending, Supervised
  <2> QED BY <1>1, <1>2, <1>3, <2>1, <2>2, HandingStep
<1>5. CASE turn[n].st = "pending"
  <2>0. turn' = [turn EXCEPT ![n].st = "running"] BY <1>5 DEF ClaimPending
  <2>1. sup' = [sup EXCEPT ![r].worker = "claimed", ![r].st = "running", ![r].rev = turn[n].rev]
    BY <1>5 DEF ClaimPending
  <2>2. PICK e : e = [sup[r] EXCEPT !.worker = "claimed", !.st = "running", !.rev = turn[n].rev]
    OBVIOUS
  <2>3. sup' = [sup EXCEPT ![r] = e] BY <1>2, <2>1, <2>2 DEF Supervised
  <2>4. e = [id |-> n, st |-> "running", rev |-> turn[n].rev, base |-> sup[r].base,
             worker |-> "claimed", queued |-> sup[r].queued]
    BY <1>2, <2>2 DEF Supervised
  <2> HIDE DEF n
  <2>5. turn' \in [Turns -> Rows] /\ turn'[n] = [st |-> "running", rev |-> turn[n].rev]
    BY <1>2, <2>0 DEF Rows, Statuses, Waiting
  <2>6. \A m \in Turns : m # n => turn'[m] = turn[m] BY <1>2, <2>0
  <2>7. Goes(turn[n], turn'[n]) BY <1>2, <1>5, <2>5 DEF Goes, Open, Rows
  <2>8. n = sup[r].id BY DEF n
  <2>9. \A q \in Studios : ~Runs(q, n)
    <3> SUFFICES ASSUME NEW q \in Studios, Runs(q, n) PROVE FALSE OBVIOUS
    <3>1. Sound(sup[q], turn[n]) BY <1>2, AssistantAssumption DEF Runs, IInv, SupOK, Detached
    <3> QED BY <1>5, <3>1 DEF Sound, Runs, Closed
  <2>10. e \in Supervised
    <3>1. turn[n].rev \in Nat /\ n \in 0..MaxRuns BY <1>2, AssistantAssumption DEF Rows, Turns
    <3> QED BY <1>2, <2>4, <3>1 DEF Supervised, Statuses, Waiting
  <2>11. Sound(e, turn'[n])
    <3>1. sup[r].base <= turn[n].rev /\ turn[n].rev \in Nat BY <1>2 DEF Sound, Rows
    <3> QED BY <2>4, <2>5, <3>1 DEF Sound, Closed
  <2> QED BY <1>1, <1>2, <1>3, <2>3, <2>4, <2>5, <2>6, <2>7, <2>8, <2>9, <2>10, <2>11, SupervisedStep
<1> QED BY <1>4, <1>5

LEMMA ClaimSaveKept ==
    ASSUME IInv, NEW r \in Studios, ClaimPendingSave(r)
    PROVE  IInv' /\ \A n \in Turns : RowStep(turn[n], turn'[n])
<1>1. sup[r].id # 0 BY AssistantAssumption DEF ClaimPendingSave, IInv, SupOK, Detached, Turns
<1>2. /\ sup[r] \in Supervised /\ sup \in [Studios -> Supervised] /\ upsets \in Nat
      /\ sup[r].st = "running"
  BY <1>1, Known DEF ClaimPendingSave, Sound
<1>3. Quiet /\ upsets' = upsets BY DEF Quiet, ClaimPendingSave
<1>4. CASE Remove(r) /\ turn' = turn BY <1>1, <1>2, <1>3, <1>4, RemovingStep
<1>5. CASE /\ AtRevision(sup[r].id, sup[r].rev) /\ Save(sup[r].id, sup[r].rev, "running")
           /\ sup' = [sup EXCEPT ![r].worker = "on", ![r].rev = @ + 1, ![r].base = sup[r].rev + 1]
           /\ releases' = releases
  <2>1. sup' = [sup EXCEPT ![r] = [sup[r] EXCEPT !.st = "running", !.rev = @ + 1,
                                     !.base = sup[r].rev + 1, !.worker = "on"]]
    BY <1>2, <1>5 DEF Supervised
  <2>2. "running" \in Open /\ sup[r].st \in Waiting /\ sup[r].st \notin Closed
    BY <1>2 DEF Open, Waiting, Closed
  <2>3. sup[r].st # "stopping" BY <1>2
  <2> QED BY <1>1, <1>2, <1>3, <1>5, <2>1, <2>2, <2>3, SavingStep
<1> QED BY <1>4, <1>5 DEF ClaimPendingSave

LEMMA ClaimSaveFailsKept ==
    ASSUME IInv, NEW r \in Studios, ClaimPendingSaveFails(r)
    PROVE  IInv' /\ \A n \in Turns : RowStep(turn[n], turn'[n])
<1>1. sup[r].id # 0 BY AssistantAssumption DEF ClaimPendingSaveFails, IInv, SupOK, Detached, Turns
<1>2. sup[r].st = "running" /\ upsets \in Nat
  BY <1>1, Known DEF ClaimPendingSaveFails, Sound
<1>3. Quiet /\ upsets' \in Nat BY <1>2 DEF Quiet, ClaimPendingSaveFails, Upset
<1>4. "running" \in Open \cup Closed /\ sup[r].st \in Waiting BY <1>2 DEF Open, Waiting
<1> QED BY <1>1, <1>2, <1>3, <1>4, FallbackKept DEF ClaimPendingSaveFails

LEMMA StopKept ==
    ASSUME IInv, NEW r \in Studios, StopRun(r)
    PROVE  IInv' /\ \A n \in Turns : RowStep(turn[n], turn'[n])
<1>1. sup[r].id # 0 /\ sup[r].st = "running" /\ sup[r].worker = "on" BY DEF StopRun
<1>2. /\ sup[r] \in Supervised /\ sup \in [Studios -> Supervised] /\ upsets \in Nat BY <1>1, Known
<1>3. Quiet /\ releases' = releases /\ upsets' \in Nat BY <1>2 DEF Quiet, StopRun, Upset
<1>4. CASE /\ AtRevision(sup[r].id, sup[r].rev) /\ Save(sup[r].id, sup[r].rev, "stopping")
           /\ sup' = [sup EXCEPT ![r].st = "stopping", ![r].rev = @ + 1, ![r].base = sup[r].rev + 1]
  <2>1. sup' = [sup EXCEPT ![r] = [sup[r] EXCEPT !.st = "stopping", !.rev = @ + 1,
                                     !.base = sup[r].rev + 1, !.worker = "on"]]
    BY <1>1, <1>2, <1>4 DEF Supervised
  <2>2. "stopping" \in Open /\ sup[r].st \in Waiting /\ sup[r].st \notin Closed
    BY <1>1 DEF Open, Waiting, Closed
  <2> QED BY <1>1, <1>3, <1>4, <2>1, <2>2, SavingStep
<1>5. CASE UNCHANGED <<turn, sup>>
  <2>1. sup' = [sup EXCEPT ![r] = [sup[r] EXCEPT !.worker = "on", !.queued = sup[r].queued]]
    BY <1>1, <1>2, <1>5 DEF Supervised
  <2>2. sup[r].queued \in BOOLEAN BY <1>2 DEF Supervised
  <2> QED BY <1>1, <1>3, <1>5, <2>1, <2>2, HandingStep
<1> QED BY <1>4, <1>5 DEF StopRun

LEMMA AbortKept ==
    ASSUME IInv, NEW r \in Studios, AbortRun(r)
    PROVE  IInv' /\ \A n \in Turns : RowStep(turn[n], turn'[n])
<1>1. /\ sup[r].id # 0 /\ sup[r].st \in Waiting \cup {"pending"} /\ sup[r].worker # "claimed"
      /\ sup[r].st \notin Closed /\ "interrupted" \in Closed
  BY DEF AbortRun, Waiting, Closed
<1>2. /\ sup[r] \in Supervised /\ sup \in [Studios -> Supervised] /\ upsets \in Nat BY <1>1, Known
<1>3. Quiet /\ upsets' \in Nat BY <1>2 DEF Quiet, AbortRun, Upset
<1>4. CASE ~AtRevision(sup[r].id, sup[r].rev)
  <2>1. /\ sup' = [sup EXCEPT ![r] = [sup[r] EXCEPT !.st = "interrupted"]]
        /\ turn' = turn /\ releases' = releases
    BY <1>2, <1>4 DEF AbortRun
  <2> QED BY <1>1, <1>3, <2>1, ClosingStep
<1>5. CASE AtRevision(sup[r].id, sup[r].rev)
  <2>1. Save(sup[r].id, sup[r].rev, "interrupted") BY <1>5 DEF AbortRun
  <2>2. CASE Remove(r) BY <1>1, <1>3, <1>5, <2>1, <2>2, SavingStep
  <2>3. CASE ~Remove(r)
    <3>1. /\ releases' = releases
          /\ sup' = [sup EXCEPT ![r].st = "interrupted", ![r].rev = @ + 1, ![r].base = sup[r].rev + 1]
      BY <1>5, <2>3 DEF AbortRun
    <3>2. PICK w \in {"none", "on", "resume"} : w = sup[r].worker BY <1>1, <1>2 DEF Supervised
    <3>3. sup' = [sup EXCEPT ![r] = [sup[r] EXCEPT !.st = "interrupted", !.rev = @ + 1,
                                       !.base = sup[r].rev + 1, !.worker = w]]
      BY <1>2, <3>1, <3>2 DEF Supervised
    <3> QED BY <1>1, <1>3, <1>5, <2>1, <3>1, <3>3, SavingStep
  <2> QED BY <2>2, <2>3
<1> QED BY <1>4, <1>5

-----------------------------------------------------------------------------
(* r takes on a run that it did not supervise, the rows as they were.      *)
LEMMA AttachKept ==
    ASSUME IInv, NEW r \in Studios, AttachRun(r) PROVE IInv'
<1> USE AssistantAssumption
<1>1. PICK n \in Turns : n = start[r].id /\ Starts(r, n)
         /\ (Untouched(r, n) \/ (turn[n].st \in Closed /\ turn[n].rev > 1))
  BY DEF AttachRun, IInv, StartOK, Starts
<1>2. PICK e : e = [id |-> n, st |-> "running", rev |-> 1, base |-> 1, worker |-> "on", queued |-> FALSE]
  OBVIOUS
<1>3. /\ sup' = [sup EXCEPT ![r] = e] /\ turn' = turn /\ look' = look
      /\ start' = [start EXCEPT ![r] = [pc |-> "ending", id |-> 0]]
  BY <1>1, <1>2 DEF AttachRun
<1>4. e \in Supervised /\ turn[n] \in Rows /\ n \in 0..MaxRuns
  <2>1. turn[n] \in Rows BY DEF IInv, Shapes, Rows
  <2>2. n \in 0..MaxRuns BY DEF Turns
  <2> QED BY <1>2, <2>1, <2>2 DEF Supervised, Statuses, Waiting
<1>5. Sound(e, turn'[e.id]) /\ e.id = n
  BY <1>1, <1>2, <1>3, <1>4 DEF Sound, Untouched, Rows, Closed
<1>6. turn'[e.id].st \in Closed \/ \A q \in Studios : q # r => ~Runs(q, e.id)
  BY <1>1, <1>3, <1>5 DEF Untouched, Runs
<1>7. \A q \in Studios, m \in Turns : Starts(q, m) /\ Starts(q, m)' /\ Untouched(q, m) => e.id # m
  <2> SUFFICES ASSUME NEW q \in Studios, Starts(q, n), Starts(q, n)', Untouched(q, n) PROVE FALSE
    BY <1>5
  <2>1. q # r BY <1>3 DEF Starts, IInv, Shapes
  <2> QED BY <1>1, <2>1 DEF Untouched
<1>8. Shapes'
  <2>1. sup' \in [Studios -> Supervised] BY <1>3, <1>4 DEF IInv, Shapes
  <2>2. claim' \in [owner : Studios \cup {NoStudio}, detail : 0..MaxRuns, fresh : BOOLEAN]
    BY <1>1, <1>4 DEF AttachRun, Claim
  <2>3. start' \in [Studios -> [pc : {"idle", "reserved", "created", "ending", "releasing"}, id : 0..MaxRuns]]
    BY <1>3 DEF IInv, Shapes
  <2> HIDE AssistantAssumption
  <2>4. reserved' \subseteq Studios /\ UNCHANGED <<turn, releases, look, upsets>>
    BY DEF AttachRun, IInv, Shapes
  <2> QED BY <2>1, <2>2, <2>3, <2>4 DEF IInv, Shapes
<1>9. LookOK' BY <1>3 DEF IInv, LookOK
<1>10. \A q \in Studios : start'[q] = start[q] \/ start'[q].pc # "created" BY <1>3 DEF IInv, Shapes
<1> QED BY <1>3, <1>4, <1>5, <1>6, <1>7, <1>8, <1>9, <1>10, OwnerStep

LEMMA ResumeKept ==
    ASSUME IInv, NEW r \in Studios, NEW n \in Turns, ResumeRun(r, n) PROVE IInv'
<1> USE AssistantAssumption
<1>1. /\ turn[n].st = "pending" /\ turn' = turn /\ look' = look /\ start' = start /\ releases' = releases
      /\ upsets' \in Nat
  BY DEF ResumeRun, Upset, IInv, Shapes
<1>2. CASE sup[r].id = n /\ ResumeHere(r) /\ UNCHANGED <<claim, reserved>>
  <2>1. sup[r].id # 0 BY <1>2 DEF Turns
  <2>2. /\ sup[r] \in Supervised /\ sup \in [Studios -> Supervised] BY <2>1, Known
  <2>3. Quiet BY <1>1, <1>2 DEF Quiet
  <2>4. CASE sup' = [sup EXCEPT ![r].worker = "resume"]
    <3>1. /\ sup' = [sup EXCEPT ![r] = [sup[r] EXCEPT !.worker = "resume", !.queued = sup[r].queued]]
          /\ sup[r].queued \in BOOLEAN
      BY <2>2, <2>4 DEF Supervised
    <3> QED BY <1>1, <2>1, <2>3, <3>1, HandingStep
  <2>5. CASE sup[r].worker = "on" /\ sup' = [sup EXCEPT ![r].queued = TRUE]
    <3>1. sup' = [sup EXCEPT ![r] = [sup[r] EXCEPT !.worker = "on", !.queued = TRUE]]
      BY <2>2, <2>5 DEF Supervised
    <3> QED BY <1>1, <2>1, <2>3, <3>1, HandingStep
  <2> QED BY <1>2, <2>4, <2>5 DEF ResumeHere
<1>3. ASSUME NEW e, e = [id |-> n, st |-> "pending", rev |-> turn[n].rev, base |-> turn[n].rev,
                         worker |-> "resume", queued |-> FALSE],
             sup' = [sup EXCEPT ![r] = e], Claim(r, n), reserved' = reserved \ {r}
      PROVE  IInv'
  <2>1. turn[n] \in Rows /\ n \in 0..MaxRuns BY DEF Turns, IInv, Shapes, Rows
  <2>2. turn[n].rev \in Nat BY <2>1 DEF Rows
  <2>3. e \in Supervised /\ e.id = n /\ e.st = "pending"
    BY <1>3, <2>1, <2>2 DEF Supervised, Statuses
  <2>4. Sound(e, turn'[e.id]) BY <1>1, <1>3, <2>2 DEF Sound, Closed
  <2>5. \A q \in Studios, m \in Turns : Starts(q, m) /\ Starts(q, m)' /\ Untouched(q, m) => e.id # m
    BY <1>1, <2>3 DEF Untouched
  <2>6. Shapes'
    <3>1. sup' \in [Studios -> Supervised] BY <1>3, <2>3 DEF IInv, Shapes
    <3>2. claim' \in [owner : Studios \cup {NoStudio}, detail : 0..MaxRuns, fresh : BOOLEAN]
      BY <1>3, <2>1 DEF Claim
    <3> HIDE AssistantAssumption
    <3> QED BY <1>1, <1>3, <3>1, <3>2 DEF IInv, Shapes
  <2>7. LookOK' BY <1>1 DEF IInv, LookOK
  <2> QED BY <1>1, <1>3, <2>3, <2>4, <2>5, <2>6, <2>7, OwnerStep
<1> QED BY <1>2, <1>3 DEF ResumeRun

LEMMA CrashKept ==
    ASSUME IInv, NEW r \in Studios, CrashStudio(r) PROVE IInv'
<1> USE AssistantAssumption
<1>1. /\ sup' = [sup EXCEPT ![r] = Detached] /\ turn' = turn /\ claim' = claim
      /\ start' = [start EXCEPT ![r] = [pc |-> "idle", id |-> 0]]
      /\ look' = [look EXCEPT ![r] = [id |-> 0, rev |-> 0]]
      /\ releases' = [releases EXCEPT ![r] = 0] /\ reserved' = reserved \ {r} /\ upsets' = upsets + 1
  BY DEF CrashStudio, Upset
<1>2. Detached \in Supervised /\ Detached.id = 0 /\ Detached.st = "none"
  BY DEF Detached, Supervised, Statuses
<1>3. Shapes'
  <2>1. sup' \in [Studios -> Supervised] BY <1>1, <1>2 DEF IInv, Shapes
  <2>2. start' \in [Studios -> [pc : {"idle", "reserved", "created", "ending", "releasing"}, id : 0..MaxRuns]]
    BY <1>1 DEF IInv, Shapes
  <2>3. look' \in [Studios -> [id : 0..MaxRuns, rev : Nat]] BY <1>1 DEF IInv, Shapes
  <2>4. releases' \in [Studios -> Nat] /\ upsets' \in Nat BY <1>1 DEF IInv, Shapes
  <2> HIDE AssistantAssumption
  <2> QED BY <1>1, <2>1, <2>2, <2>3, <2>4 DEF IInv, Shapes
<1>4. LookOK'
  <2>1. \A q \in Studios : look'[q] = look[q] \/ look'[q].id = 0 BY <1>1 DEF IInv, Shapes
  <2> QED BY <1>1, <1>3, <2>1, LookKept DEF RowStep
<1>5. \A q \in Studios : start'[q] = start[q] \/ start'[q].pc # "created" BY <1>1 DEF IInv, Shapes
<1>6. 0 \notin Turns BY DEF Turns
<1> QED BY <1>1, <1>2, <1>3, <1>4, <1>5, <1>6, OwnerStep

-----------------------------------------------------------------------------
(* Every step keeps the invariant, and opens a row or moves it forward.    *)
Opens(p) == p.st = "none"

LEMMA NextKept ==
    ASSUME IInv, [AssistantNext]_assistantVars
    PROVE  /\ IInv'
           /\ \/ \A n \in Turns : RowStep(turn[n], turn'[n])
              \/ /\ \E r \in Studios, n \in Turns : CreateRun(r, n)
                 /\ \A n \in Turns : Opens(turn[n]) \/ RowStep(turn[n], turn'[n])
<1>1. CASE UNCHANGED assistantVars
  <2>1. IInv'
    BY <1>1 DEF assistantVars, IInv, Shapes, SupOK, OneRunner, Runs, InOrder, StartOK, Untouched, Starts, LookOK
  <2> QED BY <1>1, <2>1 DEF assistantVars, RowStep
<1>2. ASSUME NEW r \in Studios,
             \/ Reserve(r) \/ ReleaseReservation(r) \/ ReleaseHeld(r) \/ ReleaseLate(r)
             \/ RenewClaim(r) \/ CrashStudio(r) \/ AttachRun(r)
             \/ \E n \in Turns : Reconcile(r, n) \/ ResumeRun(r, n)
      PROVE  IInv' /\ \A n \in Turns : RowStep(turn[n], turn'[n])
  <2>1. turn' = turn
    BY <1>2 DEF Reserve, ReleaseReservation, ReleaseHeld, ReleaseLate, RenewClaim, CrashStudio,
                AttachRun, Reconcile, ResumeRun
  <2>2. IInv' BY <1>2, QuietKept, CrashKept, AttachKept, ReconcileKept, ResumeKept
  <2> QED BY <2>1, <2>2 DEF RowStep
<1>3. ASSUME ClaimExpires, NEW r \in Studios
      PROVE  IInv' /\ \A n \in Turns : RowStep(turn[n], turn'[n])
  <2>1. turn' = turn BY <1>3 DEF ClaimExpires
  <2> QED BY <1>3, <2>1, QuietKept DEF RowStep
<1>4. ASSUME ClaimExpires PROVE \E r : r \in Studios
  BY <1>4 DEF ClaimExpires, IInv, Shapes
<1>5. ASSUME NEW r \in Studios, NEW n \in Turns, CreateRun(r, n)
      PROVE  IInv' /\ \A m \in Turns : Opens(turn[m]) \/ RowStep(turn[m], turn'[m])
  <2>1. IInv' BY <1>5, CreateKept
  <2>2. \A m \in Turns : Opens(turn[m]) \/ turn'[m] = turn[m]
    BY <1>5 DEF CreateRun, Opens, IInv, Shapes
  <2> QED BY <2>1, <2>2 DEF RowStep
<1>6. ASSUME NEW r \in Studios, StartFails(r) \/ InterruptOrphan(r)
      PROVE  IInv' /\ \A m \in Turns : RowStep(turn[m], turn'[m])
  BY <1>6, StartFailsKept, InterruptKept DEF RowStep
<1>7. ASSUME NEW r \in Studios, WorkerStep(r) \/ StopRun(r) \/ AbortRun(r)
      PROVE  IInv' /\ \A m \in Turns : RowStep(turn[m], turn'[m])
  BY <1>7, WorkerKept, FinishKept, ClaimKept, ClaimSaveKept, ClaimSaveFailsKept, StopKept, AbortKept
  DEF WorkerStep
<1> QED
  BY <1>1, <1>2, <1>3, <1>4, <1>5, <1>6, <1>7
  DEF AssistantNext, AssistantStep, StartStep, RequestStep, ReconcileStep

(* Types, and: the project has one open run at most, and a replica never   *)
(* believes a revision that the store has not reached, however long it     *)
(* stalled.                                                                *)
THEOREM TypeCorrect == AssistantSpec => []AssistantTypeOK
<1> QED BY InitIInv, NextKept, IInvTypes, PTL DEF AssistantSpec

(* AdmitMutation lets at most one replica write to the project, whatever   *)
(* claims expired and whoever took the run for dead.                       *)
THEOREM OneWriter == AssistantSpec => []ExclusiveWriter
<1>1. ASSUME IInv PROVE ExclusiveWriter
  <2> SUFFICES ASSUME NEW q \in Studios, NEW r \in Studios, AdmitMutation(q), AdmitMutation(r), q # r
               PROVE  FALSE
    BY DEF ExclusiveWriter
  <2>1. sup[q].id \in Turns /\ sup[r].id \in Turns
    BY <1>1 DEF AdmitMutation, IInv, SupOK, Detached
  <2>2. sup[q].id = sup[r].id
    BY <1>1, <2>1, IInvTypes DEF AdmitMutation, AssistantTypeOK, Closed
  <2> QED BY <1>1, <2>1, <2>2 DEF AdmitMutation, IInv, OneRunner, Runs, Closed
<1> QED BY <1>1, InitIInv, NextKept, PTL DEF AssistantSpec

(* A closed run never changes again and a stopping run never revives: no   *)
(* save at a stale revision gets through, from a worker, an abort, a late  *)
(* compensation or a reconciliation.                                       *)
THEOREM OnlyForward == AssistantSpec => StatusMovesForward
<1>1. ASSUME IInv, [AssistantNext]_assistantVars
      PROVE  [\A n \in Turns :
                /\ turn[n].st \in Closed => turn'[n] = turn[n]
                /\ turn[n].st = "stopping" => turn'[n].st \in Closed \cup {"stopping"}]_assistantVars
  <2>1. \A n \in Turns : Opens(turn[n]) \/ RowStep(turn[n], turn'[n]) BY <1>1, NextKept
  <2> QED BY <2>1 DEF Opens, RowStep, Closes, Goes, Open, Closed
<1> QED BY <1>1, InitIInv, NextKept, PTL DEF AssistantSpec, StatusMovesForward

-----------------------------------------------------------------------------
(* Refinement of TurnLog. *)

Phases == [n \in Turns |-> turn[n].st]
Admitted == {r \in Studios : AdmitMutation(r)}
LogVars == <<Phases, Admitted>>

LEMMA AdmittedRuns ==
    IInv => \A r \in Admitted : \E n \in Turns :
                n = sup[r].id /\ turn[n].st = "running" /\ sup[r].st = "running"
<1> SUFFICES ASSUME IInv, NEW r \in Admitted
             PROVE  sup[r].id \in Turns /\ turn[sup[r].id].st = "running" /\ sup[r].st = "running"
  OBVIOUS
<1> QED BY DEF Admitted, AdmitMutation, IInv, SupOK, Detached

LEMMA OneAdmitted == IInv => \A q, r \in Admitted : q = r
<1> SUFFICES ASSUME IInv, NEW q \in Admitted, NEW r \in Admitted PROVE q = r OBVIOUS
<1>1. PICK m \in Turns : m = sup[q].id /\ turn[m].st = "running" /\ sup[q].st = "running"
  BY AdmittedRuns
<1>2. PICK n \in Turns : n = sup[r].id /\ turn[n].st = "running" /\ sup[r].st = "running"
  BY AdmittedRuns
<1>3. m = n BY <1>1, <1>2, IInvTypes DEF AssistantTypeOK, Closed
<1> QED BY <1>1, <1>2, <1>3 DEF IInv, OneRunner, Runs, Closed, Admitted

(* A step is one of one replica.                                           *)
LEMMA OneMoves ==
    ASSUME IInv, [AssistantNext]_assistantVars
    PROVE  \A p, q \in Studios : p # q => sup'[p] = sup[p] \/ sup'[q] = sup[q]
<1>1. sup \in [Studios -> Supervised] BY DEF IInv, Shapes
<1>2. ASSUME NEW r \in Studios,
             \/ WorkerStep(r) \/ RequestStep(r) \/ AttachRun(r) \/ CrashStudio(r)
      PROVE  \A q \in Studios : q # r => sup'[q] = sup[q]
  <2>1. CASE WorkerStep(r)
    BY <1>1, <2>1 DEF WorkerStep, WorkerSave, WorkerConflict, WorkerSaveFails, Finish, ClaimPending,
                      ClaimPendingSave, ClaimPendingSaveFails, Fallback, Remove
  <2>2. CASE RequestStep(r)
    BY <1>1, <2>2 DEF RequestStep, ResumeRun, ResumeHere, StopRun, AbortRun, Remove
  <2>3. CASE AttachRun(r) \/ CrashStudio(r)
    BY <1>1, <2>3 DEF AttachRun, CrashStudio
  <2> QED BY <1>2, <2>1, <2>2, <2>3
<1>3. ASSUME NEW r \in Studios,
             \/ ReconcileStep(r) \/ ReleaseLate(r) \/ RenewClaim(r) \/ Reserve(r) \/ StartFails(r)
             \/ ReleaseReservation(r) \/ ReleaseHeld(r) \/ \E n \in Turns : CreateRun(r, n)
      PROVE  sup' = sup
  BY <1>3 DEF ReconcileStep, Reconcile, InterruptOrphan, ReleaseLate, RenewClaim, Reserve, StartFails,
              ReleaseReservation, ReleaseHeld, CreateRun
<1>4. ASSUME ClaimExpires \/ UNCHANGED assistantVars PROVE sup' = sup
  BY <1>4 DEF ClaimExpires, assistantVars
<1> QED BY <1>2, <1>3, <1>4 DEF AssistantNext, AssistantStep, StartStep

(* Who makes a paused run running supervises it as running.                *)
LEMMA Resumed ==
    ASSUME IInv, [AssistantNext]_assistantVars, NEW n \in Turns,
           turn[n].st = "pending", turn'[n].st = "running"
    PROVE  \E r \in Studios : r \in Admitted'
<1>1. turn \in [Turns -> Rows] BY DEF IInv, Shapes, Rows
<1>2. ASSUME NEW r \in Studios, NEW rev, NEW st, AtRevision(sup[r].id, rev), rev = sup[r].rev,
             Save(sup[r].id, rev, st), sup[r].id # 0, sup[r].st \in Waiting
      PROVE  FALSE
  <2>1. sup[r].st \notin Closed BY <1>2 DEF Waiting, Closed
  <2>2. turn[sup[r].id].st \in Waiting BY <1>2, <2>1, Alone
  <2>3. n # sup[r].id BY <2>2 DEF Waiting
  <2> QED BY <1>1, <1>2, <2>3 DEF Save
<1>3. ASSUME NEW r \in Studios, WorkerStep(r), ~ClaimPending(r) PROVE FALSE
  <2>1. ASSUME NEW st, WorkerSave(r, st) PROVE FALSE
    BY <1>2, <2>1, MovingRun DEF WorkerSave
  <2>2. ASSUME NEW st, WorkerConflict(r, st) PROVE FALSE BY <2>2 DEF WorkerConflict
  <2>0. ASSUME NEW st, Fallback(r, st), AtRevision(sup[r].id, sup[r].rev), sup[r].id # 0,
               sup[r].st \in Waiting
        PROVE  FALSE
    <3>1. AtRevision(sup[r].id, sup[r].base) => sup[r].base = sup[r].rev BY <2>0 DEF AtRevision
    <3> QED BY <1>2, <2>0, <3>1 DEF Fallback
  <2>3. ASSUME NEW st, WorkerSaveFails(r, st) PROVE FALSE
    BY <1>2, <2>0, <2>3, MovingRun DEF WorkerSaveFails
  <2>4. CASE Finish(r) BY <2>4 DEF Finish
  <2>5. CASE ClaimPendingSave(r)
    <3>1. /\ sup[r].worker = "claimed" /\ AtRevision(sup[r].id, sup[r].rev)
          /\ Save(sup[r].id, sup[r].rev, "running")
      BY <2>5 DEF ClaimPendingSave
    <3>2. sup[r].id # 0 /\ sup[r].st = "running"
      BY <3>1, AssistantAssumption DEF IInv, SupOK, Detached, Turns, Sound
    <3> QED BY <1>2, <3>1, <3>2 DEF Waiting
  <2>6. CASE ClaimPendingSaveFails(r)
    <3>1. sup[r].id # 0 /\ sup[r].st = "running"
      BY <2>6, AssistantAssumption DEF ClaimPendingSaveFails, IInv, SupOK, Detached, Turns, Sound
    <3> QED BY <2>0, <2>6, <3>1 DEF ClaimPendingSaveFails, Waiting
  <2> QED BY <1>3, <2>1, <2>2, <2>3, <2>4, <2>5, <2>6 DEF WorkerStep
<1>4. ASSUME NEW r \in Studios, ClaimPending(r) PROVE r \in Admitted'
  <2>1. sup[r].worker = "resume" /\ turn[sup[r].id].st = "pending"
        /\ turn' = [turn EXCEPT ![sup[r].id].st = "running"]
        /\ sup' = [sup EXCEPT ![r].worker = "claimed", ![r].st = "running", ![r].rev = turn[sup[r].id].rev]
    BY <1>4 DEF ClaimPending
  <2>2. sup[r].id # 0 BY <2>1 DEF IInv, SupOK, Detached, Turns
  <2>3. sup[r].id \in Turns /\ sup \in [Studios -> Supervised] BY <2>2, Known
  <2>4. sup'[r].id = sup[r].id /\ sup'[r].st = "running" BY <2>1, <2>3 DEF Supervised
  <2>5. turn'[sup[r].id].st = "running" BY <1>1, <2>1, <2>3 DEF Rows
  <2> QED BY <2>2, <2>4, <2>5 DEF Admitted, AdmitMutation
<1>5. ASSUME NEW r \in Studios, StopRun(r) \/ AbortRun(r) PROVE FALSE
  BY <1>1, <1>5 DEF StopRun, AbortRun, Save, Rows
<1>6. ASSUME NEW r \in Studios, StartFails(r) \/ InterruptOrphan(r) PROVE FALSE
  BY <1>6, StartFailsKept, InterruptKept DEF Closes, Closed
<1>7. ASSUME NEW r \in Studios, NEW m \in Turns, CreateRun(r, m) PROVE FALSE
  BY <1>1, <1>7 DEF CreateRun
<1>8. ASSUME turn' = turn PROVE FALSE BY <1>8
<1>9. ASSUME NEW r \in Studios,
             \/ Reserve(r) \/ ReleaseReservation(r) \/ ReleaseHeld(r) \/ ReleaseLate(r)
             \/ RenewClaim(r) \/ CrashStudio(r) \/ AttachRun(r) \/ ClaimExpires
             \/ \E m \in Turns : Reconcile(r, m) \/ ResumeRun(r, m)
      PROVE  FALSE
  BY <1>8, <1>9 DEF Reserve, ReleaseReservation, ReleaseHeld, ReleaseLate, RenewClaim, CrashStudio,
                    AttachRun, ClaimExpires, Reconcile, ResumeRun
<1>10. ASSUME ClaimExpires \/ UNCHANGED assistantVars PROVE FALSE
  BY <1>8, <1>10 DEF ClaimExpires, assistantVars
<1>11. PICK r \in Studios : StartStep(r) \/ WorkerStep(r) \/ RequestStep(r) \/ ReconcileStep(r)
          \/ ReleaseLate(r) \/ RenewClaim(r) \/ Reserve(r) \/ CrashStudio(r)
  BY <1>10 DEF AssistantNext, AssistantStep
<1> QED
  BY <1>3, <1>4, <1>5, <1>6, <1>7, <1>9, <1>11
  DEF StartStep, RequestStep, ReconcileStep

LEMMA CreateRefines ==
    ASSUME IInv, NEW r \in Studios, NEW n \in Turns, CreateRun(r, n) PROVE Log!Next
<1>1. /\ turn[n].st = "none" /\ sup' = sup /\ turn \in [Turns -> Rows]
      /\ \A m \in Turns : m < n => turn[m].st \in Closed
      /\ turn' = [turn EXCEPT ![n] = [st |-> "running", rev |-> 1]]
  BY DEF CreateRun, IInv, Shapes, Rows
<1>2. \A m \in Turns : turn[m].st \in Closed \cup {"none"}
  <2> SUFFICES ASSUME NEW m \in Turns, turn[m].st # "none", m # n PROVE turn[m].st \in Closed
    BY <1>1
  <2>1. m < n \/ n < m BY AssistantAssumption DEF Turns
  <2>2. ~(n < m) BY <1>1 DEF IInv, InOrder, Closed
  <2> QED BY <1>1, <2>1, <2>2
<1>3. Admitted = {}
  <2> SUFFICES ASSUME NEW q \in Admitted PROVE FALSE OBVIOUS
  <2> QED BY <1>2, AdmittedRuns DEF Closed
<1>4. Admitted' = {}
  <2> SUFFICES ASSUME NEW q \in Studios, sup[q].id # 0, turn'[sup[q].id].st = "running" PROVE FALSE
    BY <1>1 DEF Admitted, AdmitMutation
  <2>1. sup[q].id \in Turns /\ turn[sup[q].id].st # "none" BY Known DEF Sound
  <2> QED BY <1>1, <1>2, <2>1 DEF Closed
<1>5. Phases' = [Phases EXCEPT ![n] = "running"] BY <1>1 DEF Phases
<1>6. Log!Open(n)
  BY <1>1, <1>2, <1>3, <1>4, <1>5 DEF Log!Open, Log!Becomes, Log!Closed, Closed, Phases, Admitted
<1> QED BY <1>6 DEF Log!Next

(* Every other step, from what it does to the rows.                        *)
LEMMA RowRefines ==
    ASSUME IInv, IInv', [AssistantNext]_assistantVars,
           \A n \in Turns : RowStep(turn[n], turn'[n])
    PROVE  [Log!Next]_LogVars
<1> USE DEF Open, Closed
<1>a. \A r \in Admitted' : \E n \in Turns :
         n = sup'[r].id /\ turn'[n].st = "running" /\ sup'[r].st = "running"
  <2>1. (IInv => \A r \in Admitted : \E n \in Turns :
                    n = sup[r].id /\ turn[n].st = "running" /\ sup[r].st = "running")'
    BY AdmittedRuns, PTL
  <2> QED BY <2>1
<1>b. \A q, r \in Admitted' : q = r
  <2>1. (IInv => \A q, r \in Admitted : q = r)' BY OneAdmitted, PTL
  <2> QED BY <2>1
<1>1. ASSUME NEW n \in Turns, turn'[n].st # turn[n].st PROVE Log!Next
  <2>1. turn[n].st \in Open /\ RowStep(turn[n], turn'[n]) BY <1>1 DEF RowStep, Closes, Goes
  <2>2. \A m \in Turns : m # n => turn'[m] = turn[m] /\ turn[m].st \notin Open
    <3> SUFFICES ASSUME NEW m \in Turns, m # n PROVE turn'[m] = turn[m] /\ turn[m].st \notin Open
      OBVIOUS
    <3>1. turn[m].st \notin Open BY <2>1, IInvTypes DEF AssistantTypeOK
    <3> QED BY <3>1 DEF RowStep, Closes, Goes
  <2>3. Phases' = [Phases EXCEPT ![n] = turn'[n].st]
    BY <2>2 DEF Phases
  <2>4. CASE turn'[n].st # "running"
    <3>1. Admitted' = {}
      <4> SUFFICES ASSUME NEW r \in Admitted' PROVE FALSE OBVIOUS
      <4>1. \E m \in Turns : turn'[m].st = "running" BY <1>a
      <4> QED BY <2>2, <2>4, <4>1
    <3>2. \/ turn[n].st = "running" /\ turn'[n].st \in {"pending", "stopping"}
          \/ turn'[n].st \in Closed
      BY <1>1, <2>1, <2>4 DEF RowStep, Closes, Goes
    <3>3. Log!Pause(n) \/ Log!Stop(n) \/ \E st \in Log!Closed : Log!Close(n, st)
      BY <2>1, <2>3, <3>1, <3>2
      DEF Log!Pause, Log!Stop, Log!Close, Log!Becomes, Log!Closed, Phases, Admitted
    <3> QED BY <3>3 DEF Log!Next
  <2>5. CASE turn'[n].st = "running"
    <3>1. turn[n].st = "pending" BY <1>1, <2>1, <2>5 DEF RowStep, Closes, Goes
    <3>2. PICK r \in Studios : r \in Admitted' BY <2>5, <3>1, Resumed
    <3>3. Admitted' = {r} BY <1>b, <3>2
    <3>4. Admitted = {}
      <4> SUFFICES ASSUME NEW q \in Admitted PROVE FALSE OBVIOUS
      <4> QED BY <2>2, <3>1, AdmittedRuns
    <3>5. Log!TakeUp(r, n)
      BY <2>3, <2>5, <3>1, <3>3, <3>4 DEF Log!TakeUp, Log!Becomes, Phases, Admitted
    <3> QED BY <3>5 DEF Log!Next
  <2> QED BY <2>4, <2>5
<1>2. ASSUME Phases' = Phases, Admitted' # Admitted PROVE Log!Next
  <2>1. CASE Admitted' = {}
    <3>1. Log!LetGo BY <1>2, <2>1 DEF Log!LetGo, Phases, Admitted
    <3> QED BY <3>1 DEF Log!Next
  <2>2. ASSUME NEW r \in Admitted' PROVE Log!Next
    <3>1. Admitted' = {r} BY <1>b, <2>2
    <3>2. PICK n \in Turns : n = sup'[r].id /\ turn'[n].st = "running" /\ sup'[r].st = "running"
      BY <1>a, <2>2
    <3>3. turn[n].st = "running" BY <1>2, <3>2 DEF Phases
    <3>4. Admitted = {}
      <4> SUFFICES ASSUME NEW q \in Admitted PROVE FALSE OBVIOUS
      <4>1. q # r BY <1>2, <3>1, OneAdmitted
      <4>2. q \in Studios /\ r \in Studios BY <2>2 DEF Admitted
      <4>3. CASE sup'[q] = sup[q]
        <5>1. PICK m \in Turns : m = sup[q].id /\ turn[m].st = "running" /\ sup[q].st = "running"
          BY AdmittedRuns
        <5>2. turn'[m].st = "running" BY <1>2, <5>1 DEF Phases
        <5>3. m # 0 BY DEF Turns
        <5>4. q \in Admitted' BY <4>2, <4>3, <5>1, <5>2, <5>3 DEF Admitted, AdmitMutation
        <5> QED BY <3>1, <4>1, <5>4
      <4>4. CASE sup'[r] = sup[r]
        <5>1. n # 0 BY DEF Turns
        <5>2. r \in Admitted BY <3>2, <3>3, <4>2, <4>4, <5>1 DEF Admitted, AdmitMutation
        <5> QED BY <4>1, <5>2, OneAdmitted
      <4> QED BY <4>1, <4>2, <4>3, <4>4, OneMoves
    <3>5. Phases' = [Phases EXCEPT ![n] = "running"] BY <1>2, <3>3 DEF Phases
    <3>6. Log!TakeUp(r, n) BY <3>1, <3>3, <3>4, <3>5 DEF Log!TakeUp, Log!Becomes, Phases, Admitted
    <3>7. r \in Studios BY <2>2 DEF Admitted
    <3> QED BY <3>6, <3>7 DEF Log!Next
  <2> QED BY <2>1, <2>2
<1>3. ASSUME \A n \in Turns : turn'[n].st = turn[n].st PROVE Phases' = Phases BY <1>3 DEF Phases
<1> QED BY <1>1, <1>2, <1>3 DEF LogVars

(* The whole protocol of claims, revisions, compensations and              *)
(* reconciliations is a log of turns with one writer: in particular the    *)
(* project never passes from one writer to another directly, and a turn is *)
(* opened when all before it are closed.                                   *)
THEOREM SupervisorIsTurnLog == AssistantSpec => ImplementsTurnLog
<1>1. AssistantInit => Log!Init
  BY DEF AssistantInit, Log!Init, AdmitMutation, Detached
<1>2. ASSUME IInv, [AssistantNext]_assistantVars PROVE [Log!Next]_LogVars
  <2>1. CASE \E r \in Studios, n \in Turns : CreateRun(r, n) BY <1>2, <2>1, CreateRefines
  <2>2. CASE ~\E r \in Studios, n \in Turns : CreateRun(r, n)
    <3>1. IInv' /\ \A n \in Turns : RowStep(turn[n], turn'[n]) BY <1>2, <2>2, NextKept
    <3> QED BY <1>2, <3>1, RowRefines
  <2> QED BY <2>1, <2>2
<1> QED
  BY <1>1, <1>2, InitIInv, NextKept, PTL
  DEF AssistantSpec, ImplementsTurnLog, Log!Spec, Log!vars, LogVars, Phases, Admitted
===============================================================================
