----------------------------- MODULE SharedStore -----------------------------
(***************************************************************************)
(* pkg/hub/sharedstore: the hub replicas' common store for login state, a  *)
(* Secret per key.  The calls of every replica interleave at the API       *)
(* requests they make.  One key is modelled: no call touches two.          *)
(*                                                                         *)
(* A Put writes at most once, so p also names the object version it wrote: *)
(* "secret = p" fixes the resourceVersion and the UID.  A reply may be     *)
(* lost after the request took effect.  The replicas' clocks agree.        *)
(***************************************************************************)
EXTENDS FiniteSets

CONSTANTS
    Puts,      \* Put calls on the key, each once
    Calls,     \* Take, Get and Delete calls on the key, each once
    Sweepers,  \* replicas that run RunGC (the leader, or two around a handover)
    None,      \* no Secret
    ApiErrors  \* may the API server fail a request, or its reply get lost?

ASSUME StoreAssumption ==
    /\ None \notin Puts
    /\ IsFiniteSet(Puts) /\ IsFiniteSet(Calls) /\ IsFiniteSet(Sweepers)
    /\ ApiErrors \in BOOLEAN

VARIABLES
    secret,  \* the version of the Secret under the key, or None
    expired, \* the Puts whose expiresAt has passed
    put,     \* put[p]: where the Put is
    pc,      \* pc[c]: where the call is
    seen,    \* seen[c]: the version the call read and still works with
    result,  \* result[c]: the entry Take returned to c, or None
    gc       \* gc[s]: the version the sweep of s listed, or None

callVars == <<pc, seen, result>>
vars == <<secret, expired, put, callVars, gc>>

Versions == Puts \cup {None}
\* The Puts that reached the API server, whatever their caller was told.
Written == {p \in Puts : put[p] \in {"ok", "lost"}}
\* c has removed p for itself, or has returned it.
Claims(c, p) == (pc[c] = "redeemed" /\ seen[c] = p) \/ result[c] = p

(* Types, and: a version anyone saw was written, only a finished Take has  *)
(* a result.                                                               *)
TypeOK ==
    /\ secret \in Versions /\ (secret # None => secret \in Written)
    /\ expired \subseteq Puts
    /\ put \in [Puts -> {"idle", "update", "ok", "lost", "error"}]
    /\ pc \in [Calls -> {"idle", "redeem", "redeemed", "check", "drop", "done"}]
    /\ seen \in [Calls -> Versions]
    /\ result \in [Calls -> Versions]
    /\ gc \in [Sweepers -> Versions]
    /\ \A c \in Calls :
          /\ pc[c] \in {"redeem", "redeemed", "check", "drop"} => seen[c] \in Written
          /\ result[c] # None => pc[c] = "done" /\ result[c] \in Written
    /\ \A s \in Sweepers : gc[s] # None => gc[s] \in Written

Init ==
    /\ secret = None
    /\ expired = {}
    /\ put = [p \in Puts |-> "idle"]
    /\ pc = [c \in Calls |-> "idle"]
    /\ seen = [c \in Calls |-> None]
    /\ result = [c \in Calls |-> None]
    /\ gc = [s \in Sweepers |-> None]

-----------------------------------------------------------------------------
(* Put: Create, and on AlreadyExists an Update without a version. *)

PutCreate(p) ==
    /\ put[p] = "idle"
    /\ \/ /\ secret = None
          /\ secret' = p
          /\ put' = [put EXCEPT ![p] = "ok"]
       \/ /\ secret # None
          /\ put' = [put EXCEPT ![p] = "update"]
          /\ UNCHANGED secret
    /\ UNCHANGED <<expired, callVars, gc>>

(* The Secret may be gone again: the Update is then NotFound.              *)
PutUpdate(p) ==
    /\ put[p] = "update"
    /\ \/ /\ secret # None
          /\ secret' = p
          /\ put' = [put EXCEPT ![p] = "ok"]
       \/ /\ secret = None
          /\ put' = [put EXCEPT ![p] = "error"]
          /\ UNCHANGED secret
    /\ UNCHANGED <<expired, callVars, gc>>

(* A failed write, with or without its effect.                             *)
PutError(p) ==
    /\ ApiErrors /\ put[p] \in {"idle", "update"}
    /\ \/ /\ put' = [put EXCEPT ![p] = "error"]
          /\ UNCHANGED secret
       \/ /\ put[p] = "idle" <=> secret = None
          /\ secret' = p
          /\ put' = [put EXCEPT ![p] = "lost"]
    /\ UNCHANGED <<expired, callVars, gc>>

-----------------------------------------------------------------------------
(* deleteExact removes the version that was read and no other.             *)
deleteExactByName(v) == secret # None /\ secret' = None
deleteExact(v) == secret = v /\ secret' = None

(* The call goes on, or returns without an entry. *)
Goto(c, l) ==
    /\ pc' = [pc EXCEPT ![c] = l]
    /\ UNCHANGED <<seen, result>>
Return(c) ==
    /\ pc' = [pc EXCEPT ![c] = "done"]
    /\ seen' = [seen EXCEPT ![c] = None]
    /\ UNCHANGED result

(* Take and Get start with the same read; a missing Secret ends them. *)
Read(c, l) ==
    /\ pc[c] = "idle" /\ secret # None
    /\ seen' = [seen EXCEPT ![c] = secret]
    /\ pc' = [pc EXCEPT ![c] = l]
    /\ UNCHANGED <<secret, expired, put, result, gc>>

TakeGetUnchecked(c) ==
    /\ pc[c] = "idle"
    /\ seen' = [seen EXCEPT ![c] = secret]
    /\ pc' = [pc EXCEPT ![c] = "redeem"]
    /\ UNCHANGED <<secret, expired, put, result, gc>>
TakeGet(c) == Read(c, "redeem")
GetGet(c) == Read(c, "check")

TakeDelete(c) ==
    /\ pc[c] = "redeem"
    /\ \/ deleteExact(seen[c]) /\ Goto(c, "redeemed")
       \/ secret # seen[c] /\ Return(c) /\ UNCHANGED secret
    /\ UNCHANGED <<expired, put, gc>>

(* The delete reports another error, having happened or not.               *)
TakeDeleteErrorAccepts(c) ==
    /\ ApiErrors /\ pc[c] = "redeem"
    /\ deleteExact(seen[c]) \/ UNCHANGED secret
    /\ Goto(c, "redeemed")
    /\ UNCHANGED <<expired, put, gc>>
TakeDeleteError(c) ==
    /\ ApiErrors /\ pc[c] = "redeem"
    /\ deleteExact(seen[c]) \/ UNCHANGED secret
    /\ Return(c)
    /\ UNCHANGED <<expired, put, gc>>

(* Take returns the value only if it has not expired by now.               *)
TakeReturnAlways(c) ==
    /\ pc[c] = "redeemed"
    /\ result' = [result EXCEPT ![c] = seen[c]]
    /\ pc' = [pc EXCEPT ![c] = "done"]
    /\ seen' = [seen EXCEPT ![c] = None]
    /\ UNCHANGED <<secret, expired, put, gc>>
TakeReturn(c) ==
    /\ pc[c] = "redeemed"
    /\ result' = [result EXCEPT ![c] = IF seen[c] \in expired THEN None ELSE seen[c]]
    /\ pc' = [pc EXCEPT ![c] = "done"]
    /\ seen' = [seen EXCEPT ![c] = None]
    /\ UNCHANGED <<secret, expired, put, gc>>

(* Get drops an entry it finds expired; its caller gets ErrNotFound either *)
(* way.                                                                    *)
GetCheck(c) ==
    /\ pc[c] = "check"
    /\ \/ seen[c] \in expired /\ Goto(c, "drop")
       \/ seen[c] \notin expired /\ Return(c)
    /\ UNCHANGED <<secret, expired, put, gc>>

GetDrop(c) ==
    /\ pc[c] = "drop"
    /\ \/ deleteExact(seen[c])
       \/ (secret # seen[c] \/ ApiErrors) /\ UNCHANGED secret
    /\ Return(c)
    /\ UNCHANGED <<expired, put, gc>>

Delete(c) ==
    /\ pc[c] = "idle"
    /\ secret' = None
    /\ Return(c)
    /\ UNCHANGED <<expired, put, gc>>

(* The first request of a Take, a Get or a Delete fails or finds nothing.  *)
CallMiss(c) ==
    /\ pc[c] = "idle" /\ (ApiErrors \/ secret = None)
    /\ Return(c)
    /\ UNCHANGED <<secret, expired, put, gc>>

-----------------------------------------------------------------------------
(* RunGC: a tick lists the entries, the expired ones are deleted.  A sweep *)
(* ends early when a request fails, or when the lead is lost.              *)

GCList(s) ==
    /\ gc[s] = None /\ secret # None
    /\ gc' = [gc EXCEPT ![s] = secret]
    /\ UNCHANGED <<secret, expired, put, callVars>>

GCSkipStops(s) ==
    /\ gc[s] # None
    /\ gc[s] \notin expired \/ secret # gc[s] \/ ApiErrors
    /\ UNCHANGED vars
GCSkip(s) ==
    /\ gc[s] # None
    /\ gc[s] \notin expired \/ secret # gc[s] \/ ApiErrors
    /\ gc' = [gc EXCEPT ![s] = None]
    /\ UNCHANGED <<secret, expired, put, callVars>>

GCDelete(s) ==
    /\ gc[s] # None /\ gc[s] \in expired
    /\ deleteExact(gc[s])
    /\ gc' = [gc EXCEPT ![s] = None]
    /\ UNCHANGED <<expired, put, callVars>>

(* Time passes the expiresAt of p.                                         *)
Expire(p) ==
    /\ p \notin expired
    /\ expired' = expired \cup {p}
    /\ UNCHANGED <<secret, put, callVars, gc>>

-----------------------------------------------------------------------------
PutStep(p) == PutCreate(p) \/ PutUpdate(p) \/ PutError(p) \/ Expire(p)
CallStep(c) ==
    \/ TakeGet(c) \/ TakeDelete(c) \/ TakeDeleteError(c) \/ TakeReturn(c)
    \/ GetGet(c) \/ GetCheck(c) \/ GetDrop(c) \/ Delete(c) \/ CallMiss(c)
SweepStep(s) == GCList(s) \/ GCSkip(s) \/ GCDelete(s)

Next ==
    \/ \E p \in Puts : PutStep(p)
    \/ \E c \in Calls : CallStep(c)
    \/ \E s \in Sweepers : SweepStep(s)

Spec == Init /\ [][Next]_vars

(* Some sweeper's ticker keeps running, and the API server does not fail   *)
(* its deletes for ever.                                                   *)
SweepFairness ==
    \A s \in Sweepers : WF_vars(GCList(s)) /\ WF_vars(GCSkip(s)) /\ SF_vars(GCDelete(s))

FairSpec == Spec /\ SweepFairness

-----------------------------------------------------------------------------
(* "Exactly one caller across every replica can redeem a given key": no    *)
(* two Take calls hold or have returned the same entry, and an entry       *)
(* somebody claimed is no longer in the store.                             *)
SingleRedemption ==
    \A p \in Puts : \A c \in Calls : Claims(c, p) =>
        /\ secret # p
        /\ \A d \in Calls : Claims(d, p) => d = c

(* A live entry leaves the store only for a caller that wanted it: by the  *)
(* first step of a Delete, the second of a Take, or replaced by a Put.     *)
(* Sweeps and the opportunistic delete of Get work from a read that may be *)
(* stale, and still never remove one.                                      *)
LiveEntrySpared ==
    [][secret # None /\ secret \notin expired /\ secret' = None
         => \E c \in Calls : pc[c] \in {"idle", "redeem"} /\ pc'[c] # pc[c]]_vars

(* "A stale record cannot outlive its expiry": an expired entry leaves the *)
(* store, even if nobody asks for it.                                      *)
ExpiredReclaimed == \A p \in Puts : (secret = p /\ p \in expired) ~> (secret # p)

(* The abstract view: an entry a Take has removed counts as stored until   *)
(* that Take returns.                                                      *)
life == [p \in Puts |->
            IF secret = p \/ \E c \in Calls : pc[c] = "redeemed" /\ seen[c] = p THEN "stored"
            ELSE IF p \in Written THEN "gone" ELSE "unwritten"]
redeemers == [p \in Puts |-> {c \in Calls : result[c] = p}]
Abstract == INSTANCE OneShot WITH Entries <- Puts, Callers <- Calls

(* The store implements the single-use promise of OneShot: Take redeems an *)
(* entry at most once and never after it expired.                          *)
ImplementsOneShot == Abstract!Spec
==============================================================================
