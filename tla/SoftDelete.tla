----------------------------- MODULE SoftDelete -----------------------------
(***************************************************************************)
(* How a user, the user's personal organization and its workspaces go      *)
(* away.  A request stamps an object; for a grace period it can be         *)
(* withdrawn and only markers in the membership indexes hide the object;   *)
(* then the soft-delete reconcilers tear everything down.  Five workers    *)
(* run side by side on the hub that leads: the organization and the user   *)
(* branch and the workspace poll of soft-delete, the bootstrap controller, *)
(* which provisions what an organization lacks, and the membership-index   *)
(* controller.                                                             *)
(*                                                                         *)
(* Watch events and the informers' periodic resync start a pass of each    *)
(* worker again and again, so a pass may start at any time and no queue is *)
(* kept.  A pass reads its object once and works from that copy; a status  *)
(* update of a copy that is not current conflicts, and the code drops it.  *)
(***************************************************************************)
EXTENDS Naturals, FiniteSets

CONSTANTS
    Members,    \* users with a membership in the organization
    Owner,      \* the one whose personal organization it is
    Workspaces, \* child workspaces
    DefaultWs,  \* the workspace the bootstrap controller keeps
    MaxCalls,   \* delete and undelete calls
    MaxMishaps  \* failed calls and lost index updates

ASSUME SoftDeleteAssumption ==
    /\ Owner \in Members /\ DefaultWs \in Workspaces
    /\ {"org", "user"} \cap Workspaces = {}
    /\ MaxCalls \in Nat /\ MaxMishaps \in Nat

Requests == {"none", "grace", "expired"}
Rows == {"org"} \cup Workspaces

VARIABLES
    org, user,  \* the two objects: exists, req (deletionRequestedAt)
    home,       \* the organization's kcp workspace is there
    members,    \* Membership objects in it
    kids,       \* its child workspaces: "gone", or the request they carry
    umi,        \* umi[m][r]: row of m's UserMembershipIndex for this
                \* organization ("absent", "live", "marked")
    elsewhere,  \* the owner is an admin of another organization
    fresh,      \* which copies are current: the organization pass's, the one
                \* the user pass fetched, the user pass's own user
    orgPass, userPass, poll, boot, heal, \* the passes in progress
    ranOut,     \* history: requests whose grace period ended
    calls, mishaps

tenantVars == <<org, user, home, members, kids, umi, elsewhere, fresh>>
softVars == <<tenantVars, orgPass, userPass, poll, boot, heal, ranOut, calls, mishaps>>

NoPass == [at |-> "idle", req |-> "none", todo |-> {}, left |-> {}]
NoPoll == [at |-> "idle", req |-> "none", ws |-> DefaultWs, todo |-> {}, left |-> {},
           listed |-> FALSE, who |-> {}]
NoHeal == [at |-> "idle", who |-> Owner, copy |-> [r \in Rows |-> "absent"]]
NoBoot == [at |-> "idle", got |-> {}]

Provisioned == [r \in Rows |-> "live"]
Invited == [r \in Rows |-> IF r = "org" THEN "absent" ELSE "live"]

(* Everything is provisioned; requests may be waiting; an index may lack   *)
(* the row of the organization (a crash between the two writes, rows of    *)
(* older hubs).                                                            *)
SoftInit ==
    /\ org \in [exists : {TRUE}, req : {"none", "grace"}]
    /\ user \in [exists : {TRUE}, req : {"none", "grace"}]
    /\ home = TRUE /\ members = Members
    /\ kids \in [Workspaces -> {"none", "grace"}]
    /\ umi \in [Members -> {Provisioned, Invited}]
    /\ elsewhere \in BOOLEAN /\ fresh = {}
    /\ orgPass = NoPass /\ userPass = NoPass /\ poll = NoPoll
    /\ boot = NoBoot /\ heal = NoHeal
    /\ ranOut = {} /\ calls = 0 /\ mishaps = 0

-----------------------------------------------------------------------------
(* Index writes.  mutateUMI reads through a cache and drops a conflict, so *)
(* a write made through a copy that is behind is lost without a trace.     *)

Row(m, r, v) == umi' = [umi EXCEPT ![m][r] = IF @ = "absent" THEN @ ELSE v]
markUMIEntriesSoftDeleted(m, r) == Row(m, r, "marked")
clearUMIEntriesSoftDeleted(m, r) == Row(m, r, "live")
removeUMIEntryForWorkspace(m, r) == Row(m, r, "absent")
removeUMIEntryForOrg(m) == umi' = [umi EXCEPT ![m] = [r \in Rows |-> "absent"]]

Mishap == mishaps < MaxMishaps /\ mishaps' = mishaps + 1
Smoothly == UNCHANGED mishaps

-----------------------------------------------------------------------------
(* The organization branch: reconcileOrganization. *)

OrgUnchanged == UNCHANGED <<user, elsewhere, userPass, poll, boot, heal, ranOut, calls>>

OrgReadEager ==
    /\ orgPass.at = "idle" /\ org.exists
    /\ orgPass' = [NoPass EXCEPT !.at = "cond",
                                 !.req = IF org.req = "none" THEN "none" ELSE "expired"]
    /\ fresh' = fresh \cup {"org"}
    /\ OrgUnchanged /\ Smoothly /\ UNCHANGED <<org, home, members, kids, umi>>
OrgRead ==
    /\ orgPass.at = "idle" /\ org.exists
    /\ orgPass' = [NoPass EXCEPT !.at = IF org.req = "grace" THEN "list" ELSE "cond",
                                 !.req = org.req]
    /\ fresh' = fresh \cup {"org"}
    /\ OrgUnchanged /\ Smoothly /\ UNCHANGED <<org, home, members, kids, umi>>

(* The condition is set with Status().Update of the pass's copy, if it     *)
(* changed: the whole status, the request included, unless another write   *)
(* came in between.  It is the last use of the copy.  (The condition       *)
(* itself only reports, and is left out; the age of a stamp is not part of *)
(* what is written.)                                                       *)
WriteBack(object, req) ==
    [object EXCEPT !.req = IF "none" \in {req, object.req} THEN req ELSE object.req]

OrgStatusBlind ==
    /\ org' = WriteBack(org, orgPass.req)
    /\ fresh' = fresh \ {"org", "fetched"}
OrgStatus ==
    \/ /\ "org" \in fresh
       /\ org' = WriteBack(org, orgPass.req)
       /\ fresh' = fresh \ {"org", "fetched"}
    \/ UNCHANGED org /\ fresh' = fresh \ {"org"}

OrgCond ==
    /\ orgPass.at = "cond"
    /\ OrgStatus
    /\ orgPass' = IF orgPass.req = "grace" THEN NoPass ELSE [orgPass EXCEPT !.at = "list"]
    /\ OrgUnchanged /\ Smoothly /\ UNCHANGED <<home, members, kids, umi>>

OrgRowsLeftEmpty(todo) ==
    IF todo # {} \/ orgPass.req = "grace" THEN [orgPass EXCEPT !.at = "rows", !.todo = todo]
    ELSE IF orgPass.req = "none" THEN NoPass ELSE [orgPass EXCEPT !.at = "object", !.todo = {}]
(* The last index write, or none if there are no members, ends the loop.   *)
OrgRowsLeft(todo) ==
    IF todo # {} THEN [orgPass EXCEPT !.at = "rows", !.todo = todo]
    ELSE CASE orgPass.req = "none" -> NoPass
           [] orgPass.req = "grace" -> [orgPass EXCEPT !.at = "cond", !.todo = {}]
           [] orgPass.req = "expired" -> [orgPass EXCEPT !.at = "object", !.todo = {}]

OrgList ==
    LET there == {w \in Workspaces : kids[w] # "gone"} IN
    /\ orgPass.at = "list"
    /\ orgPass' = IF orgPass.req = "expired"
                  THEN [orgPass EXCEPT !.at = "kids", !.left = there, !.todo = members \X {"org"}]
                  ELSE OrgRowsLeft(members \X ({"org"} \cup there))
    /\ OrgUnchanged /\ Smoothly /\ UNCHANGED <<org, home, members, kids, umi, fresh>>

OrgDeleteKid ==
    /\ orgPass.at = "kids"
    /\ \/ \E w \in orgPass.left :
             /\ kids' = [kids EXCEPT ![w] = "gone"]
             /\ orgPass' = [orgPass EXCEPT !.left = @ \ {w}]
       \/ /\ orgPass.left = {}
          /\ orgPass' = [orgPass EXCEPT !.at = "members", !.left = members]
          /\ UNCHANGED kids
    /\ OrgUnchanged /\ Smoothly /\ UNCHANGED <<org, home, members, umi, fresh>>

OrgDeleteMember ==
    /\ orgPass.at = "members"
    /\ \/ \E m \in orgPass.left :
             /\ members' = members \ {m}
             /\ orgPass' = [orgPass EXCEPT !.left = @ \ {m}]
       \/ /\ orgPass.left = {}
          /\ orgPass' = [orgPass EXCEPT !.at = "home"]
          /\ UNCHANGED members
    /\ OrgUnchanged /\ Smoothly /\ UNCHANGED <<org, home, kids, umi, fresh>>

(* kcp removes what is left in the workspace with it, in the background of *)
(* this request; here at once.                                             *)
OrgDeleteHome ==
    /\ orgPass.at = "home"
    /\ home' = FALSE /\ members' = {} /\ kids' = [w \in Workspaces |-> "gone"]
    /\ orgPass' = OrgRowsLeft(orgPass.todo)
    /\ OrgUnchanged /\ Smoothly /\ UNCHANGED <<org, umi, fresh>>

OrgRow(m, r) ==
    /\ orgPass.at = "rows"
    /\ orgPass' = OrgRowsLeft(orgPass.todo \ {<<m, r>>})
    /\ \/ /\ \/ orgPass.req = "none" /\ clearUMIEntriesSoftDeleted(m, r)
             \/ orgPass.req = "grace" /\ markUMIEntriesSoftDeleted(m, r)
             \/ orgPass.req = "expired" /\ removeUMIEntryForOrg(m)
          /\ Smoothly
       \/ UNCHANGED umi /\ Mishap
    /\ OrgUnchanged /\ UNCHANGED <<org, home, members, kids, fresh>>

OrgDeleteObject ==
    /\ orgPass.at = "object"
    /\ org' = [org EXCEPT !.exists = FALSE] /\ fresh' = fresh \ {"org", "fetched"}
    /\ orgPass' = NoPass
    /\ OrgUnchanged /\ Smoothly /\ UNCHANGED <<home, members, kids, umi>>

(* Any call fails, or the process dies: the pass ends, a later one starts  *)
(* from the beginning.                                                     *)
OrgFails ==
    /\ orgPass.at # "idle" /\ Mishap
    /\ orgPass' = NoPass /\ fresh' = fresh \ {"org"}
    /\ OrgUnchanged /\ UNCHANGED <<org, home, members, kids, umi>>

OrgStep ==
    \/ OrgRead \/ OrgCond \/ OrgList \/ OrgDeleteKid \/ OrgDeleteMember \/ OrgDeleteHome
    \/ (\E p \in orgPass.todo : OrgRow(p[1], p[2])) \/ OrgDeleteObject

-----------------------------------------------------------------------------
(* The user branch: reconcileUser, for the owner. *)

UserUnchanged == UNCHANGED <<elsewhere, home, members, kids, orgPass, poll, boot, heal, ranOut, calls>>
OwnRows == {Owner} \X {"org", DefaultWs}

UserRead ==
    /\ userPass.at = "idle" /\ user.exists
    /\ userPass' = [NoPass EXCEPT !.at = IF user.req = "grace" THEN "rows" ELSE "cond",
                                  !.req = user.req,
                                  !.todo = IF user.req = "expired" THEN {} ELSE OwnRows]
    /\ fresh' = fresh \cup {"user"}
    /\ UserUnchanged /\ Smoothly /\ UNCHANGED <<org, user, umi>>

UserStatus ==
    IF "user" \in fresh THEN user' = WriteBack(user, userPass.req) ELSE UNCHANGED user

(* "SoleAdminBlocked" (whether or not others administer the organization)  *)
(* ends the pass.                                                          *)
UserCond ==
    /\ userPass.at = "cond"
    /\ UserStatus
    /\ userPass' = CASE userPass.req = "none" -> [userPass EXCEPT !.at = "rows"]
                     [] userPass.req = "grace" -> NoPass
                     [] userPass.req = "expired" ->
                            IF elsewhere THEN NoPass ELSE [userPass EXCEPT !.at = "fetch"]
    /\ fresh' = IF userPass'.at = "fetch" THEN fresh ELSE fresh \ {"user"}
    /\ UserUnchanged /\ Smoothly /\ UNCHANGED <<org, umi>>

UserRow(r) ==
    LET todo == userPass.todo \ {<<Owner, r>>} IN
    /\ userPass.at = "rows"
    /\ userPass' = CASE todo # {} -> [userPass EXCEPT !.todo = todo]
                     [] todo = {} /\ userPass.req = "grace" ->
                            [userPass EXCEPT !.at = "cond", !.todo = {}]
                     [] OTHER -> NoPass
    /\ \/ /\ \/ userPass.req = "none" /\ clearUMIEntriesSoftDeleted(Owner, r)
             \/ userPass.req = "grace" /\ markUMIEntriesSoftDeleted(Owner, r)
          /\ Smoothly
       \/ UNCHANGED umi /\ Mishap
    /\ UserUnchanged /\ UNCHANGED <<org, user, fresh>>

UserFetchOrgForgets ==
    /\ userPass.at = "fetch"
    /\ userPass' = [userPass EXCEPT !.at = IF org.exists THEN "await" ELSE "index"]
    /\ UserUnchanged /\ Smoothly /\ UNCHANGED <<org, user, umi, fresh>>
UserFetchOrg ==
    /\ userPass.at = "fetch"
    /\ userPass' = [userPass EXCEPT !.at = CASE ~org.exists -> "index"
                                             [] org.exists /\ org.req = "none" -> "stamp"
                                             [] OTHER -> "await"]
    /\ fresh' = IF org.exists /\ org.req = "none" THEN fresh \cup {"fetched"} ELSE fresh
    /\ UserUnchanged /\ Smoothly /\ UNCHANGED <<org, user, umi>>

UserStampOrg ==
    /\ userPass.at = "stamp"
    /\ IF "fetched" \in fresh
       THEN org' = [org EXCEPT !.req = userPass.req] /\ fresh' = fresh \ {"org", "fetched"}
       ELSE UNCHANGED <<org, fresh>>
    /\ userPass' = [userPass EXCEPT !.at = "await"]
    /\ UserUnchanged /\ Smoothly /\ UNCHANGED <<user, umi>>

UserAwait ==
    /\ userPass.at = "await"
    /\ UserStatus
    /\ userPass' = NoPass /\ fresh' = fresh \ {"user"}
    /\ UserUnchanged /\ Smoothly /\ UNCHANGED <<org, umi>>

UserDeleteUMI ==
    /\ userPass.at = "index"
    /\ removeUMIEntryForOrg(Owner)
    /\ userPass' = [userPass EXCEPT !.at = "object"]
    /\ UserUnchanged /\ Smoothly /\ UNCHANGED <<org, user, fresh>>

UserDeleteObject ==
    /\ userPass.at = "object"
    /\ user' = [user EXCEPT !.exists = FALSE] /\ fresh' = fresh \ {"user"}
    /\ userPass' = NoPass
    /\ UserUnchanged /\ Smoothly /\ UNCHANGED <<org, umi>>

UserFails ==
    /\ userPass.at # "idle" /\ Mishap
    /\ userPass' = NoPass /\ fresh' = fresh \ {"user", "fetched"}
    /\ UserUnchanged /\ UNCHANGED <<org, user, umi>>

UserStep ==
    \/ UserRead \/ UserCond \/ (\E p \in userPass.todo : UserRow(p[2]))
    \/ UserFetchOrg \/ UserStampOrg \/ UserAwait \/ UserDeleteUMI \/ UserDeleteObject

-----------------------------------------------------------------------------
(* The workspace branch: reconcileAllWorkspaces, once a minute.  The       *)
(* members are listed for its first workspace, and that list is used for   *)
(* all of them.                                                            *)

PollUnchanged == UNCHANGED <<org, user, elsewhere, home, members, fresh, orgPass, userPass, boot, heal, ranOut, calls>>

(* What is left of the sweep: index writes, then the other workspaces.     *)
PollLeft(p, todo) ==
    CASE todo # {} -> [p EXCEPT !.at = "rows", !.todo = todo]
      [] todo = {} /\ p.left # {} -> [p EXCEPT !.at = "next", !.req = "none", !.todo = {}]
      [] OTHER -> NoPoll

PollList ==
    /\ poll.at = "idle" /\ home
    /\ poll' = PollLeft([NoPoll EXCEPT !.left = {w \in Workspaces : kids[w] # "gone"}], {})
    /\ PollUnchanged /\ Smoothly /\ UNCHANGED <<kids, umi>>

(* A workspace that vanished since it was listed carries no request.       *)
PollRead(w) ==
    LET p == [poll EXCEPT !.req = IF kids[w] = "gone" THEN "none" ELSE kids[w],
                          !.ws = w, !.left = @ \ {w},
                          !.who = IF poll.listed THEN @ ELSE members,
                          !.listed = TRUE] IN
    /\ poll.at = "next"
    /\ poll' = IF p.req = "expired" THEN [p EXCEPT !.at = "delete"] ELSE PollLeft(p, p.who)
    /\ PollUnchanged /\ Smoothly /\ UNCHANGED <<kids, umi>>

PollDelete ==
    /\ poll.at = "delete"
    /\ kids' = [kids EXCEPT ![poll.ws] = "gone"]
    /\ poll' = PollLeft(poll, poll.who)
    /\ PollUnchanged /\ Smoothly /\ UNCHANGED umi

PollRow(m) ==
    /\ poll.at = "rows"
    /\ poll' = PollLeft(poll, poll.todo \ {m})
    /\ \/ /\ \/ poll.req = "none" /\ clearUMIEntriesSoftDeleted(m, poll.ws)
             \/ poll.req = "grace" /\ markUMIEntriesSoftDeleted(m, poll.ws)
             \/ poll.req = "expired" /\ removeUMIEntryForWorkspace(m, poll.ws)
          /\ Smoothly
       \/ UNCHANGED umi /\ Mishap
    /\ PollUnchanged /\ UNCHANGED kids

(* A failed call leaves the workspace for the next sweep; a process that   *)
(* dies leaves all of them.                                                *)
PollFails ==
    /\ poll.at # "idle" /\ Mishap
    /\ poll' \in {PollLeft(poll, {}), NoPoll}
    /\ PollUnchanged /\ UNCHANGED <<kids, umi>>

PollStep ==
    \/ PollList \/ (\E w \in poll.left : PollRead(w)) \/ PollDelete
    \/ (\E m \in poll.todo : PollRow(m))

-----------------------------------------------------------------------------
(* The bootstrap controller: reconcileOrganizationStatus.  got says which  *)
(* of its steps succeeded.                                                 *)

BootUnchanged == UNCHANGED <<org, user, elsewhere, orgPass, userPass, poll, heal, ranOut, calls>>

BootRead ==
    /\ boot.at = "idle" /\ user.exists /\ org.exists /\ org.req = "none"
    /\ boot' = [at |-> "home", got |-> {}]
    /\ BootUnchanged /\ Smoothly /\ UNCHANGED <<home, members, kids, umi, fresh>>

BootHomeOnce ==
    /\ boot.at = "home"
    /\ home' = TRUE /\ boot' = IF home THEN NoBoot ELSE [boot EXCEPT !.at = "member"]
    /\ BootUnchanged /\ Smoothly /\ UNCHANGED <<members, kids, umi, fresh>>
BootHome ==
    /\ boot.at = "home"
    /\ \/ home' = TRUE /\ boot' = [boot EXCEPT !.at = "member"] /\ Smoothly
       \/ UNCHANGED home /\ boot' = NoBoot /\ Mishap
    /\ BootUnchanged /\ UNCHANGED <<members, kids, umi, fresh>>

BootMember ==
    /\ boot.at = "member"
    /\ \/ /\ home
          /\ members' = members \cup {Owner}
          /\ boot' = [at |-> "child", got |-> {"org"}] /\ Smoothly
       \/ /\ boot' = [boot EXCEPT !.at = "child"] /\ UNCHANGED members
          /\ (IF home THEN Mishap ELSE Smoothly)
    /\ BootUnchanged /\ UNCHANGED <<home, kids, umi, fresh>>

BootChild ==
    /\ boot.at = "child"
    /\ \/ /\ home
          /\ kids' = [kids EXCEPT ![DefaultWs] = IF @ = "gone" THEN "none" ELSE @]
          /\ boot' = [at |-> "index", got |-> boot.got \cup {DefaultWs}] /\ Smoothly
       \/ /\ boot' = [boot EXCEPT !.at = "index"] /\ UNCHANGED kids
          /\ (IF home THEN Mishap ELSE Smoothly)
    /\ BootUnchanged /\ UNCHANGED <<home, members, umi, fresh>>

(* syncUserMembershipIndex keeps the marker of a row that is there.  Then  *)
(* the conditions are saved: if they changed, other copies of the          *)
(* organization are behind.                                                *)
BootIndex ==
    /\ boot.at = "index"
    /\ \/ /\ umi' = [umi EXCEPT ![Owner] =
                        [r \in Rows |-> IF @[r] = "absent" /\ "org" \in boot.got /\ r \in boot.got
                                        THEN "live" ELSE @[r]]]
          /\ Smoothly
       \/ UNCHANGED umi /\ Mishap
    /\ fresh' \in {fresh, fresh \ {"org", "fetched"}}
    /\ boot' = NoBoot
    /\ BootUnchanged /\ UNCHANGED <<home, members, kids>>

BootStep == BootRead \/ BootHome \/ BootMember \/ BootChild \/ BootIndex

-----------------------------------------------------------------------------
(* The membership-index controller: an index with a live workspace row and *)
(* no row for the organization is given one.                               *)

HealUnchanged == UNCHANGED <<org, user, elsewhere, home, kids, fresh, orgPass, userPass, poll, boot, ranOut, calls>>

HealRead(m) ==
    /\ heal.at = "idle"
    /\ umi[m]["org"] = "absent" /\ \E w \in Workspaces : umi[m][w] = "live"
    /\ org.exists /\ org.req = "none"
    /\ heal' = [at |-> "ensure", who |-> m, copy |-> umi[m]]
    /\ HealUnchanged /\ Smoothly /\ UNCHANGED <<members, umi>>

HealEnsure ==
    /\ heal.at = "ensure"
    /\ \/ /\ home /\ members' = members \cup {heal.who}
          /\ heal' = [heal EXCEPT !.at = "index"] /\ Smoothly
       \/ heal' = NoHeal /\ UNCHANGED members /\ (IF home THEN Mishap ELSE Smoothly)
    /\ HealUnchanged /\ UNCHANGED umi

HealIndex ==
    /\ heal.at = "index"
    /\ IF umi[heal.who] = heal.copy
       THEN umi' = [umi EXCEPT ![heal.who] = [heal.copy EXCEPT !["org"] = "live"]]
       ELSE UNCHANGED umi
    /\ heal' = NoHeal
    /\ HealUnchanged /\ Smoothly /\ UNCHANGED members

HealStep == (\E m \in Members : HealRead(m)) \/ HealEnsure \/ HealIndex

-----------------------------------------------------------------------------
(* Calls and the clock. *)

CallsUnchanged ==
    UNCHANGED <<elsewhere, home, members, umi, orgPass, userPass, poll, boot, heal, mishaps>>

deleteOrg ==
    /\ org.exists /\ org.req = "none" /\ org' = [org EXCEPT !.req = "grace"]
    /\ fresh' = fresh \ {"org", "fetched"} /\ UNCHANGED <<user, kids>>
undeleteOrg ==
    /\ org.exists /\ org.req # "none" /\ org' = [org EXCEPT !.req = "none"]
    /\ fresh' = fresh \ {"org", "fetched"} /\ UNCHANGED <<user, kids>>
deleteSelfUser ==
    /\ user.exists /\ user.req = "none" /\ user' = [user EXCEPT !.req = "grace"]
    /\ fresh' = fresh \ {"user"} /\ UNCHANGED <<org, kids>>
undeleteSelfUser ==
    /\ user.exists /\ user.req # "none" /\ user' = [user EXCEPT !.req = "none"]
    /\ fresh' = fresh \ {"user"} /\ UNCHANGED <<org, kids>>
(* A second request for a workspace starts its grace period again.         *)
deleteWorkspace(w) ==
    /\ kids[w] # "gone" /\ kids' = [kids EXCEPT ![w] = "grace"] /\ UNCHANGED <<org, user, fresh>>
undeleteWorkspace(w) ==
    /\ kids[w] \in {"grace", "expired"} /\ kids' = [kids EXCEPT ![w] = "none"]
    /\ UNCHANGED <<org, user, fresh>>

Call ==
    /\ calls < MaxCalls /\ calls' = calls + 1
    /\ \/ deleteOrg \/ undeleteOrg \/ deleteSelfUser \/ undeleteSelfUser
       \/ \E w \in Workspaces : deleteWorkspace(w) \/ undeleteWorkspace(w)
    /\ CallsUnchanged /\ UNCHANGED ranOut

GraceEnds ==
    /\ \/ /\ org.exists /\ org.req = "grace" /\ org' = [org EXCEPT !.req = "expired"]
          /\ ranOut' = ranOut \cup {"org"} /\ UNCHANGED <<user, kids>>
       \/ /\ user.exists /\ user.req = "grace" /\ user' = [user EXCEPT !.req = "expired"]
          /\ ranOut' = ranOut \cup {"user"} /\ UNCHANGED <<org, kids>>
       \/ \E w \in Workspaces :
             /\ kids[w] = "grace" /\ kids' = [kids EXCEPT ![w] = "expired"]
             /\ ranOut' = ranOut \cup {w} /\ UNCHANGED <<org, user>>
    /\ CallsUnchanged /\ UNCHANGED <<fresh, calls>>

-----------------------------------------------------------------------------
SoftNext ==
    \/ OrgStep \/ OrgFails \/ UserStep \/ UserFails \/ PollStep \/ PollFails
    \/ BootStep \/ HealStep \/ Call \/ GraceEnds

SoftSpec == SoftInit /\ [][SoftNext]_softVars

(* Every worker goes on: watch events, the resync and the ticker start its *)
(* passes, and a call that fails is made again by a later pass.  Conditions *)
(* change rarely: a stamp that is tried again and again does not meet such *)
(* a change every time (SF).                                               *)
SoftFairness ==
    /\ WF_softVars(OrgStep) /\ WF_softVars(UserStep) /\ WF_softVars(PollStep)
    /\ WF_softVars(BootStep) /\ WF_softVars(HealStep) /\ WF_softVars(GraceEnds)
    /\ SF_softVars("fetched" \in fresh /\ UserStampOrg)

SoftFairSpec == SoftSpec /\ SoftFairness

-----------------------------------------------------------------------------
Passes(todo) ==
    [at : {"idle", "cond", "list", "kids", "members", "home", "rows", "object",
           "fetch", "stamp", "await", "index"},
     req : Requests, todo : SUBSET todo, left : SUBSET (Workspaces \cup Members)]

(* Types, and: a loop over index rows has rows left, and a fetched copy is *)
(* about to be used.                                                       *)
SoftTypeOK ==
    /\ {org, user} \subseteq [exists : BOOLEAN, req : Requests]
    /\ home \in BOOLEAN /\ members \subseteq Members
    /\ kids \in [Workspaces -> Requests \cup {"gone"}]
    /\ umi \in [Members -> [Rows -> {"absent", "live", "marked"}]]
    /\ elsewhere \in BOOLEAN /\ fresh \subseteq {"org", "fetched", "user"}
    /\ orgPass \in Passes(Members \X Rows) /\ userPass \in Passes(OwnRows)
    /\ orgPass.at = "rows" => orgPass.todo # {}
    /\ "fetched" \in fresh => userPass.at = "stamp"
    /\ poll \in [at : {"idle", "next", "delete", "rows"}, req : Requests, ws : Workspaces,
                 todo : SUBSET Members, left : SUBSET Workspaces, listed : BOOLEAN,
                 who : SUBSET Members]
    /\ boot \in [at : {"idle", "home", "member", "child", "index"}, got : SUBSET Rows]
    /\ heal \in [at : {"idle", "ensure", "index"}, who : Members,
                 copy : [Rows -> {"absent", "live", "marked"}]]
    /\ ranOut \subseteq {"org", "user"} \cup Workspaces
    /\ calls \in 0..MaxCalls /\ mishaps \in 0..MaxMishaps

(* "Inside the grace window the reconciler does NOT delete anything": what *)
(* is gone had a request, of its own or of what it belongs to, whose grace *)
(* period ended, however requests, withdrawals and passes with old copies  *)
(* interleave.                                                             *)
NothingLostInGrace ==
    /\ ~user.exists => "user" \in ranOut
    /\ ~org.exists \/ ~home \/ members # Members => ranOut \cap {"org", "user"} # {}
    /\ \A w \in Workspaces : kids[w] = "gone" => ranOut \cap {"org", "user", w} # {}

(* A withdrawn request stays withdrawn: a pass that still has it in its    *)
(* copy does not write it back with a condition.  Only a new call, or the  *)
(* cascade of the owner, puts a request on the organization again.         *)
UndeleteHolds ==
    [][org.req = "none" /\ org'.req # "none" =>
          calls' # calls \/ (userPass.at = "stamp" /\ org'.req = "expired")]_softVars

(* A deletion whose grace period ended is carried out: the organization's, *)
(* and the user's, which waits for the organization's, unless it is        *)
(* withdrawn or the user administers another organization.  (Again and     *)
(* again nothing is overdue: calls are few, so an overdue deletion that is *)
(* not carried out stays overdue.)                                         *)
Overdue ==
    \/ org.exists /\ org.req = "expired"
    \/ user.exists /\ user.req = "expired" /\ ~elsewhere
DeletionCompletes == []<>(~Overdue)

AllLive ==
    /\ user.exists /\ user.req = "none" /\ org.exists /\ org.req = "none"
    /\ \A w \in Workspaces : kids[w] \in {"none", "gone"}
Usable ==
    /\ home /\ Owner \in members /\ kids[DefaultWs] # "gone"
    /\ umi[Owner]["org"] # "absent" /\ umi[Owner][DefaultWs] # "absent"
    /\ \A m \in members, r \in Rows : umi[m][r] # "marked"
    /\ \A m \in Members : (\E w \in Workspaces : umi[m][w] = "live") => umi[m]["org"] # "absent"

(* When all requests are withdrawn, the owner ends up with a personal      *)
(* organization that can be used, even if part of it was already gone; no  *)
(* marker hides a row of a member for ever, although marks are also set by *)
(* passes that read the request before, and index updates get lost; and    *)
(* whoever has a workspace can navigate to it.                             *)
UndeletedIsUsable == []<>(AllLive => Usable)
=============================================================================
