--------------------------- MODULE SoftDeleteProofs ---------------------------
(***************************************************************************)
(* SoftDelete for any number of members and workspaces, and for passes     *)
(* that overlap in any way: nothing is lost inside a grace period, and a   *)
(* withdrawn request stays withdrawn.                                      *)
(***************************************************************************)
EXTENDS SoftDelete, TLAPS

OrgGrounds == ranOut \cap {"org", "user"} # {}

(* A request that expired, in an object or in a pass's copy of it, had a   *)
(* grace period that ended, even if it was withdrawn since.                *)
RequestGrounds ==
    /\ org.req = "expired" => OrgGrounds
    /\ user.req = "expired" => "user" \in ranOut
    /\ \A w \in Workspaces : kids[w] = "expired" => w \in ranOut
    /\ orgPass.req = "expired" => OrgGrounds
    /\ userPass.req = "expired" => "user" \in ranOut
    /\ poll.req = "expired" => poll.ws \in ranOut

(* A pass deletes only on such a copy.                                     *)
PassGrounds ==
    /\ orgPass.at \in {"kids", "members", "home", "object"} => orgPass.req = "expired"
    /\ userPass.at \in {"fetch", "stamp", "await", "index", "object"} => userPass.req = "expired"
    /\ poll.at = "delete" => poll.req = "expired"

(* A current copy of the organization has the request the object has.      *)
CopyIsCurrent ==
    "org" \in fresh => (orgPass.req = "none" <=> org.req = "none")

IInv ==
    SoftTypeOK /\ RequestGrounds /\ PassGrounds /\ CopyIsCurrent /\ NothingLostInGrace

-----------------------------------------------------------------------------
LEMMA RowNames ==
    /\ "org" \in Rows /\ DefaultWs \in Rows /\ Workspaces \subseteq Rows
    /\ "org" \notin Workspaces /\ "user" \notin Workspaces
    /\ Owner \in Members /\ DefaultWs \in Workspaces
    /\ MaxCalls \in Nat /\ MaxMishaps \in Nat
BY SoftDeleteAssumption DEF Rows

LEMMA Rests ==
    /\ NoPass \in Passes(Members \X Rows) /\ NoPass \in Passes(OwnRows)
    /\ NoPass.at = "idle" /\ NoPass.req = "none"
BY DEF NoPass, Passes, Requests

(* Index writes keep the shape of the indexes.                             *)
LEMMA RowKeeps ==
    ASSUME SoftTypeOK, NEW m \in Members, NEW r \in Rows, NEW v \in {"absent", "live", "marked"},
           Row(m, r, v) \/ removeUMIEntryForOrg(m)
    PROVE  umi' \in [Members -> [Rows -> {"absent", "live", "marked"}]]
<1>1. umi \in [Members -> [Rows -> {"absent", "live", "marked"}]]
  BY DEF SoftTypeOK
<1>2. CASE Row(m, r, v)
  BY <1>1, <1>2 DEF Row
<1>3. CASE removeUMIEntryForOrg(m)
  BY <1>1, <1>3 DEF removeUMIEntryForOrg
<1> QED BY <1>2, <1>3

LEMMA RowsLeftKeeps ==
    ASSUME SoftTypeOK, NEW todo \in SUBSET (Members \X Rows)
    PROVE  /\ OrgRowsLeft(todo) \in Passes(Members \X Rows)
           /\ OrgRowsLeft(todo).at = "rows" => OrgRowsLeft(todo).todo # {}
           /\ OrgRowsLeft(todo).at \in {"rows", "idle", "cond", "object"}
           /\ OrgRowsLeft(todo).at = "object" => orgPass.req = "expired"
           /\ OrgRowsLeft(todo).req = orgPass.req
BY Rests DEF SoftTypeOK, OrgRowsLeft, Passes, Requests, NoPass

LEMMA OrgKeepsTypes ==
    ASSUME SoftTypeOK, OrgStep \/ OrgFails
    PROVE  SoftTypeOK'
<1> USE RowNames, Rests
<1>1. CASE OrgRead
  <2>1. /\ orgPass' \in Passes(Members \X Rows) /\ orgPass'.at # "rows"
        /\ fresh' \subseteq {"org", "fetched", "user"}
        /\ "fetched" \in fresh' => userPass.at = "stamp"
    BY <1>1 DEF OrgRead, SoftTypeOK, Passes, Requests, NoPass
  <2> QED BY <1>1, <2>1 DEF OrgRead, OrgUnchanged, Smoothly, SoftTypeOK
<1>2. CASE OrgCond
  <2>1. orgPass' \in Passes(Members \X Rows) /\ orgPass'.at # "rows"
    BY <1>2 DEF OrgCond, SoftTypeOK, Passes
  <2>2. org' \in [exists : BOOLEAN, req : Requests]
    <3>1. org \in [exists : BOOLEAN, req : Requests] /\ orgPass.req \in Requests
      BY DEF SoftTypeOK, Passes
    <3>2. WriteBack(org, orgPass.req) \in [exists : BOOLEAN, req : Requests]
      BY <3>1 DEF WriteBack
    <3> QED BY <1>2, <3>1, <3>2 DEF OrgCond, OrgStatus
  <2>3. fresh' \subseteq fresh
    BY <1>2 DEF OrgCond, OrgStatus
  <2> QED BY <1>2, <2>1, <2>2, <2>3 DEF OrgCond, OrgUnchanged, Smoothly, SoftTypeOK
<1>3. CASE OrgList
  <2>1. /\ orgPass \in Passes(Members \X Rows) /\ members \subseteq Members
        /\ {w \in Workspaces : kids[w] # "gone"} \subseteq Workspaces
    BY DEF SoftTypeOK
  <2>2. members \X {"org"} \in SUBSET (Members \X Rows)
    BY <2>1
  <2>3. members \X ({"org"} \cup {w \in Workspaces : kids[w] # "gone"}) \in SUBSET (Members \X Rows)
    BY <2>1
  <2>4. /\ orgPass' \in Passes(Members \X Rows)
        /\ orgPass'.at = "rows" => orgPass'.todo # {}
    <3>1. CASE orgPass.req = "expired"
      BY <1>3, <2>1, <2>2, <3>1 DEF OrgList, Passes
    <3>2. CASE orgPass.req # "expired"
      BY <1>3, <2>3, <3>2, RowsLeftKeeps DEF OrgList
    <3> QED BY <3>1, <3>2
  <2> QED BY <1>3, <2>4 DEF OrgList, OrgUnchanged, Smoothly, SoftTypeOK
<1>4. CASE OrgDeleteKid
  <2>1. /\ orgPass \in Passes(Members \X Rows) /\ members \subseteq Members
        /\ kids \in [Workspaces -> Requests \cup {"gone"}]
    BY DEF SoftTypeOK
  <2>2. orgPass' \in Passes(Members \X Rows) /\ orgPass'.at # "rows"
    <3>1. orgPass.at = "kids" /\ orgPass.left \in SUBSET (Workspaces \cup Members)
      BY <1>4, <2>1 DEF OrgDeleteKid, Passes
    <3>2. ASSUME NEW w \in orgPass.left, orgPass' = [orgPass EXCEPT !.left = @ \ {w}]
          PROVE  orgPass' \in Passes(Members \X Rows) /\ orgPass'.at # "rows"
      <4>1. orgPass.left \ {w} \in SUBSET (Workspaces \cup Members)
        BY <3>1
      <4> QED BY <2>1, <3>1, <3>2, <4>1 DEF Passes
    <3>3. CASE orgPass' = [orgPass EXCEPT !.at = "members", !.left = members]
      BY <2>1, <3>3 DEF Passes
    <3> QED BY <1>4, <3>2, <3>3 DEF OrgDeleteKid
  <2>3. kids' \in [Workspaces -> Requests \cup {"gone"}]
    BY <1>4, <2>1 DEF OrgDeleteKid
  <2> QED BY <1>4, <2>2, <2>3 DEF OrgDeleteKid, OrgUnchanged, Smoothly, SoftTypeOK
<1>5. CASE OrgDeleteMember
  BY <1>5 DEF OrgDeleteMember, OrgUnchanged, Smoothly, SoftTypeOK, Passes, Requests
<1>6. CASE OrgDeleteHome
  <2>1. orgPass.todo \in SUBSET (Members \X Rows)
    BY DEF SoftTypeOK, Passes
  <2> QED BY <1>6, <2>1, RowsLeftKeeps DEF OrgDeleteHome, OrgUnchanged, Smoothly, SoftTypeOK
<1>7. ASSUME NEW p \in orgPass.todo, OrgRow(p[1], p[2])
      PROVE  SoftTypeOK'
  <2>1. /\ p[1] \in Members /\ p[2] \in Rows
        /\ orgPass.todo \ {<<p[1], p[2]>>} \in SUBSET (Members \X Rows)
    BY DEF SoftTypeOK, Passes
  <2>2. umi' \in [Members -> [Rows -> {"absent", "live", "marked"}]]
    BY <1>7, <2>1, RowKeeps
       DEF OrgRow, markUMIEntriesSoftDeleted, clearUMIEntriesSoftDeleted, SoftTypeOK
  <2>3. mishaps' \in 0..MaxMishaps
    BY <1>7 DEF OrgRow, Smoothly, Mishap, SoftTypeOK
  <2> QED BY <1>7, <2>1, <2>2, <2>3, RowsLeftKeeps DEF OrgRow, OrgUnchanged, SoftTypeOK
<1>8. CASE OrgDeleteObject
  <2>1. org' \in [exists : BOOLEAN, req : Requests]
    BY <1>8 DEF OrgDeleteObject, SoftTypeOK
  <2>2. orgPass' = NoPass /\ fresh' \subseteq fresh
    BY <1>8 DEF OrgDeleteObject
  <2> QED BY <1>8, <2>1, <2>2 DEF OrgDeleteObject, OrgUnchanged, Smoothly, SoftTypeOK
<1>9. CASE OrgFails
  BY <1>9 DEF OrgFails, OrgUnchanged, Mishap, SoftTypeOK, NoPass
<1> QED BY <1>1, <1>2, <1>3, <1>4, <1>5, <1>6, <1>7, <1>8, <1>9 DEF OrgStep

LEMMA UserKeepsTypes ==
    ASSUME SoftTypeOK, UserStep \/ UserFails
    PROVE  SoftTypeOK'
<1> USE RowNames, Rests
<1>1. CASE UserRead
  <2>1. /\ userPass' \in Passes(OwnRows) /\ "fetched" \notin fresh'
        /\ fresh' \subseteq {"org", "fetched", "user"}
    BY <1>1 DEF UserRead, SoftTypeOK, Passes, Requests, NoPass
  <2> QED BY <1>1, <2>1 DEF UserRead, UserUnchanged, Smoothly, SoftTypeOK
<1>2. CASE UserCond
  <2>1. user' \in [exists : BOOLEAN, req : Requests]
    BY <1>2 DEF UserCond, UserStatus, WriteBack, SoftTypeOK, Passes, Requests
  <2>2. /\ userPass' \in Passes(OwnRows) /\ "fetched" \notin fresh'
        /\ fresh' \subseteq {"org", "fetched", "user"}
    <3>1. NoPass \in Passes(OwnRows)
      BY DEF NoPass, Passes, Requests
    <3>2. \A at \in {"rows", "fetch"} : [userPass EXCEPT !.at = at] \in Passes(OwnRows)
      BY DEF SoftTypeOK, Passes
    <3>3. userPass.req \in {"none", "grace", "expired"}
      BY DEF SoftTypeOK, Passes, Requests
    <3>4. userPass' \in {NoPass, [userPass EXCEPT !.at = "rows"], [userPass EXCEPT !.at = "fetch"]}
      BY <1>2, <3>3 DEF UserCond
    <3>5. fresh' \subseteq fresh /\ userPass.at = "cond"
      BY <1>2 DEF UserCond
    <3> QED BY <3>1, <3>2, <3>4, <3>5 DEF SoftTypeOK
  <2>3. UserUnchanged /\ UNCHANGED <<org, umi, mishaps>>
    BY <1>2 DEF UserCond, Smoothly
  <2> QED BY <2>1, <2>2, <2>3 DEF UserUnchanged, SoftTypeOK
<1>3. ASSUME NEW p \in userPass.todo, UserRow(p[2])
      PROVE  SoftTypeOK'
  <2>1. p[2] \in Rows
    BY DEF SoftTypeOK, Passes, OwnRows
  <2>2. umi' \in [Members -> [Rows -> {"absent", "live", "marked"}]]
    BY <1>3, <2>1, RowKeeps
       DEF UserRow, markUMIEntriesSoftDeleted, clearUMIEntriesSoftDeleted, SoftTypeOK
  <2>3. mishaps' \in 0..MaxMishaps
    BY <1>3 DEF UserRow, Smoothly, Mishap, SoftTypeOK
  <2>4. userPass' \in Passes(OwnRows) /\ userPass.at = "rows"
    BY <1>3 DEF UserRow, SoftTypeOK, Passes
  <2> QED BY <1>3, <2>2, <2>3, <2>4 DEF UserRow, UserUnchanged, SoftTypeOK
<1>4. CASE UserFetchOrg
  <2>1. userPass' \in Passes(OwnRows) /\ ("fetched" \in fresh' => userPass'.at = "stamp")
    BY <1>4 DEF UserFetchOrg, SoftTypeOK, Passes
  <2>2. fresh' \subseteq {"org", "fetched", "user"}
    BY <1>4 DEF UserFetchOrg, SoftTypeOK
  <2> QED BY <1>4, <2>1, <2>2 DEF UserFetchOrg, UserUnchanged, Smoothly, SoftTypeOK
<1>5. CASE UserStampOrg
  <2>1. org' \in [exists : BOOLEAN, req : Requests]
    BY <1>5 DEF UserStampOrg, SoftTypeOK, Passes
  <2>2. /\ userPass' \in Passes(OwnRows) /\ "fetched" \notin fresh'
        /\ fresh' \subseteq {"org", "fetched", "user"}
    BY <1>5 DEF UserStampOrg, SoftTypeOK, Passes
  <2> QED BY <1>5, <2>1, <2>2 DEF UserStampOrg, UserUnchanged, Smoothly, SoftTypeOK
<1>6. CASE UserAwait
  <2>1. user' \in [exists : BOOLEAN, req : Requests]
    BY <1>6 DEF UserAwait, UserStatus, WriteBack, SoftTypeOK, Passes, Requests
  <2>2. /\ userPass' \in Passes(OwnRows) /\ "fetched" \notin fresh'
        /\ fresh' \subseteq {"org", "fetched", "user"}
    BY <1>6 DEF UserAwait, SoftTypeOK, Passes, NoPass
  <2> QED BY <1>6, <2>1, <2>2 DEF UserAwait, UserUnchanged, Smoothly, SoftTypeOK
<1>7. CASE UserDeleteUMI
  <2>1. userPass' \in Passes(OwnRows) /\ "fetched" \notin fresh
    BY <1>7 DEF UserDeleteUMI, SoftTypeOK, Passes
  <2>2. umi' \in [Members -> [Rows -> {"absent", "live", "marked"}]]
    BY <1>7, RowKeeps DEF UserDeleteUMI
  <2> QED BY <1>7, <2>1, <2>2 DEF UserDeleteUMI, UserUnchanged, Smoothly, SoftTypeOK
<1>8. CASE UserDeleteObject
  <2>1. user' \in [exists : BOOLEAN, req : Requests] /\ "fetched" \notin fresh
    BY <1>8 DEF UserDeleteObject, SoftTypeOK
  <2>2. userPass' = NoPass /\ fresh' \subseteq fresh
    BY <1>8 DEF UserDeleteObject
  <2> QED BY <1>8, <2>1, <2>2 DEF UserDeleteObject, UserUnchanged, Smoothly, SoftTypeOK
<1>9. CASE UserFails
  BY <1>9 DEF UserFails, UserUnchanged, Mishap, SoftTypeOK
<1> QED BY <1>1, <1>2, <1>3, <1>4, <1>5, <1>6, <1>7, <1>8, <1>9 DEF UserStep

LEMMA PollLeftKeeps ==
    ASSUME NEW p \in [at : {"idle", "next", "delete", "rows"}, req : Requests, ws : Workspaces,
                      todo : SUBSET Members, left : SUBSET Workspaces, listed : BOOLEAN,
                      who : SUBSET Members],
           NEW todo \in SUBSET Members
    PROVE  /\ PollLeft(p, todo) \in
                  [at : {"idle", "next", "delete", "rows"}, req : Requests, ws : Workspaces,
                   todo : SUBSET Members, left : SUBSET Workspaces, listed : BOOLEAN,
                   who : SUBSET Members]
           /\ PollLeft(p, todo).at # "delete"
           /\ \/ PollLeft(p, todo).req = "none"
              \/ PollLeft(p, todo).req = p.req /\ PollLeft(p, todo).ws = p.ws
BY RowNames DEF PollLeft, NoPoll, Requests

LEMMA PollKeepsTypes ==
    ASSUME SoftTypeOK, PollStep \/ PollFails
    PROVE  SoftTypeOK'
<1> DEFINE Polls == [at : {"idle", "next", "delete", "rows"}, req : Requests, ws : Workspaces,
                     todo : SUBSET Members, left : SUBSET Workspaces, listed : BOOLEAN,
                     who : SUBSET Members]
<1> USE RowNames
<1>0. poll \in Polls /\ NoPoll \in Polls /\ members \subseteq Members
      /\ kids \in [Workspaces -> Requests \cup {"gone"}]
  BY DEF SoftTypeOK, NoPoll, Requests
<1>1. CASE PollList
  <2>1. [NoPoll EXCEPT !.left = {w \in Workspaces : kids[w] # "gone"}] \in Polls
    BY <1>0
  <2>2. poll' \in Polls
    BY <1>1, <2>1, PollLeftKeeps DEF PollList
  <2> QED BY <1>1, <2>2 DEF PollList, PollUnchanged, Smoothly, SoftTypeOK
<1>2. ASSUME NEW w \in poll.left, PollRead(w)
      PROVE  SoftTypeOK'
  <2> DEFINE p == [poll EXCEPT !.req = IF kids[w] = "gone" THEN "none" ELSE kids[w],
                               !.ws = w, !.left = @ \ {w},
                               !.who = IF poll.listed THEN @ ELSE members,
                               !.listed = TRUE]
  <2>1. p \in Polls /\ p.who \in SUBSET Members
    BY <1>0 DEF Requests
  <2>2. [p EXCEPT !.at = "delete"] \in Polls
    BY <2>1
  <2>3. PollLeft(p, p.who) \in Polls
    BY <2>1, PollLeftKeeps
  <2>4. poll' \in Polls
    BY <1>2, <2>2, <2>3 DEF PollRead
  <2> QED BY <1>2, <2>4 DEF PollRead, PollUnchanged, Smoothly, SoftTypeOK
<1>3. CASE PollDelete
  <2>1. poll' \in Polls
    BY <1>0, <1>3, PollLeftKeeps DEF PollDelete
  <2>2. kids' \in [Workspaces -> Requests \cup {"gone"}]
    BY <1>0, <1>3 DEF PollDelete
  <2> QED BY <1>3, <2>1, <2>2 DEF PollDelete, PollUnchanged, Smoothly, SoftTypeOK
<1>4. ASSUME NEW m \in poll.todo, PollRow(m)
      PROVE  SoftTypeOK'
  <2>1. m \in Members /\ poll.ws \in Rows /\ poll.todo \ {m} \in SUBSET Members
    BY <1>0
  <2>2. poll' \in Polls
    BY <1>0, <1>4, <2>1, PollLeftKeeps DEF PollRow
  <2>3. umi' \in [Members -> [Rows -> {"absent", "live", "marked"}]]
    BY <1>4, <2>1, RowKeeps
       DEF PollRow, markUMIEntriesSoftDeleted, clearUMIEntriesSoftDeleted,
           removeUMIEntryForWorkspace, SoftTypeOK
  <2>4. mishaps' \in 0..MaxMishaps
    BY <1>4 DEF PollRow, Smoothly, Mishap, SoftTypeOK
  <2> QED BY <1>4, <2>2, <2>3, <2>4 DEF PollRow, PollUnchanged, SoftTypeOK
<1>5. CASE PollFails
  <2>1. poll' \in Polls
    BY <1>0, <1>5, PollLeftKeeps DEF PollFails
  <2>2. mishaps' \in 0..MaxMishaps
    BY <1>5 DEF PollFails, Mishap, SoftTypeOK
  <2> QED BY <1>5, <2>1, <2>2 DEF PollFails, PollUnchanged, SoftTypeOK
<1> QED BY <1>1, <1>2, <1>3, <1>4, <1>5 DEF PollStep

LEMMA BootAndHealKeepTypes ==
    ASSUME SoftTypeOK, BootStep \/ HealStep
    PROVE  SoftTypeOK'
<1> USE RowNames
<1>0. /\ umi \in [Members -> [Rows -> {"absent", "live", "marked"}]]
      /\ mishaps \in 0..MaxMishaps /\ members \subseteq Members /\ home \in BOOLEAN
      /\ kids \in [Workspaces -> Requests \cup {"gone"}]
      /\ boot \in [at : {"idle", "home", "member", "child", "index"}, got : SUBSET Rows]
      /\ heal \in [at : {"idle", "ensure", "index"}, who : Members,
                    copy : [Rows -> {"absent", "live", "marked"}]]
  BY DEF SoftTypeOK
<1>1. CASE BootRead
  BY <1>1 DEF BootRead, BootUnchanged, Smoothly, SoftTypeOK
<1>2. CASE BootHome
  <2>1. mishaps' \in 0..MaxMishaps
    BY <1>0, <1>2 DEF BootHome, Smoothly, Mishap
  <2>2. /\ boot' \in [at : {"idle", "home", "member", "child", "index"}, got : SUBSET Rows]
        /\ home' \in BOOLEAN
    <3>1. CASE boot' = [boot EXCEPT !.at = "member"] /\ home' = TRUE
      BY <1>0, <3>1
    <3>2. CASE boot' = NoBoot /\ home' = home
      BY <1>0, <3>2 DEF NoBoot
    <3> QED BY <1>2, <3>1, <3>2 DEF BootHome
  <2> QED BY <1>2, <2>1, <2>2 DEF BootHome, BootUnchanged, SoftTypeOK
<1>3. CASE BootMember
  <2>1. mishaps' \in 0..MaxMishaps
    BY <1>0, <1>3 DEF BootMember, Smoothly, Mishap
  <2>2. /\ boot' \in [at : {"idle", "home", "member", "child", "index"}, got : SUBSET Rows]
        /\ members' \subseteq Members
    BY <1>0, <1>3 DEF BootMember
  <2> QED BY <1>3, <2>1, <2>2 DEF BootMember, BootUnchanged, SoftTypeOK
<1>4. CASE BootChild
  <2>1. mishaps' \in 0..MaxMishaps
    BY <1>0, <1>4 DEF BootChild, Smoothly, Mishap
  <2>2. boot' \in [at : {"idle", "home", "member", "child", "index"}, got : SUBSET Rows]
    BY <1>0, <1>4 DEF BootChild
  <2>3. kids' \in [Workspaces -> Requests \cup {"gone"}]
    BY <1>0, <1>4 DEF BootChild, Requests
  <2> QED BY <1>4, <2>1, <2>2, <2>3 DEF BootChild, BootUnchanged, SoftTypeOK
<1>5. CASE BootIndex
  <2>1. mishaps' \in 0..MaxMishaps
    BY <1>0, <1>5 DEF BootIndex, Smoothly, Mishap
  <2>2. umi' \in [Members -> [Rows -> {"absent", "live", "marked"}]]
    BY <1>0, <1>5 DEF BootIndex
  <2>3. boot' = NoBoot /\ fresh' \subseteq fresh
    BY <1>5 DEF BootIndex
  <2> QED BY <1>5, <2>1, <2>2, <2>3 DEF BootIndex, BootUnchanged, NoBoot, SoftTypeOK
<1>6. ASSUME NEW m \in Members, HealRead(m)
      PROVE  SoftTypeOK'
  <2>1. heal' \in [at : {"idle", "ensure", "index"}, who : Members,
                   copy : [Rows -> {"absent", "live", "marked"}]]
    BY <1>0, <1>6 DEF HealRead
  <2> QED BY <1>6, <2>1 DEF HealRead, HealUnchanged, Smoothly, SoftTypeOK
<1>7. CASE HealEnsure
  <2>1. mishaps' \in 0..MaxMishaps
    BY <1>0, <1>7 DEF HealEnsure, Smoothly, Mishap
  <2>2. /\ heal' \in [at : {"idle", "ensure", "index"}, who : Members,
                      copy : [Rows -> {"absent", "live", "marked"}]]
        /\ members' \subseteq Members
    BY <1>0, <1>7 DEF HealEnsure, NoHeal
  <2> QED BY <1>7, <2>1, <2>2 DEF HealEnsure, HealUnchanged, SoftTypeOK
<1>8. CASE HealIndex
  <2>1. umi' \in [Members -> [Rows -> {"absent", "live", "marked"}]]
    BY <1>0, <1>8 DEF HealIndex
  <2>2. heal' \in [at : {"idle", "ensure", "index"}, who : Members,
                   copy : [Rows -> {"absent", "live", "marked"}]]
    BY <1>0, <1>8 DEF HealIndex, NoHeal
  <2> QED BY <1>8, <2>1, <2>2 DEF HealIndex, HealUnchanged, Smoothly, SoftTypeOK
<1> QED BY <1>1, <1>2, <1>3, <1>4, <1>5, <1>6, <1>7, <1>8 DEF BootStep, HealStep

LEMMA CallsKeepTypes ==
    ASSUME SoftTypeOK, Call \/ GraceEnds
    PROVE  SoftTypeOK'
<1> USE RowNames
<1>0. /\ org \in [exists : BOOLEAN, req : Requests] /\ user \in [exists : BOOLEAN, req : Requests]
      /\ kids \in [Workspaces -> Requests \cup {"gone"}] /\ calls \in 0..MaxCalls
  BY DEF SoftTypeOK
<1>1. CASE Call
  <2>1. /\ org' \in [exists : BOOLEAN, req : Requests] /\ user' \in [exists : BOOLEAN, req : Requests]
        /\ kids' \in [Workspaces -> Requests \cup {"gone"}]
        /\ fresh' \subseteq fresh
    BY <1>0, <1>1 DEF Call, deleteOrg, undeleteOrg, deleteSelfUser, undeleteSelfUser,
                      deleteWorkspace, undeleteWorkspace, Requests
  <2>2. calls' \in 0..MaxCalls
    BY <1>0, <1>1 DEF Call
  <2> QED BY <1>1, <2>1, <2>2 DEF Call, CallsUnchanged, SoftTypeOK
<1>2. CASE GraceEnds
  <2>1. /\ org' \in [exists : BOOLEAN, req : Requests] /\ user' \in [exists : BOOLEAN, req : Requests]
        /\ kids' \in [Workspaces -> Requests \cup {"gone"}]
    BY <1>0, <1>2 DEF GraceEnds, Requests
  <2>2. ranOut' \subseteq {"org", "user"} \cup Workspaces
    BY <1>2 DEF GraceEnds, SoftTypeOK
  <2> QED BY <1>2, <2>1, <2>2 DEF GraceEnds, CallsUnchanged, SoftTypeOK
<1> QED BY <1>1, <1>2

-----------------------------------------------------------------------------
LEMMA OrgKeepsGrounds ==
    ASSUME IInv, OrgStep \/ OrgFails
    PROVE  RequestGrounds' /\ PassGrounds' /\ CopyIsCurrent' /\ NothingLostInGrace'
<1> USE RowNames, Rests DEF IInv, RequestGrounds, PassGrounds, CopyIsCurrent, OrgGrounds
<1>0. /\ orgPass \in Passes(Members \X Rows) /\ members \subseteq Members
      /\ org \in [exists : BOOLEAN, req : Requests]
      /\ kids \in [Workspaces -> Requests \cup {"gone"}]
  BY DEF SoftTypeOK
<1>1. CASE OrgRead
  BY <1>0, <1>1 DEF OrgRead, OrgUnchanged, NoPass, NothingLostInGrace, Requests
<1>2. CASE OrgCond
  <2>1. org' = org /\ "org" \notin fresh'
    BY <1>0, <1>2 DEF OrgCond, OrgStatus, WriteBack, Passes, Requests
  <2>2. /\ orgPass'.req = "expired" => orgPass.req = "expired"
        /\ orgPass'.at \in {"idle", "list"}
    BY <1>0, <1>2 DEF OrgCond, Passes
  <2> QED BY <1>2, <2>1, <2>2 DEF OrgCond, OrgUnchanged, NothingLostInGrace
<1>3. CASE OrgList
  <2> DEFINE there == {w \in Workspaces : kids[w] # "gone"}
  <2>1. members \X ({"org"} \cup there) \in SUBSET (Members \X Rows)
    BY <1>0
  <2>2. /\ orgPass'.req = orgPass.req
        /\ orgPass'.at \in {"kids", "members", "home", "object"} => orgPass.req = "expired"
    <3>1. CASE orgPass.req = "expired"
      BY <1>0, <1>3, <3>1 DEF OrgList, Passes
    <3>2. CASE orgPass.req # "expired"
      BY <1>3, <2>1, <3>2, RowsLeftKeeps DEF OrgList
    <3> QED BY <3>1, <3>2
  <2> QED BY <1>3, <2>2 DEF OrgList, OrgUnchanged, NothingLostInGrace
<1>4. CASE OrgDeleteKid
  <2>1. orgPass.req = "expired" /\ orgPass'.req = orgPass.req
    BY <1>0, <1>4 DEF OrgDeleteKid, Passes
  <2>2. \A w \in Workspaces : kids'[w] = "expired" => kids[w] = "expired"
    BY <1>0, <1>4 DEF OrgDeleteKid
  <2>3. RequestGrounds'
    BY <1>4, <2>1, <2>2 DEF OrgDeleteKid, OrgUnchanged
  <2>4. PassGrounds' /\ CopyIsCurrent'
    BY <1>4, <2>1 DEF OrgDeleteKid, OrgUnchanged
  <2>5. NothingLostInGrace'
    BY <1>4, <2>1 DEF OrgDeleteKid, OrgUnchanged, NothingLostInGrace
  <2> QED BY <2>3, <2>4, <2>5
<1>5. CASE OrgDeleteMember
  BY <1>0, <1>5 DEF OrgDeleteMember, OrgUnchanged, NothingLostInGrace, Passes
<1>6. CASE OrgDeleteHome
  BY <1>0, <1>6 DEF OrgDeleteHome, OrgRowsLeft, OrgUnchanged, NothingLostInGrace, Passes
<1>7. ASSUME NEW p \in orgPass.todo, OrgRow(p[1], p[2])
      PROVE  RequestGrounds' /\ PassGrounds' /\ CopyIsCurrent' /\ NothingLostInGrace'
  <2>1. orgPass' = OrgRowsLeft(orgPass.todo \ {<<p[1], p[2]>>})
    BY <1>7 DEF OrgRow
  <2>2. orgPass.todo \ {<<p[1], p[2]>>} \in SUBSET (Members \X Rows)
    BY <1>0 DEF Passes
  <2>3. /\ orgPass'.req = orgPass.req
        /\ orgPass'.at \in {"rows", "idle", "cond", "object"}
        /\ orgPass'.at = "object" => orgPass.req = "expired"
    BY <2>1, <2>2, RowsLeftKeeps
  <2> QED BY <1>7, <2>3 DEF OrgRow, OrgUnchanged, NothingLostInGrace
<1>8. CASE OrgDeleteObject
  BY <1>0, <1>8 DEF OrgDeleteObject, OrgUnchanged, NothingLostInGrace, NoPass
<1>9. CASE OrgFails
  BY <1>0, <1>9 DEF OrgFails, OrgUnchanged, NothingLostInGrace, NoPass
<1> QED BY <1>1, <1>2, <1>3, <1>4, <1>5, <1>6, <1>7, <1>8, <1>9 DEF OrgStep

LEMMA UserKeepsGrounds ==
    ASSUME IInv, UserStep \/ UserFails
    PROVE  RequestGrounds' /\ PassGrounds' /\ CopyIsCurrent' /\ NothingLostInGrace'
<1> USE RowNames, Rests DEF IInv, RequestGrounds, PassGrounds, CopyIsCurrent, OrgGrounds
<1>0. /\ userPass \in Passes(OwnRows)
      /\ user \in [exists : BOOLEAN, req : Requests]
      /\ org \in [exists : BOOLEAN, req : Requests]
  BY DEF SoftTypeOK
<1>1. CASE UserRead
  BY <1>0, <1>1 DEF UserRead, UserUnchanged, NoPass, NothingLostInGrace, Requests
<1>2. CASE UserCond
  <2>1. user' = user \/ user' = WriteBack(user, userPass.req)
    BY <1>2 DEF UserCond, UserStatus
  <2>2. user'.exists = user.exists /\ (user'.req = "expired" => "user" \in ranOut)
    BY <1>0, <2>1 DEF WriteBack
  <2>3. /\ userPass'.req = "expired" => userPass.req = "expired"
        /\ userPass'.at \in {"fetch", "stamp", "await", "index", "object"} => userPass'.req = "expired"
    BY <1>0, <1>2 DEF UserCond, Passes, Requests
  <2>4. "org" \in fresh' => "org" \in fresh
    BY <1>2 DEF UserCond
  <2> QED BY <1>2, <2>2, <2>3, <2>4 DEF UserCond, UserUnchanged, NothingLostInGrace
<1>3. ASSUME NEW p \in userPass.todo, UserRow(p[2])
      PROVE  RequestGrounds' /\ PassGrounds' /\ CopyIsCurrent' /\ NothingLostInGrace'
  <2>1. /\ userPass'.req = "expired" => userPass.req = "expired"
        /\ userPass'.at \in {"rows", "cond", "idle"}
    BY <1>0, <1>3 DEF UserRow, Passes
  <2> QED BY <1>3, <2>1 DEF UserRow, UserUnchanged, NothingLostInGrace
<1>4. CASE UserFetchOrg
  BY <1>0, <1>4 DEF UserFetchOrg, UserUnchanged, NothingLostInGrace, Passes
<1>5. CASE UserStampOrg
  BY <1>0, <1>5 DEF UserStampOrg, UserUnchanged, NothingLostInGrace, Passes
<1>6. CASE UserAwait
  <2>1. user' = user \/ user' = WriteBack(user, userPass.req)
    BY <1>6 DEF UserAwait, UserStatus
  <2>2. user'.exists = user.exists /\ (user'.req = "expired" => "user" \in ranOut)
    BY <1>0, <2>1 DEF WriteBack
  <2> QED BY <1>6, <2>2 DEF UserAwait, UserUnchanged, NothingLostInGrace, NoPass
<1>7. CASE UserDeleteUMI
  BY <1>0, <1>7 DEF UserDeleteUMI, UserUnchanged, NothingLostInGrace, Passes
<1>8. CASE UserDeleteObject
  BY <1>0, <1>8 DEF UserDeleteObject, UserUnchanged, NothingLostInGrace, NoPass
<1>9. CASE UserFails
  BY <1>0, <1>9 DEF UserFails, UserUnchanged, NothingLostInGrace, NoPass
<1> QED BY <1>1, <1>2, <1>3, <1>4, <1>5, <1>6, <1>7, <1>8, <1>9 DEF UserStep

LEMMA PollKeepsGrounds ==
    ASSUME IInv, PollStep \/ PollFails
    PROVE  RequestGrounds' /\ PassGrounds' /\ CopyIsCurrent' /\ NothingLostInGrace'
<1> USE RowNames DEF IInv, RequestGrounds, PassGrounds, CopyIsCurrent, OrgGrounds
<1>0. /\ poll \in [at : {"idle", "next", "delete", "rows"}, req : Requests, ws : Workspaces,
                    todo : SUBSET Members, left : SUBSET Workspaces, listed : BOOLEAN,
                    who : SUBSET Members]
      /\ members \subseteq Members /\ kids \in [Workspaces -> Requests \cup {"gone"}]
  BY DEF SoftTypeOK
<1>1. CASE PollList
  <2>1. poll'.at # "delete" /\ poll'.req = "none"
    BY <1>1 DEF PollList, PollLeft, NoPoll
  <2> QED BY <1>1, <2>1 DEF PollList, PollUnchanged, NothingLostInGrace
<1>2. ASSUME NEW w \in poll.left, PollRead(w)
      PROVE  RequestGrounds' /\ PassGrounds' /\ CopyIsCurrent' /\ NothingLostInGrace'
  <2>1. /\ poll'.at = "delete" => poll'.req = "expired"
        /\ poll'.req = "expired" => poll'.ws \in ranOut
    BY <1>0, <1>2 DEF PollRead, PollLeft, NoPoll
  <2> QED BY <1>2, <2>1 DEF PollRead, PollUnchanged, NothingLostInGrace
<1>3. CASE PollDelete
  <2>1. /\ poll'.at # "delete"
        /\ poll'.req = "expired" => poll'.ws \in ranOut
    BY <1>0, <1>3, PollLeftKeeps DEF PollDelete
  <2>2. poll.ws \in ranOut
    BY <1>3 DEF PollDelete
  <2> QED BY <1>0, <1>3, <2>1, <2>2 DEF PollDelete, PollUnchanged, NothingLostInGrace
<1>4. ASSUME NEW m \in poll.todo, PollRow(m)
      PROVE  RequestGrounds' /\ PassGrounds' /\ CopyIsCurrent' /\ NothingLostInGrace'
  <2>1. /\ poll'.at # "delete"
        /\ poll'.req = "expired" => poll'.ws \in ranOut
    BY <1>0, <1>4, PollLeftKeeps DEF PollRow
  <2> QED BY <1>4, <2>1 DEF PollRow, PollUnchanged, NothingLostInGrace
<1>5. CASE PollFails
  <2>1. /\ poll'.at # "delete"
        /\ poll'.req = "expired" => poll'.ws \in ranOut
    BY <1>0, <1>5, PollLeftKeeps DEF PollFails, NoPoll
  <2> QED BY <1>5, <2>1 DEF PollFails, PollUnchanged, NothingLostInGrace
<1> QED BY <1>1, <1>2, <1>3, <1>4, <1>5 DEF PollStep

(* These two provision, they take nothing away.                            *)
LEMMA BootAndHealKeepGrounds ==
    ASSUME IInv, BootStep \/ HealStep
    PROVE  RequestGrounds' /\ PassGrounds' /\ CopyIsCurrent' /\ NothingLostInGrace'
<1> USE RowNames DEF IInv
<1>0. /\ kids \in [Workspaces -> Requests \cup {"gone"}] /\ members \subseteq Members
      /\ heal.who \in Members
  BY DEF SoftTypeOK
<1>1. UNCHANGED <<org, user, orgPass, userPass, poll, ranOut>> /\ fresh' \subseteq fresh
  BY DEF BootStep, BootRead, BootHome, BootMember, BootChild, BootIndex, BootUnchanged,
         HealStep, HealRead, HealEnsure, HealIndex, HealUnchanged
<1>2. /\ home => home'
      /\ members \subseteq members' /\ members' \subseteq Members
      /\ kids' = kids \/ kids' = [kids EXCEPT ![DefaultWs] = IF @ = "gone" THEN "none" ELSE @]
  BY <1>0
     DEF BootStep, BootRead, BootHome, BootMember, BootChild, BootIndex, BootUnchanged,
         HealStep, HealRead, HealEnsure, HealIndex, HealUnchanged
<1>3. /\ \A w \in Workspaces : kids'[w] = "gone" => kids[w] = "gone"
      /\ \A w \in Workspaces : kids'[w] = "expired" => kids[w] = "expired"
  BY <1>0, <1>2
<1>4. RequestGrounds'
  BY <1>1, <1>3 DEF RequestGrounds, OrgGrounds
<1>5. PassGrounds' /\ CopyIsCurrent'
  BY <1>1 DEF PassGrounds, CopyIsCurrent
<1>6. NothingLostInGrace'
  BY <1>1, <1>2, <1>3 DEF NothingLostInGrace
<1> QED BY <1>4, <1>5, <1>6

LEMMA CallsKeepGrounds ==
    ASSUME IInv, Call \/ GraceEnds
    PROVE  RequestGrounds' /\ PassGrounds' /\ CopyIsCurrent' /\ NothingLostInGrace'
<1> USE RowNames DEF IInv
<1>0. /\ kids \in [Workspaces -> Requests \cup {"gone"}]
      /\ org \in [exists : BOOLEAN, req : Requests] /\ user \in [exists : BOOLEAN, req : Requests]
  BY DEF SoftTypeOK
<1>1. UNCHANGED <<home, members, orgPass, userPass, poll>>
      /\ org'.exists = org.exists /\ user'.exists = user.exists
  BY <1>0 DEF Call, GraceEnds, CallsUnchanged, deleteOrg, undeleteOrg, deleteSelfUser,
              undeleteSelfUser, deleteWorkspace, undeleteWorkspace
<1>2. /\ ranOut \subseteq ranOut'
      /\ org'.req = "expired" => org.req = "expired" \/ "org" \in ranOut'
      /\ user'.req = "expired" => user.req = "expired" \/ "user" \in ranOut'
      /\ \A w \in Workspaces : kids'[w] = "expired" => kids[w] = "expired" \/ w \in ranOut'
      /\ \A w \in Workspaces : kids'[w] = "gone" => kids[w] = "gone"
      /\ "org" \in fresh' => "org" \in fresh /\ (org'.req = "none" <=> org.req = "none")
  BY <1>0 DEF Call, GraceEnds, CallsUnchanged, deleteOrg, undeleteOrg, deleteSelfUser,
              undeleteSelfUser, deleteWorkspace, undeleteWorkspace
<1>3. RequestGrounds'
  BY <1>1, <1>2 DEF RequestGrounds, OrgGrounds
<1>4. PassGrounds' /\ CopyIsCurrent'
  BY <1>1, <1>2 DEF PassGrounds, CopyIsCurrent
<1>5. NothingLostInGrace'
  BY <1>1, <1>2 DEF NothingLostInGrace
<1> QED BY <1>3, <1>4, <1>5

-----------------------------------------------------------------------------
LEMMA InitHolds == SoftInit => IInv
<1> SUFFICES ASSUME SoftInit PROVE IInv
  OBVIOUS
<1> USE RowNames, Rests DEF SoftInit
<1>1. /\ {org, user} \subseteq [exists : BOOLEAN, req : Requests]
      /\ home \in BOOLEAN /\ members \subseteq Members
      /\ kids \in [Workspaces -> Requests \cup {"gone"}]
      /\ elsewhere \in BOOLEAN /\ fresh \subseteq {"org", "fetched", "user"}
  BY DEF Requests
<1>2. umi \in [Members -> [Rows -> {"absent", "live", "marked"}]]
  BY DEF Provisioned, Invited
<1>3. /\ poll \in [at : {"idle", "next", "delete", "rows"}, req : Requests, ws : Workspaces,
                    todo : SUBSET Members, left : SUBSET Workspaces, listed : BOOLEAN,
                    who : SUBSET Members]
      /\ boot \in [at : {"idle", "home", "member", "child", "index"}, got : SUBSET Rows]
      /\ heal \in [at : {"idle", "ensure", "index"}, who : Members,
                    copy : [Rows -> {"absent", "live", "marked"}]]
  BY DEF NoPoll, NoBoot, NoHeal, Requests
<1>4. SoftTypeOK
  BY <1>1, <1>2, <1>3 DEF SoftTypeOK
<1>5. RequestGrounds /\ PassGrounds /\ CopyIsCurrent /\ NothingLostInGrace
  BY DEF RequestGrounds, PassGrounds, CopyIsCurrent, NothingLostInGrace, NoPoll
<1> QED BY <1>4, <1>5 DEF IInv

LEMMA StepKeeps == IInv /\ [SoftNext]_softVars => IInv'
<1> SUFFICES ASSUME IInv, [SoftNext]_softVars PROVE IInv'
  OBVIOUS
<1>1. SoftTypeOK
  BY DEF IInv
<1>2. CASE OrgStep \/ OrgFails
  BY <1>1, <1>2, OrgKeepsTypes, OrgKeepsGrounds DEF IInv
<1>3. CASE UserStep \/ UserFails
  BY <1>1, <1>3, UserKeepsTypes, UserKeepsGrounds DEF IInv
<1>4. CASE PollStep \/ PollFails
  BY <1>1, <1>4, PollKeepsTypes, PollKeepsGrounds DEF IInv
<1>5. CASE BootStep \/ HealStep
  BY <1>1, <1>5, BootAndHealKeepTypes, BootAndHealKeepGrounds DEF IInv
<1>6. CASE Call \/ GraceEnds
  BY <1>1, <1>6, CallsKeepTypes, CallsKeepGrounds DEF IInv
<1>7. CASE UNCHANGED softVars
  BY <1>7 DEF softVars, tenantVars, IInv, SoftTypeOK, RequestGrounds, PassGrounds, CopyIsCurrent,
              OrgGrounds, NothingLostInGrace
<1> QED BY <1>2, <1>3, <1>4, <1>5, <1>6, <1>7 DEF SoftNext

LEMMA Inductive == SoftSpec => []IInv
BY InitHolds, StepKeeps, PTL DEF SoftSpec

(* The passes of the reconcilers hold what they may hold.                  *)
THEOREM SoftTypeCorrect == SoftSpec => []SoftTypeOK
<1>1. IInv => SoftTypeOK
  BY DEF IInv
<1> QED BY <1>1, Inductive, PTL

(* However passes, withdrawals and failures interleave, what a cascade     *)
(* (reconcileOrgCascade, reconcileUserCascade, handleWorkspaceCascade)     *)
(* has removed had a request that outlived its grace period.               *)
THEOREM NothingLost == SoftSpec => []NothingLostInGrace
<1>1. IInv => NothingLostInGrace
  BY DEF IInv
<1> QED BY <1>1, Inductive, PTL

(* A status update that carries a withdrawn request conflicts, so only a   *)
(* call or the cascade of the user puts a request on an organization.      *)
THEOREM UndeletesHold == SoftSpec => UndeleteHolds
<1> DEFINE A == org.req = "none" /\ org'.req # "none" =>
                   calls' # calls \/ (userPass.at = "stamp" /\ org'.req = "expired")
<1>1. ASSUME IInv, [SoftNext]_softVars, org.req = "none", org'.req # "none"
      PROVE  calls' # calls \/ (userPass.at = "stamp" /\ org'.req = "expired")
  <2>0. /\ org \in [exists : BOOLEAN, req : Requests] /\ calls \in Nat
        /\ orgPass \in Passes(Members \X Rows) /\ userPass \in Passes(OwnRows)
    BY <1>1, RowNames DEF IInv, SoftTypeOK
  <2>1. CASE OrgStep \/ OrgFails
    <3>1. org'.req = org.req
      BY <1>1, <2>0, <2>1
         DEF IInv, CopyIsCurrent, OrgStep, OrgFails, OrgRead, OrgCond, OrgStatus, WriteBack,
             OrgList, OrgDeleteKid, OrgDeleteMember, OrgDeleteHome, OrgRow, OrgDeleteObject
    <3> QED BY <1>1, <3>1
  <2>2. CASE UserStep \/ UserFails
    <3>1. org' = org \/ UserStampOrg
      BY <2>2
         DEF UserStep, UserFails, UserRead, UserCond, UserRow, UserFetchOrg, UserAwait,
             UserDeleteUMI, UserDeleteObject
    <3>2. CASE UserStampOrg
      BY <1>1, <2>0, <3>2 DEF UserStampOrg, IInv, PassGrounds
    <3> QED BY <1>1, <3>1, <3>2
  <2>3. CASE PollStep \/ PollFails \/ BootStep \/ HealStep
    <3>1. org' = org
      BY <2>3
         DEF PollStep, PollFails, PollList, PollRead, PollDelete, PollRow, PollUnchanged,
             BootStep, BootRead, BootHome, BootMember, BootChild, BootIndex, BootUnchanged,
             HealStep, HealRead, HealEnsure, HealIndex, HealUnchanged
    <3> QED BY <1>1, <3>1
  <2>4. CASE Call
    BY <2>0, <2>4 DEF Call
  <2>5. CASE GraceEnds
    BY <1>1, <2>0, <2>5 DEF GraceEnds
  <2>6. CASE UNCHANGED softVars
    BY <1>1, <2>6 DEF softVars, tenantVars
  <2> QED BY <1>1, <2>1, <2>2, <2>3, <2>4, <2>5, <2>6 DEF SoftNext
<1>2. IInv /\ [SoftNext]_softVars => [A]_softVars
  BY <1>1
<1> QED BY <1>2, Inductive, PTL DEF SoftSpec, UndeleteHolds
=============================================================================
