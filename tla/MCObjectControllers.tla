------------------------- MODULE MCObjectControllers -------------------------
(***************************************************************************)
(* The hub's controllers that share an object with other writers: those of *)
(* an edge's registration and those of a tenant's deletion.  They meet in  *)
(* no object, so one of the two groups moves (focus) and the other rests.  *)
(*                                                                         *)
(* Passes of the deletion's controllers overlap without limit in           *)
(* SoftDelete, and SoftDeleteProofs is about all of them.  Here the        *)
(* workers start their passes in turn, and a pass of the user branch or of *)
(* the bootstrap controller may be under way beside one of the             *)
(* organization branch: those are the ones that meet in most variables.    *)
(* One request is waiting at first.                                        *)
(***************************************************************************)
EXTENDS EdgeRegistration, SoftDelete
CONSTANTS k1, k2, u1, w1

TwoTokens == {k1, k2}
OneUser == {u1}
OneWorkspace == {w1}

VARIABLES focus, turn

Registration(A) == focus = "registration" /\ A /\ UNCHANGED <<focus, softVars, turn>>
Deletion(A) == focus = "deletion" /\ A /\ UNCHANGED <<focus, vars>>
mcVars == <<focus, vars, softVars, turn>>

-----------------------------------------------------------------------------
At == [org |-> orgPass.at, user |-> userPass.at, poll |-> poll.at,
       boot |-> boot.at, heal |-> heal.at]
Follows == [org |-> "user", user |-> "poll", poll |-> "boot", boot |-> "heal", heal |-> "org"]
Busy == {w \in DOMAIN At : At[w] # "idle"}

InTurn(A) ==
    LET begun == Busy' \ Busy IN
    /\ A
    /\ Cardinality(Busy') > 1 => Busy' \in {{"org", "user"}, {"org", "boot"}}
    /\ begun \subseteq {turn}
    /\ turn' = IF begun = {} THEN turn ELSE Follows[turn]

Startable ==
    [org |-> org.exists, user |-> user.exists,
     poll |-> home /\ \E w \in Workspaces : kids[w] # "gone",
     boot |-> user.exists /\ org.exists /\ org.req = "none",
     heal |-> /\ org.exists /\ org.req = "none"
              /\ \E m \in Members, w \in Workspaces : umi[m]["org"] = "absent" /\ umi[m][w] = "live"]

(* A worker that is busy or has nothing to do misses its turn.             *)
Skip ==
    /\ turn \in Busy \/ ~Startable[turn]
    /\ \E w \in DOMAIN At \ Busy : Startable[w]
    /\ turn' = Follows[turn] /\ UNCHANGED softVars

OneRequest ==
    /\ Cardinality({r \in {"org", "user", "ws"} :
            CASE r = "org" -> org.req # "none"
              [] r = "user" -> user.req # "none"
              [] r = "ws" -> kids[w1] # "none"}) = 1
    /\ elsewhere => user.req # "none"
    /\ umi[u1] = Invited => org.req # "none"

(* A token is on offer and nothing happens.                                *)
RegistrationRests ==
    /\ edge = [NewEdge EXCEPT !.joinToken = k1]
    /\ copy = [a \in Updaters |-> NewEdge] /\ rvCurrent = {}
    /\ issued = {k1} /\ saSecret = FALSE
    /\ token = "idle" /\ other = FALSE /\ opened = 0
    /\ clear = [t \in Conns |-> FALSE]
    /\ marking = [t \in Conns |-> "none"] /\ attempts = [t \in Conns |-> 0]
    /\ crashes = 0 /\ agentConn = NoConn /\ joinFlag = NoToken /\ kubeconfig = "none"

DeletionRests ==
    /\ SoftInit /\ ~elsewhere
    /\ org.req = "none" /\ user.req = "none"
    /\ kids = [w \in Workspaces |-> "none"] /\ umi = [m \in Members |-> Provisioned]

MCInit ==
    /\ turn = "org"
    /\ \/ focus = "registration" /\ Init /\ DeletionRests
       \/ focus = "deletion" /\ RegistrationRests /\ SoftInit /\ OneRequest

MCNext == Registration(Next) \/ Deletion(InTurn(SoftNext)) \/ Deletion(Skip)

(* The fairness of the two specifications; at most one pass beside the     *)
(* organization's is under way, so one conjunct serves the other workers.  *)
MCFairness ==
    /\ WF_mcVars(Registration(TokenStep) \/ Deletion(InTurn(OrgStep)))
    /\ WF_mcVars(Deletion(InTurn(UserStep \/ PollStep \/ BootStep \/ HealStep)))
    /\ WF_mcVars(Deletion(Skip)) /\ WF_mcVars(Deletion(InTurn(GraceEnds)))
    /\ SF_mcVars(\/ Registration(TokenCtl \in rvCurrent /\ TokenClearAnnotation)
                 \/ Deletion(InTurn("fetched" \in fresh /\ UserStampOrg)))
    /\ SF_mcVars(Registration(TokenCtl \in rvCurrent /\ TokenIssue))

MCSpec == MCInit /\ [][MCNext]_mcVars /\ MCFairness
==============================================================================
