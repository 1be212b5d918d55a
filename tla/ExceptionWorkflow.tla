-------------------------- MODULE ExceptionWorkflow --------------------------
(***************************************************************************)
(* The four-eyes workflow of src/exception-service.mjs over the tables     *)
(* recon_exceptions, exception_resolution_proposals, ..._decisions,        *)
(* exception_investigation_items, exception_ai_adoptions and audit_events. *)
(*                                                                         *)
(* Every handler locks the exception row first (withLockedException) and   *)
(* publishes all its writes in one COMMIT, so a handler is one action.     *)
(* What it reads beside that row is not locked.  Of these reads, the rows  *)
(* of runs and the exceptions of a replacement run only ever change in one *)
(* direction; a role that changes between the request's authorization and  *)
(* the handler's own check of it is not modelled.                          *)
(***************************************************************************)
EXTENDS Integers, FiniteSets, SequencesExt

CONSTANTS
  Users,           \* members of the tenant
  CanHold,         \* the roles a member may be given over time
  Runs, Exceptions, RunOf, PeriodOf, NoRun, Unresolved,  \* as in ResolutionLedger
  NoUser,          \* SQL NULL in assignee_id and resolved_by
  Steps,           \* investigation steps the AI provider may propose
  ShortSteps,      \* of these, the ones of a single character
  Replies,         \* nextSteps arrays that parseSuggestion accepts
  MaxVersion,      \* bound: mutations of one exception
  MaxItems,        \* bound: checklist items of one exception before a manual one is refused
  MaxSuggestions   \* bound: suggestions stored for one exception

Roles == {"admin", "operator", "reviewer", "auditor"}
Statuses == {"open", "investigating", "pending_review", "resolved"}
Verdicts == {"approved", "rejected"}
ItemStatuses == {"todo", "done", "not_applicable"}

ASSUME WorkflowAssumption ==
  /\ RunOf \in [Exceptions -> Runs]
  /\ NoRun \notin Runs
  /\ Unresolved \notin Runs \cup {NoRun}
  /\ CanHold \in [Users -> (SUBSET Roles) \ {{}}]
  /\ NoUser \notin Users
  /\ Replies \subseteq Seq(Steps)
  /\ MaxVersion \in Nat /\ MaxItems \in Nat /\ MaxSuggestions \in Nat

VARIABLES
  role,         \* tenant_members.role
  runStatus,    \* recon_runs.status
  status,       \* recon_exceptions.status
  assignee,     \* recon_exceptions.assignee_id
  resolvedBy,   \* recon_exceptions.resolved_by
  version,      \* recon_exceptions.workflow_version
  proposals,    \* proposals[e][n]: the proposal of exception e with proposal_version n
  decisions,    \* rows of exception_resolution_decisions
  items,        \* rows of exception_investigation_items, per exception
  suggestions,  \* the nextSteps of the suggestions in audit_events, per exception
  adoptions,    \* rows of exception_ai_adoptions, per exception
  trail         \* the other rows of audit_events, per exception

runVars == <<role, runStatus>>
rowVars == <<status, assignee, resolvedBy>>
reviewVars == <<proposals, decisions>>
checklistVars == <<items, adoptions>>
vars == <<runVars, rowVars, version, reviewVars, checklistVars, suggestions, trail>>

Proposal == [by : Users, replacement : Runs \cup {NoRun}]
Decision == [exc : Exceptions, proposal : Nat, verdict : Verdicts, by : Users]
\* suggestion 0 is no suggestion: a manual item, told from others by the version that added it
Item == [id : Nat \cup Steps, suggestion : Nat, required : BOOLEAN, status : ItemStatuses]
Adoption == [suggestion : Nat, decision : {"accepted", "partially_accepted", "rejected"},
             steps : SUBSET Steps]
Event == [action : {"claimed", "released", "note_added", "submitted", "approved", "rejected",
                    "ai_adoption_recorded", "item_added", "item_updated"},
          actor : Users, assignee : Users \cup {NoUser}]

TypeOK ==
  /\ role \in [Users -> Roles]
  /\ runStatus \in [Runs -> {"absent", "completed", "failed"}]
  /\ status \in [Exceptions -> Statuses]
  /\ assignee \in [Exceptions -> Users \cup {NoUser}]
  /\ resolvedBy \in [Exceptions -> Users \cup {NoUser}]
  /\ version \in [Exceptions -> Nat]
  /\ proposals \in [Exceptions -> Seq(Proposal)]
  /\ decisions \in SUBSET Decision
  /\ items \in [Exceptions -> SUBSET Item]
  /\ suggestions \in [Exceptions -> Seq(Replies)]
  /\ adoptions \in [Exceptions -> SUBSET Adoption]
  /\ trail \in [Exceptions -> Seq(Event)]

Init ==
  /\ role \in [Users -> Roles] /\ \A u \in Users : role[u] \in CanHold[u]
  /\ runStatus = [r \in Runs |-> "absent"]
  /\ status = [e \in Exceptions |-> "open"]
  /\ assignee = [e \in Exceptions |-> NoUser]
  /\ resolvedBy = [e \in Exceptions |-> NoUser]
  /\ version = [e \in Exceptions |-> 0]
  /\ proposals = [e \in Exceptions |-> <<>>]
  /\ decisions = {}
  /\ items = [e \in Exceptions |-> {}]
  /\ suggestions = [e \in Exceptions |-> <<>>]
  /\ adoptions = [e \in Exceptions |-> {}]
  /\ trail = [e \in Exceptions |-> <<>>]

-----------------------------------------------------------------------------
(* Runs and membership, which the workflow only reads.                     *)

CompleteRun(r) ==
  /\ runStatus[r] = "absent"
  /\ runStatus' = [runStatus EXCEPT ![r] = "completed"]
  /\ UNCHANGED <<role, rowVars, version, reviewVars, checklistVars, suggestions, trail>>

FailRun(r) ==
  /\ runStatus[r] = "absent"
  /\ runStatus' = [runStatus EXCEPT ![r] = "failed"]
  /\ UNCHANGED <<role, rowVars, version, reviewVars, checklistVars, suggestions, trail>>

(* A member keeps the exceptions assigned to it when its role changes.     *)
ChangeRole(u, x) ==
  /\ x \in CanHold[u]
  /\ role' = [role EXCEPT ![u] = x]
  /\ UNCHANGED <<runStatus, rowVars, version, reviewVars, checklistVars, suggestions, trail>>

-----------------------------------------------------------------------------
(* What the handlers share.                                                *)

Exists(e) == runStatus[RunOf[e]] = "completed"

(* withLockedException: the row exists and the caller knows its version.   *)
LockedException(e, expected) ==
  /\ Exists(e)
  /\ version[e] = expected
  /\ expected < MaxVersion

(* Mistake: the audit row of an assignment names the actor as the owner.   *)
RecordsActor(e, action, u, a) ==
  /\ version' = [version EXCEPT ![e] = @ + 1]
  /\ trail' = [trail EXCEPT ![e] = Append(@, [action |-> action, actor |-> u, assignee |-> u])]

(* Mistake: the version does not move.                                     *)
RecordsUnversioned(e, action, u, a) ==
  /\ UNCHANGED version
  /\ trail' = [trail EXCEPT ![e] = Append(@, [action |-> action, actor |-> u, assignee |-> a])]

(* The one increment of workflow_version and the one audit row of a        *)
(* mutation.                                                               *)
Records(e, action, u, a) ==
  /\ version' = [version EXCEPT ![e] = @ + 1]
  /\ trail' = [trail EXCEPT ![e] = Append(@, [action |-> action, actor |-> u, assignee |-> a])]

(* Mistake: the owner may go on while the proposal is under review.        *)
OwnerHolds(e, u) == role[u] = "operator" /\ assignee[e] = u

OwnerInvestigates(e, u) ==
  role[u] = "operator" /\ status[e] = "investigating" /\ assignee[e] = u

Clean(r) == \A e \in Exceptions : RunOf[e] = r => status[e] = "resolved"

(* Mistake: a replacement run that has failed will do.                     *)
AnyEndedReplacement(e, r) ==
  runStatus[r] # "absent" /\ r # RunOf[e] /\ PeriodOf[r] = PeriodOf[RunOf[e]] /\ Clean(r)

ValidReplacement(e, r) ==
  /\ runStatus[r] = "completed"
  /\ r # RunOf[e]
  /\ PeriodOf[r] = PeriodOf[RunOf[e]]
  /\ Clean(r)

OpenRequiredItems(e) == {i \in items[e] : i.required /\ i.status = "todo"}

Undecided(e) ==
  {n \in DOMAIN proposals[e] : ~\E d \in decisions : d.exc = e /\ d.proposal = n}

-----------------------------------------------------------------------------
(* Ownership.                                                              *)

(* An operator claims for itself, an admin assigns any operator.           *)
MayAssign(u, a) == (role[u] = "admin" \/ (role[u] = "operator" /\ a = u)) /\ role[a] = "operator"

(* Mistake: a claim takes the exception from its owner.                    *)
ClaimableFromOwner(a, e) == status[e] \notin {"resolved", "pending_review"}

Claimable(a, e) == status[e] \notin {"resolved", "pending_review"} /\ assignee[e] \in {NoUser, a}

(* Claiming what one already investigates is answered as a replay and      *)
(* changes nothing.                                                        *)
ClaimException(u, a, e, expected) ==
  /\ LockedException(e, expected)
  /\ MayAssign(u, a)
  /\ Claimable(a, e)
  /\ ~(assignee[e] = a /\ status[e] = "investigating")
  /\ assignee' = [assignee EXCEPT ![e] = a]
  /\ status' = [status EXCEPT ![e] = "investigating"]
  /\ Records(e, "claimed", u, a)
  /\ UNCHANGED <<runVars, resolvedBy, reviewVars, checklistVars, suggestions>>

ReleaseException(u, e, expected) ==
  /\ LockedException(e, expected)
  /\ OwnerInvestigates(e, u)
  /\ assignee' = [assignee EXCEPT ![e] = NoUser]
  /\ status' = [status EXCEPT ![e] = "open"]
  /\ Records(e, "released", u, NoUser)
  /\ UNCHANGED <<runVars, resolvedBy, reviewVars, checklistVars, suggestions>>

(* Mistake: an admin may still comment on a resolved exception.            *)
MayNoteEver(u, e) ==
  \/ role[u] = "operator" /\ assignee[e] = u
  \/ role[u] = "reviewer" /\ status[e] = "pending_review"
  \/ role[u] = "admin"

MayNote(u, e) ==
  /\ status[e] # "resolved"
  /\ \/ role[u] = "operator" /\ assignee[e] = u
     \/ role[u] = "reviewer" /\ status[e] = "pending_review"
     \/ role[u] = "admin"

(* The text of a note is not modelled; the row only shows in the trail.    *)
AddExceptionNote(u, e, expected) ==
  /\ LockedException(e, expected)
  /\ MayNote(u, e)
  /\ Records(e, "note_added", u, NoUser)
  /\ UNCHANGED <<runVars, rowVars, reviewVars, checklistVars, suggestions>>

-----------------------------------------------------------------------------
(* Proposal and decision.                                                  *)

(* Mistake: the checklist is not consulted.                                *)
SubmitUnfinished(u, e, r, expected) ==
  /\ LockedException(e, expected)
  /\ OwnerInvestigates(e, u)
  /\ r # NoRun => ValidReplacement(e, r)
  /\ proposals' = [proposals EXCEPT ![e] = Append(@, [by |-> u, replacement |-> r])]
  /\ status' = [status EXCEPT ![e] = "pending_review"]
  /\ Records(e, "submitted", u, NoUser)
  /\ UNCHANGED <<runVars, assignee, resolvedBy, decisions, checklistVars, suggestions>>

(* A proposal has financial impact exactly when it names a replacement.    *)
SubmitResolution(u, e, r, expected) ==
  /\ LockedException(e, expected)
  /\ OwnerInvestigates(e, u)
  /\ OpenRequiredItems(e) = {}
  /\ r # NoRun => ValidReplacement(e, r)
  /\ proposals' = [proposals EXCEPT ![e] = Append(@, [by |-> u, replacement |-> r])]
  /\ status' = [status EXCEPT ![e] = "pending_review"]
  /\ Records(e, "submitted", u, NoUser)
  /\ UNCHANGED <<runVars, assignee, resolvedBy, decisions, checklistVars, suggestions>>

(* Mistake: only the role of the reviewer is checked, not who submitted.   *)
DecidesOwnProposal(u, e, n, verdict) ==
  /\ role[u] \in {"reviewer", "admin"}
  /\ status[e] = "pending_review"
  /\ n \in Undecided(e)
  /\ \A m \in Undecided(e) : m <= n
  /\ decisions' = decisions \cup {[exc |-> e, proposal |-> n, verdict |-> verdict, by |-> u]}

(* What approval and rejection share: the latest undecided proposal, by    *)
(* another member, gets its decision.                                      *)
DecidesProposal(u, e, n, verdict) ==
  /\ role[u] \in {"reviewer", "admin"}
  /\ status[e] = "pending_review"
  /\ n \in Undecided(e)
  /\ \A m \in Undecided(e) : m <= n
  /\ proposals[e][n].by # u
  /\ decisions' = decisions \cup {[exc |-> e, proposal |-> n, verdict |-> verdict, by |-> u]}

(* The replacement run is validated again on approval, not on rejection.   *)
ApproveResolution(u, e, n, expected) ==
  /\ LockedException(e, expected)
  /\ DecidesProposal(u, e, n, "approved")
  /\ LET r == proposals[e][n].replacement IN r # NoRun => ValidReplacement(e, r)
  /\ status' = [status EXCEPT ![e] = "resolved"]
  /\ resolvedBy' = [resolvedBy EXCEPT ![e] = u]
  /\ Records(e, "approved", u, NoUser)
  /\ UNCHANGED <<runVars, assignee, proposals, checklistVars, suggestions>>

(* Mistake: the verdict is written where the status belongs.               *)
RejectAsStatus(u, e, n, expected) ==
  /\ LockedException(e, expected)
  /\ DecidesProposal(u, e, n, "rejected")
  /\ status' = [status EXCEPT ![e] = "rejected"]
  /\ resolvedBy' = [resolvedBy EXCEPT ![e] = NoUser]
  /\ Records(e, "rejected", u, NoUser)
  /\ UNCHANGED <<runVars, assignee, proposals, checklistVars, suggestions>>

RejectResolution(u, e, n, expected) ==
  /\ LockedException(e, expected)
  /\ DecidesProposal(u, e, n, "rejected")
  /\ status' = [status EXCEPT ![e] = "investigating"]
  /\ resolvedBy' = [resolvedBy EXCEPT ![e] = NoUser]
  /\ Records(e, "rejected", u, NoUser)
  /\ UNCHANGED <<runVars, assignee, proposals, checklistVars, suggestions>>

-----------------------------------------------------------------------------
(* AI suggestions and the checklist.                                       *)

(* The transaction that ends generateExceptionSuggestion.  It re-reads     *)
(* only the version: at that version the exception was not resolved when   *)
(* the evidence was read.  The version does not move.                      *)
StoreSuggestion(e, steps, expected) ==
  /\ Exists(e) /\ version[e] = expected
  /\ status[e] # "resolved"
  /\ Len(suggestions[e]) < MaxSuggestions
  /\ suggestions' = [suggestions EXCEPT ![e] = Append(@, steps)]
  /\ UNCHANGED <<runVars, rowVars, version, reviewVars, checklistVars, trail>>

(* normalizeSteps accepts an array without repetitions of steps that are   *)
(* at least two characters long.                                           *)
Normal(steps) == IsInjective(steps) /\ Range(steps) \cap ShortSteps = {}

(* The steps an adoption puts on the checklist.                            *)
ChosenSteps(decision, suggested) ==
  CASE decision = "accepted" -> {suggested}
    [] decision = "partially_accepted" -> (SUBSET suggested) \ {{}, suggested}
    [] decision = "rejected" -> {{}}

ItemsFrom(i, steps) ==
  {[id |-> s, suggestion |-> i, required |-> TRUE, status |-> "todo"] : s \in steps}

(* Mistake: a suggestion may be adopted twice.                             *)
AdoptAgain(u, e, i, decision, expected) ==
  /\ LockedException(e, expected)
  /\ OwnerInvestigates(e, u)
  /\ i \in DOMAIN suggestions[e]
  /\ Normal(suggestions[e][i])
  /\ \E steps \in ChosenSteps(decision, Range(suggestions[e][i])) :
       /\ adoptions' = [adoptions EXCEPT ![e] = @ \cup
                          {[suggestion |-> i, decision |-> decision, steps |-> steps]}]
       /\ items' = [items EXCEPT ![e] = @ \cup ItemsFrom(i, steps)]
  /\ Records(e, "ai_adoption_recorded", u, NoUser)
  /\ UNCHANGED <<runVars, rowVars, reviewVars, suggestions>>

AdoptAiSuggestion(u, e, i, decision, expected) ==
  /\ LockedException(e, expected)
  /\ OwnerInvestigates(e, u)
  /\ i \in DOMAIN suggestions[e]
  /\ Normal(suggestions[e][i])
  /\ ~\E a \in adoptions[e] : a.suggestion = i
  /\ \E steps \in ChosenSteps(decision, Range(suggestions[e][i])) :
       /\ adoptions' = [adoptions EXCEPT ![e] = @ \cup
                          {[suggestion |-> i, decision |-> decision, steps |-> steps]}]
       /\ items' = [items EXCEPT ![e] = @ \cup ItemsFrom(i, steps)]
  /\ Records(e, "ai_adoption_recorded", u, NoUser)
  /\ UNCHANGED <<runVars, rowVars, reviewVars, suggestions>>

AddInvestigationItem(u, e, required, expected) ==
  /\ LockedException(e, expected)
  /\ OwnerInvestigates(e, u)
  /\ Cardinality(items[e]) < MaxItems
  /\ items' = [items EXCEPT ![e] = @ \cup
                 {[id |-> expected, suggestion |-> 0, required |-> required, status |-> "todo"]}]
  /\ Records(e, "item_added", u, NoUser)
  /\ UNCHANGED <<runVars, rowVars, reviewVars, adoptions, suggestions>>

(* Any status may follow any other; 'done' and 'not_applicable' come with  *)
(* a written result, which is not modelled.                                *)
UpdateInvestigationItem(u, e, i, new, expected) ==
  /\ LockedException(e, expected)
  /\ OwnerInvestigates(e, u)
  /\ i \in items[e]
  /\ items' = [items EXCEPT ![e] = (@ \ {i}) \cup {[i EXCEPT !.status = new]}]
  /\ Records(e, "item_updated", u, NoUser)
  /\ UNCHANGED <<runVars, rowVars, reviewVars, adoptions, suggestions>>

-----------------------------------------------------------------------------

Work(u, e, expected) ==
  \/ \E a \in Users : ClaimException(u, a, e, expected)
  \/ ReleaseException(u, e, expected)
  \/ AddExceptionNote(u, e, expected)
  \/ \E r \in Runs \cup {NoRun} : SubmitResolution(u, e, r, expected)
  \/ \E i \in DOMAIN suggestions[e], d \in {"accepted", "partially_accepted", "rejected"} :
        AdoptAiSuggestion(u, e, i, d, expected)
  \/ \E required \in BOOLEAN : AddInvestigationItem(u, e, required, expected)
  \/ \E i \in items[e], new \in ItemStatuses : UpdateInvestigationItem(u, e, i, new, expected)

Review(u, e, expected) ==
  \E n \in DOMAIN proposals[e] :
    ApproveResolution(u, e, n, expected) \/ RejectResolution(u, e, n, expected)

Environment ==
  \/ \E r \in Runs : CompleteRun(r) \/ FailRun(r)
  \/ \E u \in Users, x \in Roles : ChangeRole(u, x)
  \/ \E e \in Exceptions, steps \in Replies, expected \in 0..MaxVersion :
        StoreSuggestion(e, steps, expected)

Next ==
  \/ Environment
  \/ \E u \in Users, e \in Exceptions, expected \in 0..MaxVersion :
        Work(u, e, expected) \/ Review(u, e, expected)

Spec == Init /\ [][Next]_vars

-----------------------------------------------------------------------------
(* Correctness.                                                            *)

(* An exception waits for review exactly while its newest proposal, and no *)
(* other, is undecided (status against the LEFT JOIN of decideResolution). *)
PendingHasOneUndecided ==
  \A e \in Exceptions :
    Undecided(e) = IF status[e] = "pending_review" THEN {Len(proposals[e])} ELSE {}

(* The decisions taken on exception e.                                     *)
DecidedBy(e, verdict) == {d \in decisions : d.exc = e /\ d.verdict = verdict}

(* An exception is resolved exactly when one approval exists: of its       *)
(* newest proposal, submitted by its owner, decided by resolved_by, who is *)
(* someone else.  Members may change role in between.                      *)
ResolvedByIndependentReview ==
  \A e \in Exceptions :
    IF status[e] = "resolved"
    THEN LET n == Len(proposals[e]) IN
         /\ DecidedBy(e, "approved") =
              {[exc |-> e, proposal |-> n, verdict |-> "approved", by |-> resolvedBy[e]]}
         /\ n \in DOMAIN proposals[e] /\ proposals[e][n].by = assignee[e]
         /\ resolvedBy[e] # assignee[e]
    ELSE DecidedBy(e, "approved") = {} /\ resolvedBy[e] = NoUser

(* Nothing is under review or resolved while a required checklist item is  *)
(* open, however the item came about and whenever it was reopened.         *)
ReviewedWorkIsFinished ==
  \A e \in Exceptions :
    status[e] \in {"pending_review", "resolved"} => OpenRequiredItems(e) = {}

(* The checklist carries, for every suggestion, exactly the steps its one  *)
(* adoption chose, all of them required: none is lost, repeated or taken   *)
(* from a suggestion that was rejected or never adopted.                   *)
ChecklistFollowsAdoptions ==
  \A e \in Exceptions : \A i \in DOMAIN suggestions[e] :
    LET adopted == {a \in adoptions[e] : a.suggestion = i}
        listed  == {t \in items[e] : t.suggestion = i} IN
    /\ Cardinality(adopted) <= 1
    /\ {t.id : t \in listed} = UNION {a.steps : a \in adopted}
    /\ Cardinality(listed) = Cardinality({t.id : t \in listed})
    /\ \A t \in listed : t.required

(* What one audit row says of the exception row it belongs to.             *)
Replay(row, event) ==
  CASE event.action = "claimed"   -> [row EXCEPT !.status = "investigating", !.assignee = event.assignee]
    [] event.action = "released"  -> [row EXCEPT !.status = "open", !.assignee = NoUser]
    [] event.action = "submitted" -> [row EXCEPT !.status = "pending_review"]
    [] event.action = "approved"  -> [row EXCEPT !.status = "resolved", !.resolvedBy = event.actor]
    [] event.action = "rejected"  -> [row EXCEPT !.status = "investigating"]
    [] OTHER -> row

(* The append-only audit trail alone explains the current row: replaying   *)
(* it gives status, owner and resolver, and its length is the version.     *)
TrailExplainsRow ==
  \A e \in Exceptions :
    /\ FoldLeft(Replay, [status |-> "open", assignee |-> NoUser, resolvedBy |-> NoUser], trail[e])
         = [status |-> status[e], assignee |-> assignee[e], resolvedBy |-> resolvedBy[e]]
    /\ Len(trail[e]) = version[e]

(* Everything a client may have shown its user before it sent a version.   *)
Visible(e) ==
  <<status[e], assignee[e], proposals[e], {d \in decisions : d.exc = e}, items[e], adoptions[e]>>

(* Whatever a handler changes of an exception also moves its version, by   *)
(* one: a request that carries the version it was shown overwrites nothing *)
(* it did not show.                                                        *)
ChangesMoveVersion ==
  [][\A e \in Exceptions :
       IF version'[e] = version[e] THEN Visible(e)' = Visible(e)
       ELSE version'[e] = version[e] + 1]_vars

(* An owner is never replaced by another in one step, and never changes    *)
(* while a proposal of theirs is under review or approved.                 *)
OwnershipIsHandedBack ==
  [][\A e \in Exceptions :
       assignee'[e] # assignee[e] =>
         /\ NoUser \in {assignee[e], assignee'[e]}
         /\ status[e] \in {"open", "investigating"} /\ status'[e] \in {"open", "investigating"}]_vars

(* A resolved exception is final, and proposals, decisions, suggestions    *)
(* and audit rows are only ever added.                                     *)
HistoryOnlyGrows ==
  [][/\ decisions \subseteq decisions'
     /\ \A e \in Exceptions :
          /\ IsPrefix(proposals[e], proposals'[e])
          /\ IsPrefix(suggestions[e], suggestions'[e])
          /\ IsPrefix(trail[e], trail'[e])
          /\ adoptions[e] \subseteq adoptions'[e]
          /\ status[e] = "resolved" =>
               Visible(e)' = Visible(e) /\ version'[e] = version[e]]_vars

-----------------------------------------------------------------------------
(* What the close sees of the workflow.                                    *)

(* The replacement named by the approved proposal, if there is one.        *)
Outcome(e) ==
  IF \E d \in decisions : d.exc = e /\ d.verdict = "approved"
  THEN proposals[e][(CHOOSE d \in decisions : d.exc = e /\ d.verdict = "approved").proposal].replacement
  ELSE Unresolved

Ledger == INSTANCE ResolutionLedger WITH resolution <- [e \in Exceptions |-> Outcome(e)]

(* The workflow implements the ledger the period close is built on.        *)
ImplementsLedger == Ledger!LedgerSpec
===============================================================================
