------------------------ MODULE ExceptionWorkflowProofs ------------------------
(***************************************************************************)
(* Proofs about ExceptionWorkflow, for any members, runs, exceptions and   *)
(* suggestions, and for any bounds.                                        *)
(***************************************************************************)
EXTENDS ExceptionWorkflow, FoldLemmas

-----------------------------------------------------------------------------
(* Type correctness, one lemma per kind of step.                           *)

(* A mutation keeps versions numbers and adds a well-formed audit row.     *)
LEMMA RecordsTyped ==
  ASSUME TypeOK, NEW e \in Exceptions, NEW action, NEW u \in Users, NEW a \in Users \cup {NoUser},
         action \in {"claimed", "released", "note_added", "submitted", "approved", "rejected",
                     "ai_adoption_recorded", "item_added", "item_updated"},
         Records(e, action, u, a)
  PROVE  version' \in [Exceptions -> Nat] /\ trail' \in [Exceptions -> Seq(Event)]
<1>1. [action |-> action, actor |-> u, assignee |-> a] \in Event
  BY DEF Event
<1> QED
  BY <1>1 DEF TypeOK, Records

(* Runs end and members change role: no table of the workflow changes.     *)
LEMMA RunsAndRolesTyped ==
  ASSUME TypeOK,
         \/ \E r \in Runs : CompleteRun(r) \/ FailRun(r)
         \/ \E u \in Users, x \in Roles : ChangeRole(u, x)
  PROVE  TypeOK'
<1>1. UNCHANGED <<rowVars, version, reviewVars, checklistVars, suggestions, trail>>
  BY DEF CompleteRun, FailRun, ChangeRole, runVars
<1>2. role' \in [Users -> Roles] /\ runStatus' \in [Runs -> {"absent", "completed", "failed"}]
  BY DEF TypeOK, CompleteRun, FailRun, ChangeRole
<1> QED
  BY <1>1, <1>2 DEF TypeOK, rowVars, reviewVars, checklistVars

(* Claim, release and note change the row alone.                           *)
LEMMA OwnershipTyped ==
  ASSUME TypeOK, NEW u \in Users, NEW e \in Exceptions, NEW x \in 0..MaxVersion,
         \/ \E a \in Users : ClaimException(u, a, e, x)
         \/ ReleaseException(u, e, x)
         \/ AddExceptionNote(u, e, x)
  PROVE  TypeOK'
<1>1. UNCHANGED <<runVars, resolvedBy, reviewVars, checklistVars, suggestions>>
  BY DEF ClaimException, ReleaseException, AddExceptionNote, rowVars
<1>2. status' \in [Exceptions -> Statuses] /\ assignee' \in [Exceptions -> Users \cup {NoUser}]
  <2>1. ASSUME NEW a \in Users, ClaimException(u, a, e, x)
        PROVE  /\ status' = [status EXCEPT ![e] = "investigating"]
               /\ assignee' = [assignee EXCEPT ![e] = a]
    BY <2>1 DEF ClaimException
  <2>2. ASSUME ReleaseException(u, e, x)
        PROVE  /\ status' = [status EXCEPT ![e] = "open"]
               /\ assignee' = [assignee EXCEPT ![e] = NoUser]
    BY <2>2 DEF ReleaseException
  <2>3. ASSUME AddExceptionNote(u, e, x) PROVE UNCHANGED <<status, assignee>>
    BY <2>3 DEF AddExceptionNote, rowVars
  <2> QED
    BY <2>1, <2>2, <2>3 DEF TypeOK, Statuses
<1>3. version' \in [Exceptions -> Nat] /\ trail' \in [Exceptions -> Seq(Event)]
  BY RecordsTyped DEF TypeOK, ClaimException, ReleaseException, AddExceptionNote
<1> QED
  BY <1>1, <1>2, <1>3
  DEF TypeOK, runVars, reviewVars, checklistVars

LEMMA SubmitTyped ==
  ASSUME TypeOK, NEW u \in Users, NEW e \in Exceptions, NEW r \in Runs \cup {NoRun},
         NEW x \in 0..MaxVersion, SubmitResolution(u, e, r, x)
  PROVE  TypeOK'
<1>1. [by |-> u, replacement |-> r] \in Proposal
  BY DEF Proposal
<1>2. proposals' \in [Exceptions -> Seq(Proposal)]
  BY <1>1 DEF TypeOK, SubmitResolution
<1>3. status' \in [Exceptions -> Statuses]
  BY DEF TypeOK, SubmitResolution, Statuses
<1>4. version' \in [Exceptions -> Nat] /\ trail' \in [Exceptions -> Seq(Event)]
  BY RecordsTyped DEF TypeOK, SubmitResolution
<1> QED
  BY <1>2, <1>3, <1>4
  DEF TypeOK, SubmitResolution, runVars, checklistVars

LEMMA DecisionTyped ==
  ASSUME TypeOK, NEW u \in Users, NEW e \in Exceptions, NEW n \in DOMAIN proposals[e],
         NEW x \in 0..MaxVersion, ApproveResolution(u, e, n, x) \/ RejectResolution(u, e, n, x)
  PROVE  TypeOK'
<1>1. proposals[e] \in Seq(Proposal)
  BY DEF TypeOK
<1>2. n \in Nat
  BY <1>1
<1>3. \A v \in Verdicts : DecidesProposal(u, e, n, v) => decisions' \in SUBSET Decision
  BY <1>2 DEF TypeOK, DecidesProposal, Decision
<1>4. decisions' \in SUBSET Decision
  BY <1>3 DEF ApproveResolution, RejectResolution, Verdicts
<1>5. status' \in [Exceptions -> Statuses] /\ resolvedBy' \in [Exceptions -> Users \cup {NoUser}]
  BY DEF TypeOK, ApproveResolution, RejectResolution, Statuses
<1>6. version' \in [Exceptions -> Nat] /\ trail' \in [Exceptions -> Seq(Event)]
  BY RecordsTyped DEF TypeOK, ApproveResolution, RejectResolution
<1>7. UNCHANGED <<runVars, assignee, proposals, checklistVars, suggestions>>
  BY DEF ApproveResolution, RejectResolution
<1> QED
  BY <1>4, <1>5, <1>6, <1>7 DEF TypeOK, runVars, checklistVars

LEMMA StoreTyped ==
  ASSUME TypeOK, NEW e \in Exceptions, NEW steps \in Replies, NEW x \in 0..MaxVersion,
         StoreSuggestion(e, steps, x)
  PROVE  TypeOK'
<1>1. suggestions' \in [Exceptions -> Seq(Replies)]
  BY DEF TypeOK, StoreSuggestion
<1> QED
  BY <1>1 DEF TypeOK, StoreSuggestion, runVars, rowVars,
              reviewVars, checklistVars

(* The steps an adoption chooses are steps of the provider.                *)
LEMMA ChosenStepsTyped ==
  ASSUME TypeOK, NEW e \in Exceptions, NEW i \in DOMAIN suggestions[e],
         NEW d \in {"accepted", "partially_accepted", "rejected"},
         NEW steps \in ChosenSteps(d, Range(suggestions[e][i]))
  PROVE  steps \in SUBSET Steps
<1>1. suggestions[e][i] \in Replies
  BY DEF TypeOK
<1>2. suggestions[e][i] \in Seq(Steps)
  BY <1>1, WorkflowAssumption
<1>3. Range(suggestions[e][i]) \in SUBSET Steps
  BY <1>2 DEF Range
<1> QED
  BY <1>3 DEF ChosenSteps

LEMMA AdoptTyped ==
  ASSUME TypeOK, NEW u \in Users, NEW e \in Exceptions, NEW i \in DOMAIN suggestions[e],
         NEW d \in {"accepted", "partially_accepted", "rejected"}, NEW x \in 0..MaxVersion,
         AdoptAiSuggestion(u, e, i, d, x)
  PROVE  TypeOK'
<1>1. PICK steps \in ChosenSteps(d, Range(suggestions[e][i])) :
        /\ adoptions' = [adoptions EXCEPT ![e] = @ \cup
                           {[suggestion |-> i, decision |-> d, steps |-> steps]}]
        /\ items' = [items EXCEPT ![e] = @ \cup ItemsFrom(i, steps)]
  BY DEF AdoptAiSuggestion
<1>2. i \in Nat
  <2>1. suggestions[e] \in Seq(Replies)
    BY DEF TypeOK
  <2> QED
    BY <2>1
<1>3. steps \in SUBSET Steps
  BY ChosenStepsTyped
<1>4. adoptions' \in [Exceptions -> SUBSET Adoption]
  <2>1. [suggestion |-> i, decision |-> d, steps |-> steps] \in Adoption
    BY <1>2, <1>3 DEF Adoption
  <2> QED
    BY <1>1, <2>1 DEF TypeOK
<1>5. items' \in [Exceptions -> SUBSET Item]
  <2>1. ItemsFrom(i, steps) \in SUBSET Item
    <3>1. ASSUME NEW s \in Steps
          PROVE  [id |-> s, suggestion |-> i, required |-> TRUE, status |-> "todo"] \in Item
      BY <1>2 DEF Item, ItemStatuses
    <3> QED
      BY <1>3, <3>1 DEF ItemsFrom
  <2> QED
    BY <1>1, <2>1 DEF TypeOK
<1>6. version' \in [Exceptions -> Nat] /\ trail' \in [Exceptions -> Seq(Event)]
  BY RecordsTyped DEF AdoptAiSuggestion
<1>7. UNCHANGED <<runVars, rowVars, reviewVars, suggestions>>
  BY DEF AdoptAiSuggestion
<1> QED
  BY <1>4, <1>5, <1>6, <1>7 DEF TypeOK, runVars, rowVars, reviewVars

(* A manual item is added, or an item gets another status.                 *)
LEMMA ItemTyped ==
  ASSUME TypeOK, NEW u \in Users, NEW e \in Exceptions, NEW x \in 0..MaxVersion,
         \/ \E required \in BOOLEAN : AddInvestigationItem(u, e, required, x)
         \/ \E i \in items[e], new \in ItemStatuses : UpdateInvestigationItem(u, e, i, new, x)
  PROVE  TypeOK'
<1>1. PICK old \in SUBSET Item, entry \in Item :
        items' = [items EXCEPT ![e] = (@ \ old) \cup {entry}]
  <2>1. CASE \E required \in BOOLEAN : AddInvestigationItem(u, e, required, x)
    <3>1. PICK required \in BOOLEAN : AddInvestigationItem(u, e, required, x)
      BY <2>1
    <3> DEFINE entry == [id |-> x, suggestion |-> 0, required |-> required, status |-> "todo"]
    <3>3. entry \in Item
      BY WorkflowAssumption DEF Item, ItemStatuses
    <3>4. items' = [items EXCEPT ![e] = (@ \ {}) \cup {entry}]
      BY <3>1 DEF AddInvestigationItem
    <3> QED
      BY <3>3, <3>4
  <2>2. CASE \E i \in items[e], new \in ItemStatuses : UpdateInvestigationItem(u, e, i, new, x)
    <3>1. PICK i \in items[e], new \in ItemStatuses : UpdateInvestigationItem(u, e, i, new, x)
      BY <2>2
    <3>2. i \in Item
      BY DEF TypeOK
    <3>3. [i EXCEPT !.status = new] \in Item
      BY <3>2 DEF Item
    <3>4. items' = [items EXCEPT ![e] = (@ \ {i}) \cup {[i EXCEPT !.status = new]}]
      BY <3>1 DEF UpdateInvestigationItem
    <3> QED
      BY <3>2, <3>3, <3>4
  <2> QED
    BY <2>1, <2>2
<1>2. items' \in [Exceptions -> SUBSET Item]
  BY <1>1 DEF TypeOK
<1>4. version' \in [Exceptions -> Nat] /\ trail' \in [Exceptions -> Seq(Event)]
  BY RecordsTyped DEF TypeOK, AddInvestigationItem, UpdateInvestigationItem
<1>5. UNCHANGED <<runVars, rowVars, reviewVars, adoptions, suggestions>>
  BY DEF AddInvestigationItem, UpdateInvestigationItem
<1> QED
  BY <1>2, <1>4, <1>5 DEF TypeOK, runVars, rowVars, reviewVars

LEMMA TypedStep == TypeOK /\ [Next]_vars => TypeOK'
<1> SUFFICES ASSUME TypeOK, [Next]_vars PROVE TypeOK'
  OBVIOUS
<1>1. CASE Environment
  BY <1>1, RunsAndRolesTyped, StoreTyped DEF Environment
<1>2. ASSUME NEW u \in Users, NEW e \in Exceptions, NEW x \in 0..MaxVersion, Work(u, e, x)
      PROVE  TypeOK'
  BY <1>2, OwnershipTyped, SubmitTyped, AdoptTyped, ItemTyped DEF Work
<1>3. ASSUME NEW u \in Users, NEW e \in Exceptions, NEW x \in 0..MaxVersion, Review(u, e, x)
      PROVE  TypeOK'
  BY <1>3, DecisionTyped DEF Review
<1>4. CASE UNCHANGED vars
  BY <1>4 DEF TypeOK, vars, runVars, rowVars, reviewVars, checklistVars
<1> QED
  BY <1>1, <1>2, <1>3, <1>4 DEF Next

(* Type correctness: whatever the handlers write stays in the domains the  *)
(* migrations declare for the tables of the workflow.                      *)
THEOREM WorkflowTypeCorrect == Spec => []TypeOK
<1>1. Init => TypeOK
  BY DEF Init, TypeOK, Statuses
<1> QED
  BY <1>1, TypedStep, PTL DEF Spec

-----------------------------------------------------------------------------
(* Proposals and decisions.  PendingHasOneUndecided and                    *)
(* ResolvedByIndependentReview are inductive together with two facts about *)
(* the tables: a decision refers to a stored proposal, and the newest      *)
(* proposal of an exception under review came from its owner.              *)

DecisionsConcernProposals == \A d \in decisions : d.proposal \in DOMAIN proposals[d.exc]

ReviewedProposalIsOwners ==
  \A e \in Exceptions :
    status[e] = "pending_review" => proposals[e][Len(proposals[e])].by = assignee[e]

ReviewInv ==
  /\ TypeOK
  /\ DecisionsConcernProposals
  /\ ReviewedProposalIsOwners
  /\ PendingHasOneUndecided
  /\ ResolvedByIndependentReview

(* Steps that touch neither the row nor the review tables.                 *)
LEMMA NeutralKeepsReview ==
  ASSUME ReviewInv, TypeOK', UNCHANGED <<rowVars, reviewVars>>
  PROVE  ReviewInv'
<1>1. UNCHANGED <<status, assignee, resolvedBy, proposals, decisions>>
  BY DEF rowVars, reviewVars
<1> QED
  BY <1>1 DEF ReviewInv, DecisionsConcernProposals, ReviewedProposalIsOwners,
              PendingHasOneUndecided, ResolvedByIndependentReview, Undecided, DecidedBy

(* A change of ownership happens outside review and keeps the exception    *)
(* outside it.                                                             *)
LEMMA OwnershipKeepsReview ==
  ASSUME ReviewInv, TypeOK', NEW e \in Exceptions,
         UNCHANGED <<resolvedBy, reviewVars>>,
         status[e] \in {"open", "investigating"}, status'[e] \in {"open", "investigating"},
         \A x \in Exceptions : x # e => status'[x] = status[x] /\ assignee'[x] = assignee[x]
  PROVE  ReviewInv'
<1>1. UNCHANGED <<resolvedBy, proposals, decisions>>
  BY DEF reviewVars
<1>2. \A x \in Exceptions : Undecided(x)' = Undecided(x)
  BY <1>1 DEF Undecided
<1>3. \A x \in Exceptions : DecidedBy(x, "approved")' = DecidedBy(x, "approved")
  BY <1>1 DEF DecidedBy
<1>4. DecisionsConcernProposals'
  BY <1>1 DEF ReviewInv, DecisionsConcernProposals
<1>5. ReviewedProposalIsOwners'
  BY <1>1 DEF ReviewInv, ReviewedProposalIsOwners
<1>6. PendingHasOneUndecided'
  BY <1>1, <1>2 DEF ReviewInv, PendingHasOneUndecided
<1>7. ResolvedByIndependentReview'
  BY <1>1, <1>3 DEF ReviewInv, ResolvedByIndependentReview
<1> QED
  BY <1>4, <1>5, <1>6, <1>7 DEF ReviewInv

(* The submitted proposal becomes the only undecided one: no decision      *)
(* refers to its number yet, and the ones before it are decided.           *)
LEMMA SubmitKeepsReview ==
  ASSUME ReviewInv, TypeOK', NEW u \in Users, NEW e \in Exceptions,
         NEW r \in Runs \cup {NoRun}, NEW x \in 0..MaxVersion, SubmitResolution(u, e, r, x)
  PROVE  ReviewInv'
<1> DEFINE n == Len(proposals[e])
<1>1. /\ status[e] = "investigating" /\ assignee[e] = u
      /\ status' = [status EXCEPT ![e] = "pending_review"]
      /\ proposals' = [proposals EXCEPT ![e] = Append(@, [by |-> u, replacement |-> r])]
      /\ UNCHANGED <<assignee, resolvedBy, decisions>>
  BY DEF SubmitResolution, OwnerInvestigates
<1>2. /\ TypeOK /\ proposals \in [Exceptions -> Seq(Proposal)] /\ proposals[e] \in Seq(Proposal)
      /\ status \in [Exceptions -> Statuses] /\ decisions \in SUBSET Decision
  BY DEF ReviewInv, TypeOK
<1>3. n \in Nat /\ DOMAIN proposals[e] = 1..n
  BY <1>2
<1>4. /\ Len(proposals'[e]) = n + 1 /\ DOMAIN proposals'[e] = 1..(n + 1)
      /\ proposals'[e][n + 1] = [by |-> u, replacement |-> r]
      /\ \A m \in 1..n : proposals'[e][m] = proposals[e][m]
  BY <1>1, <1>2
<1>5. \A y \in Exceptions : y # e => status'[y] = status[y] /\ proposals'[y] = proposals[y]
  BY <1>1, <1>2
<1>6. status'[e] = "pending_review"
  BY <1>1, <1>2
<1> HIDE DEF n
<1>7. DecisionsConcernProposals'
  <2>1. ASSUME NEW d \in decisions PROVE d.proposal \in DOMAIN proposals'[d.exc]
    <3>1. d.proposal \in DOMAIN proposals[d.exc] /\ d.exc \in Exceptions
      BY <1>2 DEF ReviewInv, DecisionsConcernProposals, Decision
    <3> QED
      BY <3>1, <1>3, <1>4, <1>5
  <2> QED
    BY <2>1, <1>1 DEF DecisionsConcernProposals
<1>8. ReviewedProposalIsOwners'
  BY <1>1, <1>4, <1>5 DEF ReviewInv, ReviewedProposalIsOwners, n
<1>9. PendingHasOneUndecided'
  <2>1. Undecided(e) = {}
    BY <1>1 DEF ReviewInv, PendingHasOneUndecided
  <2>2. ~\E d \in decisions : d.exc = e /\ d.proposal = n + 1
    BY <1>3 DEF ReviewInv, DecisionsConcernProposals
  <2>3. Undecided(e)' = {n + 1}
    BY <2>1, <2>2, <1>1, <1>3, <1>4 DEF Undecided
  <2>4. \A y \in Exceptions : y # e => Undecided(y)' = Undecided(y)
    BY <1>1, <1>5 DEF Undecided
  <2> QED
    BY <2>3, <2>4, <1>4, <1>5, <1>6 DEF ReviewInv, PendingHasOneUndecided
<1>10. ResolvedByIndependentReview'
  <2>1. \A y \in Exceptions : DecidedBy(y, "approved")' = DecidedBy(y, "approved")
    BY <1>1 DEF DecidedBy
  <2> QED
    BY <2>1, <1>1, <1>5, <1>6 DEF ReviewInv, ResolvedByIndependentReview
<1> QED
  BY <1>7, <1>8, <1>9, <1>10 DEF ReviewInv

(* A decision of the newest proposal leaves none undecided.                *)
LEMMA DecisionDecides ==
  ASSUME ReviewInv, NEW u \in Users, NEW e \in Exceptions, NEW n \in DOMAIN proposals[e],
         NEW v \in Verdicts, DecidesProposal(u, e, n, v), UNCHANGED proposals
  PROVE  /\ n = Len(proposals[e])
         /\ proposals[e][n].by = assignee[e] /\ assignee[e] # u
         /\ Undecided(e)' = {}
         /\ \A x \in Exceptions : x # e => Undecided(x)' = Undecided(x)
         /\ DecisionsConcernProposals'
<1> DEFINE d == [exc |-> e, proposal |-> n, verdict |-> v, by |-> u]
<1>1. decisions' = decisions \cup {d} /\ d.exc = e /\ d.proposal = n
  BY DEF DecidesProposal
<1>2. status[e] = "pending_review" /\ n \in Undecided(e) /\ proposals[e][n].by # u
  BY DEF DecidesProposal
<1>3. Undecided(e) = {Len(proposals[e])}
  BY <1>2 DEF ReviewInv, PendingHasOneUndecided
<1>4. n = Len(proposals[e])
  BY <1>2, <1>3
<1>5. proposals[e][n].by = assignee[e]
  BY <1>2, <1>4 DEF ReviewInv, ReviewedProposalIsOwners
<1> HIDE DEF d
<1>6. Undecided(e)' = {}
  BY <1>1, <1>3, <1>4 DEF Undecided
<1>7. \A x \in Exceptions : x # e => Undecided(x)' = Undecided(x)
  BY <1>1 DEF Undecided
<1>8. DecisionsConcernProposals'
  BY <1>1 DEF ReviewInv, DecisionsConcernProposals
<1> QED
  BY <1>2, <1>4, <1>5, <1>6, <1>7, <1>8

LEMMA ApproveKeepsReview ==
  ASSUME ReviewInv, TypeOK', NEW u \in Users, NEW e \in Exceptions, NEW n \in DOMAIN proposals[e],
         NEW x \in 0..MaxVersion, ApproveResolution(u, e, n, x)
  PROVE  ReviewInv'
<1>1. /\ DecidesProposal(u, e, n, "approved")
      /\ status' = [status EXCEPT ![e] = "resolved"]
      /\ resolvedBy' = [resolvedBy EXCEPT ![e] = u]
      /\ UNCHANGED <<assignee, proposals>>
  BY DEF ApproveResolution
<1>2. /\ n = Len(proposals[e])
      /\ proposals[e][n].by = assignee[e] /\ assignee[e] # u
      /\ Undecided(e)' = {}
      /\ \A y \in Exceptions : y # e => Undecided(y)' = Undecided(y)
      /\ DecisionsConcernProposals'
  BY <1>1, DecisionDecides DEF Verdicts
<1>3. /\ status'[e] = "resolved" /\ resolvedBy'[e] = u
      /\ \A y \in Exceptions : y # e => status'[y] = status[y] /\ resolvedBy'[y] = resolvedBy[y]
  BY <1>1 DEF ReviewInv, TypeOK
<1>4. ReviewedProposalIsOwners'
  BY <1>1, <1>3 DEF ReviewInv, ReviewedProposalIsOwners
<1>5. PendingHasOneUndecided'
  BY <1>1, <1>2, <1>3 DEF ReviewInv, PendingHasOneUndecided
<1>6. ResolvedByIndependentReview'
  <2> DEFINE d == [exc |-> e, proposal |-> n, verdict |-> "approved", by |-> u]
  <2>1. decisions' = decisions \cup {d} /\ d.exc = e /\ d.verdict = "approved"
    BY <1>1 DEF DecidesProposal
  <2>2. status[e] # "resolved"
    BY <1>1 DEF DecidesProposal
  <2>3. DecidedBy(e, "approved") = {}
    BY <2>2 DEF ReviewInv, ResolvedByIndependentReview
  <2> HIDE DEF d
  <2>4. DecidedBy(e, "approved")' = {d}
    BY <2>1, <2>3 DEF DecidedBy
  <2>5. \A y \in Exceptions : y # e => DecidedBy(y, "approved")' = DecidedBy(y, "approved")
    BY <2>1 DEF DecidedBy
  <2> QED
    BY <2>4, <2>5, <1>1, <1>2, <1>3 DEF ReviewInv, ResolvedByIndependentReview, d
<1> QED
  BY <1>2, <1>4, <1>5, <1>6 DEF ReviewInv

LEMMA RejectKeepsReview ==
  ASSUME ReviewInv, TypeOK', NEW u \in Users, NEW e \in Exceptions, NEW n \in DOMAIN proposals[e],
         NEW x \in 0..MaxVersion, RejectResolution(u, e, n, x)
  PROVE  ReviewInv'
<1>1. /\ DecidesProposal(u, e, n, "rejected")
      /\ status' = [status EXCEPT ![e] = "investigating"]
      /\ resolvedBy' = [resolvedBy EXCEPT ![e] = NoUser]
      /\ UNCHANGED <<assignee, proposals>>
  BY DEF RejectResolution
<1>2. /\ Undecided(e)' = {}
      /\ \A y \in Exceptions : y # e => Undecided(y)' = Undecided(y)
      /\ DecisionsConcernProposals'
  BY <1>1, DecisionDecides DEF Verdicts
<1>3. /\ status'[e] = "investigating" /\ resolvedBy'[e] = NoUser
      /\ \A y \in Exceptions : y # e => status'[y] = status[y] /\ resolvedBy'[y] = resolvedBy[y]
  BY <1>1 DEF ReviewInv, TypeOK
<1>4. ReviewedProposalIsOwners'
  BY <1>1, <1>3 DEF ReviewInv, ReviewedProposalIsOwners
<1>5. PendingHasOneUndecided'
  BY <1>1, <1>2, <1>3 DEF ReviewInv, PendingHasOneUndecided
<1>6. ResolvedByIndependentReview'
  <2>1. decisions' = decisions \cup {[exc |-> e, proposal |-> n, verdict |-> "rejected", by |-> u]}
    BY <1>1 DEF DecidesProposal
  <2>2. status[e] = "pending_review"
    BY <1>1 DEF DecidesProposal
  <2>3. \A y \in Exceptions : DecidedBy(y, "approved")' = DecidedBy(y, "approved")
    BY <2>1 DEF DecidedBy
  <2> QED
    BY <2>2, <2>3, <1>1, <1>3 DEF ReviewInv, ResolvedByIndependentReview
<1> QED
  BY <1>2, <1>4, <1>5, <1>6 DEF ReviewInv

LEMMA ReviewStart == Init => ReviewInv
<1> SUFFICES ASSUME Init PROVE ReviewInv
  OBVIOUS
<1>1. TypeOK
  BY DEF Init, TypeOK, Statuses
<1>2. \A e \in Exceptions : status[e] = "open" /\ resolvedBy[e] = NoUser /\ proposals[e] = <<>>
  BY DEF Init
<1>3. decisions = {}
  BY DEF Init
<1>4. PendingHasOneUndecided
  BY <1>2, <1>3 DEF PendingHasOneUndecided, Undecided
<1>5. ResolvedByIndependentReview
  BY <1>2, <1>3 DEF ResolvedByIndependentReview, DecidedBy
<1> QED
  BY <1>1, <1>2, <1>3, <1>4, <1>5 DEF ReviewInv, DecisionsConcernProposals, ReviewedProposalIsOwners

LEMMA ReviewStep == ReviewInv /\ [Next]_vars => ReviewInv'
<1> SUFFICES ASSUME ReviewInv, [Next]_vars PROVE ReviewInv'
  OBVIOUS
<1>1. TypeOK'
  BY TypedStep DEF ReviewInv
<1>2. CASE Environment
  <2>1. UNCHANGED <<rowVars, reviewVars>>
    BY <1>2 DEF Environment, CompleteRun, FailRun, ChangeRole, StoreSuggestion
  <2> QED
    BY <1>1, <2>1, NeutralKeepsReview
<1>3. ASSUME NEW u \in Users, NEW e \in Exceptions, NEW x \in 0..MaxVersion, Work(u, e, x)
      PROVE  ReviewInv'
  <2>1. ASSUME NEW a \in Users, ClaimException(u, a, e, x) PROVE ReviewInv'
    <3>1. /\ status[e] \in {"open", "investigating"} /\ status'[e] \in {"open", "investigating"}
          /\ \A y \in Exceptions : y # e => status'[y] = status[y] /\ assignee'[y] = assignee[y]
      BY <2>1 DEF ReviewInv, TypeOK, Statuses, ClaimException, Claimable
    <3> QED
      BY <1>1, <2>1, <3>1, OwnershipKeepsReview DEF ClaimException
  <2>2. ASSUME ReleaseException(u, e, x) PROVE ReviewInv'
    <3>1. /\ status[e] \in {"open", "investigating"} /\ status'[e] \in {"open", "investigating"}
          /\ \A y \in Exceptions : y # e => status'[y] = status[y] /\ assignee'[y] = assignee[y]
      BY <2>2 DEF ReviewInv, TypeOK, Statuses, ReleaseException, OwnerInvestigates
    <3> QED
      BY <1>1, <2>2, <3>1, OwnershipKeepsReview DEF ReleaseException
  <2>3. ASSUME NEW r \in Runs \cup {NoRun}, SubmitResolution(u, e, r, x) PROVE ReviewInv'
    BY <1>1, <2>3, SubmitKeepsReview
  <2>4. CASE \/ AddExceptionNote(u, e, x)
             \/ \E i \in DOMAIN suggestions[e], d \in {"accepted", "partially_accepted", "rejected"} :
                  AdoptAiSuggestion(u, e, i, d, x)
             \/ \E required \in BOOLEAN : AddInvestigationItem(u, e, required, x)
             \/ \E i \in items[e], new \in ItemStatuses : UpdateInvestigationItem(u, e, i, new, x)
    <3>1. UNCHANGED <<rowVars, reviewVars>>
      BY <2>4 DEF AddExceptionNote, AdoptAiSuggestion, AddInvestigationItem, UpdateInvestigationItem
    <3> QED
      BY <1>1, <3>1, NeutralKeepsReview
  <2> QED
    BY <1>3, <2>1, <2>2, <2>3, <2>4 DEF Work
<1>4. ASSUME NEW u \in Users, NEW e \in Exceptions, NEW x \in 0..MaxVersion, Review(u, e, x)
      PROVE  ReviewInv'
  BY <1>1, <1>4, ApproveKeepsReview, RejectKeepsReview DEF Review
<1>5. CASE UNCHANGED vars
  BY <1>1, <1>5, NeutralKeepsReview DEF vars
<1> QED
  BY <1>2, <1>3, <1>4, <1>5 DEF Next

(* An exception waits for review exactly while its newest proposal, and no *)
(* other, is undecided.                                                    *)
THEOREM PendingAlwaysHasOneUndecided == Spec => []PendingHasOneUndecided
<1>1. ReviewInv => PendingHasOneUndecided
  BY DEF ReviewInv
<1> QED
  BY <1>1, ReviewStart, ReviewStep, PTL DEF Spec

(* Four eyes: a resolved exception has one approval, of its owner's newest *)
(* proposal, by someone else, whatever roles the members had in between.   *)
THEOREM AlwaysResolvedByIndependentReview == Spec => []ResolvedByIndependentReview
<1>1. ReviewInv => ResolvedByIndependentReview
  BY DEF ReviewInv
<1> QED
  BY <1>1, ReviewStart, ReviewStep, PTL DEF Spec

-----------------------------------------------------------------------------
(* What any handler does.  From here the proofs of action properties and   *)
(* of the checklist need no case split over the handlers.                  *)

(* A handler leaves every other exception alone, adds one to the version   *)
(* of its own, and one audit row.                                          *)
HandlesOnly(e) ==
  /\ UNCHANGED <<runVars, suggestions>>
  /\ version' = [version EXCEPT ![e] = @ + 1]
  /\ \E ev \in Event : trail' = [trail EXCEPT ![e] = Append(@, ev)]
  /\ \A y \in Exceptions \ {e} :
       /\ status'[y] = status[y] /\ assignee'[y] = assignee[y] /\ resolvedBy'[y] = resolvedBy[y]
       /\ proposals'[y] = proposals[y] /\ items'[y] = items[y] /\ adoptions'[y] = adoptions[y]

(* It adds decisions, of e, and proposals and adoptions to what there is,  *)
(* and finds e not resolved.                                               *)
AddsTo(e) ==
  /\ status[e] # "resolved"
  /\ decisions \subseteq decisions' /\ \A d \in decisions' \ decisions : d.exc = e
  /\ proposals' = proposals \/ \E p \in Proposal : proposals' = [proposals EXCEPT ![e] = Append(@, p)]
  /\ adoptions[e] \subseteq adoptions'[e]

LEMMA RecordsOne ==
  ASSUME TypeOK, NEW e \in Exceptions, NEW action, NEW u \in Users, NEW a \in Users \cup {NoUser},
         action \in {"claimed", "released", "note_added", "submitted", "approved", "rejected",
                     "ai_adoption_recorded", "item_added", "item_updated"},
         Records(e, action, u, a)
  PROVE  /\ version' = [version EXCEPT ![e] = @ + 1]
         /\ \E ev \in Event : trail' = [trail EXCEPT ![e] = Append(@, ev)]
<1>1. [action |-> action, actor |-> u, assignee |-> a] \in Event
  BY DEF Event
<1> QED
  BY <1>1 DEF Records

LEMMA WorkHandles ==
  ASSUME TypeOK, NEW u \in Users, NEW e \in Exceptions, NEW x \in 0..MaxVersion, Work(u, e, x)
  PROVE  HandlesOnly(e) /\ AddsTo(e)
<1> USE DEF TypeOK, runVars, rowVars, reviewVars, checklistVars
<1>1. ASSUME NEW a \in Users, ClaimException(u, a, e, x) PROVE HandlesOnly(e) /\ AddsTo(e)
  BY <1>1, RecordsOne DEF ClaimException, Claimable, HandlesOnly, AddsTo
<1>2. ASSUME ReleaseException(u, e, x) PROVE HandlesOnly(e) /\ AddsTo(e)
  BY <1>2, RecordsOne DEF ReleaseException, OwnerInvestigates, HandlesOnly, AddsTo
<1>3. ASSUME AddExceptionNote(u, e, x) PROVE HandlesOnly(e) /\ AddsTo(e)
  BY <1>3, RecordsOne DEF AddExceptionNote, MayNote, HandlesOnly, AddsTo
<1>4. ASSUME NEW r \in Runs \cup {NoRun}, SubmitResolution(u, e, r, x)
      PROVE  HandlesOnly(e) /\ AddsTo(e)
  <2>1. [by |-> u, replacement |-> r] \in Proposal
    BY DEF Proposal
  <2> QED
    BY <1>4, <2>1, RecordsOne DEF SubmitResolution, OwnerInvestigates, HandlesOnly, AddsTo
<1>5. ASSUME NEW i \in DOMAIN suggestions[e], NEW d \in {"accepted", "partially_accepted", "rejected"},
             AdoptAiSuggestion(u, e, i, d, x)
      PROVE  HandlesOnly(e) /\ AddsTo(e)
  BY <1>5, RecordsOne DEF AdoptAiSuggestion, OwnerInvestigates, HandlesOnly, AddsTo
<1>6. ASSUME NEW required \in BOOLEAN, AddInvestigationItem(u, e, required, x)
      PROVE  HandlesOnly(e) /\ AddsTo(e)
  BY <1>6, RecordsOne DEF AddInvestigationItem, OwnerInvestigates, HandlesOnly, AddsTo
<1>7. ASSUME NEW i \in items[e], NEW new \in ItemStatuses, UpdateInvestigationItem(u, e, i, new, x)
      PROVE  HandlesOnly(e) /\ AddsTo(e)
  <2>1. /\ OwnerInvestigates(e, u) /\ Records(e, "item_updated", u, NoUser)
        /\ UNCHANGED <<runVars, rowVars, reviewVars, adoptions, suggestions>>
        /\ \E s : items' = [items EXCEPT ![e] = s]
    BY <1>7 DEF UpdateInvestigationItem
  <2> QED
    BY <2>1, RecordsOne DEF OwnerInvestigates, HandlesOnly, AddsTo
<1> QED
  BY <1>1, <1>2, <1>3, <1>4, <1>5, <1>6, <1>7 DEF Work

LEMMA ReviewHandles ==
  ASSUME TypeOK, NEW u \in Users, NEW e \in Exceptions, NEW x \in 0..MaxVersion, Review(u, e, x)
  PROVE  HandlesOnly(e) /\ AddsTo(e)
<1> USE DEF TypeOK, runVars, rowVars, reviewVars, checklistVars
<1>1. PICK n \in DOMAIN proposals[e] : ApproveResolution(u, e, n, x) \/ RejectResolution(u, e, n, x)
  BY DEF Review
<1>2. CASE ApproveResolution(u, e, n, x)
  <2> DEFINE d == [exc |-> e, proposal |-> n, verdict |-> "approved", by |-> u]
  <2>1. status[e] = "pending_review" /\ decisions' = decisions \cup {d} /\ d.exc = e
    BY <1>2 DEF ApproveResolution, DecidesProposal
  <2> HIDE DEF d
  <2> QED
    BY <1>2, <2>1, RecordsOne DEF ApproveResolution, HandlesOnly, AddsTo
<1>3. CASE RejectResolution(u, e, n, x)
  <2> DEFINE d == [exc |-> e, proposal |-> n, verdict |-> "rejected", by |-> u]
  <2>1. status[e] = "pending_review" /\ decisions' = decisions \cup {d} /\ d.exc = e
    BY <1>3 DEF RejectResolution, DecidesProposal
  <2> HIDE DEF d
  <2> QED
    BY <1>3, <2>1, RecordsOne DEF RejectResolution, HandlesOnly, AddsTo
<1> QED
  BY <1>1, <1>2, <1>3

(* The other steps leave every row of the workflow alone but for           *)
(* suggestions, which they append.                                         *)
LEMMA EnvironmentAddsSuggestions ==
  ASSUME TypeOK, Environment \/ UNCHANGED vars
  PROVE  /\ UNCHANGED <<rowVars, version, reviewVars, checklistVars, trail>>
         /\ \A e \in Exceptions :
              suggestions'[e] = suggestions[e] \/ \E s \in Replies : suggestions'[e] = Append(suggestions[e], s)
<1>1. UNCHANGED <<rowVars, version, reviewVars, checklistVars, trail>>
  BY DEF Environment, CompleteRun, FailRun, ChangeRole, StoreSuggestion, vars
<1>2. ASSUME NEW e \in Exceptions
      PROVE  suggestions'[e] = suggestions[e] \/ \E s \in Replies : suggestions'[e] = Append(suggestions[e], s)
  BY DEF TypeOK, Environment, CompleteRun, FailRun, ChangeRole, StoreSuggestion, vars
<1> QED
  BY <1>1, <1>2

(* Who is not handled stays as visible as before; the environment changes  *)
(* nothing that is visible.                                                *)
LEMMA UnhandledStaysVisible ==
  ASSUME NEW e \in Exceptions, HandlesOnly(e), AddsTo(e), NEW y \in Exceptions \ {e}, TypeOK
  PROVE  Visible(y)' = Visible(y) /\ version'[y] = version[y]
<1>1. {d \in decisions' : d.exc = y} = {d \in decisions : d.exc = y}
  BY DEF AddsTo
<1>2. version'[y] = version[y]
  BY DEF HandlesOnly, TypeOK
<1> QED
  BY <1>1, <1>2 DEF HandlesOnly, Visible

LEMMA EnvironmentHidden ==
  ASSUME TypeOK, Environment \/ UNCHANGED vars, NEW y \in Exceptions
  PROVE  Visible(y)' = Visible(y) /\ version'[y] = version[y]
BY EnvironmentAddsSuggestions DEF Visible, rowVars, reviewVars, checklistVars

(* An exception keeps what a client was shown of it as long as its version *)
(* does not move, and the version moves by one.                            *)
LEMMA StepMovesVersion ==
  ASSUME TypeOK, [Next]_vars
  PROVE  \A e \in Exceptions :
           IF version'[e] = version[e] THEN Visible(e)' = Visible(e)
           ELSE version'[e] = version[e] + 1
<1> DEFINE Moved == \A e \in Exceptions :
                      IF version'[e] = version[e] THEN Visible(e)' = Visible(e)
                      ELSE version'[e] = version[e] + 1
<1>1. ASSUME NEW e \in Exceptions, HandlesOnly(e), AddsTo(e) PROVE Moved
  <2>1. version'[e] = version[e] + 1 /\ version'[e] # version[e]
    BY <1>1 DEF HandlesOnly, TypeOK
  <2> QED
    BY <1>1, <2>1, UnhandledStaysVisible
<1>2. ASSUME Environment \/ UNCHANGED vars PROVE Moved
  BY <1>2, EnvironmentHidden
<1>3. ASSUME NEW u \in Users, NEW e \in Exceptions, NEW x \in 0..MaxVersion,
             Work(u, e, x) \/ Review(u, e, x)
      PROVE  HandlesOnly(e) /\ AddsTo(e)
  BY <1>3, WorkHandles, ReviewHandles
<1>4. Moved
  <2> HIDE DEF Moved
  <2> QED
    BY <1>1, <1>2, <1>3 DEF Next
<1> QED
  BY <1>4

(* Optimistic locking is sound: whatever a handler changes of what a       *)
(* client was shown also moves the version of that exception, by one.      *)
THEOREM ChangesAlwaysMoveVersion == Spec => ChangesMoveVersion
<1> DEFINE Moved == \A e \in Exceptions :
                      IF version'[e] = version[e] THEN Visible(e)' = Visible(e)
                      ELSE version'[e] = version[e] + 1
<1>1. TypeOK /\ [Next]_vars => [Moved]_vars
  BY StepMovesVersion
<1>2. Spec => [][Moved]_vars
  BY <1>1, WorkflowTypeCorrect, PTL DEF Spec
<1> QED
  BY <1>2 DEF ChangesMoveVersion

(* An owner changes by a claim of what nobody else holds, or by a release. *)
LEMMA OwnerMoves ==
  ASSUME TypeOK, [Next]_vars, NEW y \in Exceptions, assignee'[y] # assignee[y]
  PROVE  /\ NoUser \in {assignee[y], assignee'[y]}
         /\ status[y] \in {"open", "investigating"} /\ status'[y] \in {"open", "investigating"}
<1>1. ~(Environment \/ UNCHANGED vars)
  BY EnvironmentAddsSuggestions DEF rowVars
<1>2. PICK u \in Users, e \in Exceptions, x \in 0..MaxVersion : Work(u, e, x) \/ Review(u, e, x)
  BY <1>1 DEF Next
<1>3. y = e
  BY <1>2, WorkHandles, ReviewHandles DEF HandlesOnly
<1>4. ~Review(u, e, x)
  BY DEF Review, ApproveResolution, RejectResolution
<1>5. \/ \E a \in Users : ClaimException(u, a, e, x)
      \/ ReleaseException(u, e, x)
  BY <1>2, <1>4
  DEF Work, AddExceptionNote, SubmitResolution, AdoptAiSuggestion, AddInvestigationItem,
      UpdateInvestigationItem, rowVars
<1>6. ASSUME NEW a \in Users, ClaimException(u, a, e, x)
      PROVE  /\ assignee[e] = NoUser
             /\ status[e] \in {"open", "investigating"} /\ status'[e] = "investigating"
  <2>1. assignee'[e] = a /\ status'[e] = "investigating" /\ assignee[e] \in {NoUser, a}
    BY <1>6 DEF ClaimException, Claimable, TypeOK
  <2>2. status[e] \in {"open", "investigating"}
    BY <1>6 DEF ClaimException, Claimable, TypeOK, Statuses
  <2> QED
    BY <1>3, <2>1, <2>2
<1>7. ASSUME ReleaseException(u, e, x)
      PROVE  assignee'[e] = NoUser /\ status[e] = "investigating" /\ status'[e] = "open"
  BY <1>7 DEF ReleaseException, OwnerInvestigates, TypeOK
<1> QED
  BY <1>3, <1>5, <1>6, <1>7

(* Nobody takes an exception over in one step, and nobody's ownership ends *)
(* while a proposal of theirs is under review or approved.                 *)
THEOREM OwnershipAlwaysHandedBack == Spec => OwnershipIsHandedBack
<1> DEFINE Handed == \A e \in Exceptions :
         assignee'[e] # assignee[e] =>
           /\ NoUser \in {assignee[e], assignee'[e]}
           /\ status[e] \in {"open", "investigating"} /\ status'[e] \in {"open", "investigating"}
<1>1. TypeOK /\ [Next]_vars => [Handed]_vars
  BY OwnerMoves
<1> QED
  BY <1>1, WorkflowTypeCorrect, PTL DEF Spec, OwnershipIsHandedBack

(* A sequence is a prefix of itself, also with one element more.           *)
LEMMA AppendedIsPrefix ==
  ASSUME NEW T, NEW s \in Seq(T), NEW x \in T
  PROVE  IsPrefix(s, s) /\ IsPrefix(s, Append(s, x))
<1>1. Len(s) <= Len(Append(s, x)) /\ Len(s) <= Len(s)
  OBVIOUS
<1>2. SubSeq(s, 1, Len(s)) = SubSeq(Append(s, x), 1, Len(s))
  OBVIOUS
<1> QED
  BY <1>1, <1>2 DEF IsPrefix

(* What happened stays on record: proposals, decisions, suggestions,       *)
(* adoptions and audit rows are only added, and a resolved exception is    *)
(* final.                                                                  *)
THEOREM HistoryAlwaysGrows == Spec => HistoryOnlyGrows
<1> DEFINE Grows(y) ==
             /\ IsPrefix(proposals[y], proposals'[y])
             /\ IsPrefix(suggestions[y], suggestions'[y])
             /\ IsPrefix(trail[y], trail'[y])
             /\ adoptions[y] \subseteq adoptions'[y]
             /\ status[y] = "resolved" => Visible(y)' = Visible(y) /\ version'[y] = version[y]
           Record ==
             /\ decisions \subseteq decisions'
             /\ \A e \in Exceptions :
                  /\ IsPrefix(proposals[e], proposals'[e])
                  /\ IsPrefix(suggestions[e], suggestions'[e])
                  /\ IsPrefix(trail[e], trail'[e])
                  /\ adoptions[e] \subseteq adoptions'[e]
                  /\ status[e] = "resolved" =>
                       Visible(e)' = Visible(e) /\ version'[e] = version[e]
<1>1. ASSUME TypeOK, [Next]_vars PROVE Record
  <2>1. \A y \in Exceptions : /\ proposals[y] \in Seq(Proposal) /\ suggestions[y] \in Seq(Replies)
                              /\ trail[y] \in Seq(Event)
    BY <1>1 DEF TypeOK
  <2>2. ASSUME NEW e \in Exceptions, HandlesOnly(e), AddsTo(e), NEW y \in Exceptions PROVE Grows(y)
    <3>1. PICK ev \in Event : trail' = [trail EXCEPT ![e] = Append(@, ev)]
      BY <2>2 DEF HandlesOnly
    <3>2. IsPrefix(trail[y], trail'[y])
      <4>1. trail'[y] \in {trail[y], Append(trail[y], ev)}
        BY <1>1, <3>1 DEF TypeOK
      <4> QED
        BY <2>1, <4>1, AppendedIsPrefix
    <3>3. IsPrefix(suggestions[y], suggestions'[y])
      <4>1. suggestions'[y] = suggestions[y]
        BY <2>2 DEF HandlesOnly
      <4>2. IsPrefix(suggestions[y], suggestions[y])
        BY DEF IsPrefix
      <4> QED
        BY <4>1, <4>2
    <3>4. IsPrefix(proposals[y], proposals'[y])
      <4>1. proposals'[y] = proposals[y] \/ \E p \in Proposal : proposals'[y] = Append(proposals[y], p)
        BY <1>1, <2>2 DEF AddsTo, TypeOK
      <4>2. IsPrefix(proposals[y], proposals[y])
        BY DEF IsPrefix
      <4> QED
        BY <2>1, <4>1, <4>2, AppendedIsPrefix
    <3>5. adoptions[y] \subseteq adoptions'[y]
      BY <2>2 DEF HandlesOnly, AddsTo
    <3>6. status[y] = "resolved" => Visible(y)' = Visible(y) /\ version'[y] = version[y]
      BY <1>1, <2>2, UnhandledStaysVisible DEF AddsTo
    <3> QED
      BY <3>2, <3>3, <3>4, <3>5, <3>6
  <2>3. ASSUME Environment \/ UNCHANGED vars, NEW y \in Exceptions PROVE Grows(y)
    <3>1. /\ proposals'[y] = proposals[y] /\ trail'[y] = trail[y] /\ adoptions'[y] = adoptions[y]
          /\ suggestions'[y] = suggestions[y] \/ \E s \in Replies : suggestions'[y] = Append(suggestions[y], s)
      BY <1>1, <2>3, EnvironmentAddsSuggestions DEF reviewVars, checklistVars
    <3>2. IsPrefix(proposals[y], proposals[y]) /\ IsPrefix(trail[y], trail[y])
          /\ IsPrefix(suggestions[y], suggestions[y])
      BY DEF IsPrefix
    <3>3. IsPrefix(suggestions[y], suggestions'[y])
      BY <2>1, <3>1, <3>2, AppendedIsPrefix
    <3> QED
      BY <1>1, <2>3, <3>1, <3>2, <3>3, EnvironmentHidden
  <2>4. ASSUME Environment \/ UNCHANGED vars PROVE decisions' = decisions
    BY <1>1, <2>4, EnvironmentAddsSuggestions DEF reviewVars
  <2>5. ASSUME NEW u \in Users, NEW e \in Exceptions, NEW x \in 0..MaxVersion,
               Work(u, e, x) \/ Review(u, e, x)
        PROVE  Record
    <3>1. HandlesOnly(e) /\ AddsTo(e)
      BY <1>1, <2>5, WorkHandles, ReviewHandles
    <3>2. \A y \in Exceptions : Grows(y)
      BY <2>2, <3>1
    <3> QED
      BY <3>1, <3>2 DEF AddsTo
  <2>6. CASE Environment \/ UNCHANGED vars
    <3>1. \A y \in Exceptions : Grows(y)
      BY <2>3, <2>6
    <3> QED
      BY <2>4, <2>6, <3>1
  <2> HIDE DEF Record
  <2> QED
    BY <1>1, <2>5, <2>6 DEF Next
<1>2. TypeOK /\ [Next]_vars => [Record]_vars
  BY <1>1
<1> QED
  BY <1>2, WorkflowTypeCorrect, PTL DEF Spec, HistoryOnlyGrows

-----------------------------------------------------------------------------
(* The checklist.                                                          *)

(* Items change only under investigation, and review begins without an     *)
(* open required one.                                                      *)
LEMMA ItemsAndStatus ==
  ASSUME TypeOK, NEW u \in Users, NEW e \in Exceptions, NEW x \in 0..MaxVersion,
         Work(u, e, x) \/ Review(u, e, x)
  PROVE  /\ items'[e] = items[e] \/ status'[e] = "investigating"
         /\ status'[e] \in {"pending_review", "resolved"} =>
              status[e] = "pending_review" \/ status'[e] = status[e] \/ OpenRequiredItems(e) = {}
<1> USE DEF TypeOK, rowVars, reviewVars, checklistVars
<1>1. CASE \/ \E a \in Users : ClaimException(u, a, e, x)
           \/ ReleaseException(u, e, x) \/ AddExceptionNote(u, e, x)
           \/ \E r \in Runs \cup {NoRun} : SubmitResolution(u, e, r, x)
  BY <1>1 DEF ClaimException, ReleaseException, AddExceptionNote, SubmitResolution
<1>2. CASE \/ \E i \in DOMAIN suggestions[e], d \in {"accepted", "partially_accepted", "rejected"} :
                AdoptAiSuggestion(u, e, i, d, x)
           \/ \E required \in BOOLEAN : AddInvestigationItem(u, e, required, x)
           \/ \E i \in items[e], new \in ItemStatuses : UpdateInvestigationItem(u, e, i, new, x)
  <2>1. OwnerInvestigates(e, u) /\ UNCHANGED status
    BY <1>2 DEF AdoptAiSuggestion, AddInvestigationItem, UpdateInvestigationItem
  <2> QED
    BY <2>1 DEF OwnerInvestigates
<1>3. CASE Review(u, e, x)
  <2>1. UNCHANGED items /\ status[e] = "pending_review"
    BY <1>3 DEF Review, ApproveResolution, RejectResolution, DecidesProposal
  <2> QED
    BY <2>1
<1> QED
  BY <1>1, <1>2, <1>3 DEF Work

LEMMA FinishedStep == TypeOK /\ ReviewedWorkIsFinished /\ [Next]_vars => ReviewedWorkIsFinished'
<1> SUFFICES ASSUME TypeOK, ReviewedWorkIsFinished, [Next]_vars, NEW y \in Exceptions,
                    status'[y] \in {"pending_review", "resolved"}
             PROVE  OpenRequiredItems(y)'  = {}
  BY DEF ReviewedWorkIsFinished, OpenRequiredItems
<1>1. ASSUME status'[y] = status[y], items'[y] = items[y] PROVE OpenRequiredItems(y)' = {}
  BY <1>1 DEF ReviewedWorkIsFinished, OpenRequiredItems
<1>2. CASE Environment \/ UNCHANGED vars
  BY <1>1, <1>2, EnvironmentAddsSuggestions DEF rowVars, checklistVars
<1>3. ASSUME NEW u \in Users, NEW e \in Exceptions, NEW x \in 0..MaxVersion,
             Work(u, e, x) \/ Review(u, e, x)
      PROVE  OpenRequiredItems(y)' = {}
  <2>1. CASE y # e
    BY <1>1, <1>3, <2>1, WorkHandles, ReviewHandles DEF HandlesOnly
  <2>2. CASE y = e
    <3>1. items'[y] = items[y]
      BY <1>3, <2>2, ItemsAndStatus
    <3>2. OpenRequiredItems(y) = {}
      BY <1>3, <2>2, ItemsAndStatus DEF ReviewedWorkIsFinished
    <3> QED
      BY <3>1, <3>2 DEF OpenRequiredItems
  <2> QED
    BY <2>1, <2>2
<1> QED
  BY <1>2, <1>3 DEF Next

(* Nothing is under review or resolved with an open required item: not     *)
(* even one that was done when the proposal was made and reopened since.   *)
THEOREM ReviewedWorkAlwaysFinished == Spec => []ReviewedWorkIsFinished
<1>1. Init => ReviewedWorkIsFinished
  BY DEF Init, ReviewedWorkIsFinished
<1> QED
  BY <1>1, FinishedStep, WorkflowTypeCorrect, PTL DEF Spec

(* ChecklistFollowsAdoptions is inductive together with the source of each *)
(* adoption: a stored suggestion, whose steps it chose from.               *)
ChecklistFits(e) ==
  /\ \A a \in adoptions[e] : a.suggestion \in DOMAIN suggestions[e]
                             /\ a.steps \subseteq Range(suggestions[e][a.suggestion])
  /\ \A a, b \in adoptions[e] : a.suggestion = b.suggestion => a = b
  /\ \A t \in items[e] : t.suggestion # 0 =>
       t.required /\ \E a \in adoptions[e] : a.suggestion = t.suggestion /\ t.id \in a.steps
  /\ \A a \in adoptions[e] : \A s \in a.steps :
       \E t \in items[e] : t.suggestion = a.suggestion /\ t.id = s
  /\ \A t, w \in items[e] : t.suggestion # 0 /\ t.suggestion = w.suggestion /\ t.id = w.id => t = w

ChecklistInv == TypeOK /\ \A e \in Exceptions : ChecklistFits(e)

(* A step that touches neither items nor adoptions of an exception, and at *)
(* most appends a suggestion.                                              *)
LEMMA NeutralKeepsChecklist ==
  ASSUME TypeOK, NEW e \in Exceptions, ChecklistFits(e),
         items'[e] = items[e], adoptions'[e] = adoptions[e],
         suggestions'[e] = suggestions[e] \/ \E s \in Replies : suggestions'[e] = Append(suggestions[e], s)
  PROVE  ChecklistFits(e)'
<1>1. suggestions[e] \in Seq(Replies)
  BY DEF TypeOK
<1>2. \A i \in DOMAIN suggestions[e] : i \in DOMAIN suggestions'[e] /\ suggestions'[e][i] = suggestions[e][i]
  BY <1>1
<1> QED
  BY <1>2 DEF ChecklistFits

(* The items of an adoption: one per step, required, of its suggestion.    *)
LEMMA ItemsOfAdoption ==
  ASSUME NEW i, NEW steps
  PROVE  /\ \A t \in ItemsFrom(i, steps) : t.suggestion = i /\ t.required /\ t.id \in steps
         /\ \A s \in steps : \E t \in ItemsFrom(i, steps) : t.suggestion = i /\ t.id = s
         /\ \A t, w \in ItemsFrom(i, steps) : t.id = w.id => t = w
<1> DEFINE item(s) == [id |-> s, suggestion |-> i, required |-> TRUE, status |-> "todo"]
<1>1. ItemsFrom(i, steps) = {item(s) : s \in steps}
  BY DEF ItemsFrom
<1>2. \A s \in steps : item(s).suggestion = i /\ item(s).required /\ item(s).id = s
  OBVIOUS
<1> HIDE DEF item
<1> QED
  BY <1>1, <1>2

LEMMA AdoptKeepsChecklist ==
  ASSUME TypeOK, NEW e \in Exceptions, ChecklistFits(e), NEW u \in Users, NEW x \in 0..MaxVersion,
         NEW i \in DOMAIN suggestions[e], NEW d \in {"accepted", "partially_accepted", "rejected"},
         AdoptAiSuggestion(u, e, i, d, x)
  PROVE  ChecklistFits(e)'
<1>1. PICK steps \in ChosenSteps(d, Range(suggestions[e][i])) :
        /\ adoptions' = [adoptions EXCEPT ![e] = @ \cup
                           {[suggestion |-> i, decision |-> d, steps |-> steps]}]
        /\ items' = [items EXCEPT ![e] = @ \cup ItemsFrom(i, steps)]
  BY DEF AdoptAiSuggestion
<1>2. suggestions' = suggestions /\ ~\E a \in adoptions[e] : a.suggestion = i
  BY DEF AdoptAiSuggestion
<1>3. steps \subseteq Range(suggestions[e][i])
  BY <1>1 DEF ChosenSteps
<1>4. i # 0
  <2>1. suggestions[e] \in Seq(Replies)
    BY DEF TypeOK
  <2> QED
    BY <2>1
<1> DEFINE a == [suggestion |-> i, decision |-> d, steps |-> steps]
<1>5. adoptions'[e] = adoptions[e] \cup {a} /\ a.suggestion = i /\ a.steps = steps
  BY <1>1 DEF TypeOK
<1> HIDE DEF a
<1>6. items'[e] = items[e] \cup ItemsFrom(i, steps)
  BY <1>1 DEF TypeOK
<1>7. /\ \A t \in ItemsFrom(i, steps) : t.suggestion = i /\ t.required /\ t.id \in steps
      /\ \A s \in steps : \E t \in ItemsFrom(i, steps) : t.suggestion = i /\ t.id = s
      /\ \A t, w \in ItemsFrom(i, steps) : t.id = w.id => t = w
  BY ItemsOfAdoption
<1>8. \A t \in items[e] : t.suggestion # i
  BY <1>2, <1>4 DEF ChecklistFits
<1>9. /\ \A c \in adoptions'[e] : c.suggestion \in DOMAIN suggestions'[e]
                                  /\ c.steps \subseteq Range(suggestions'[e][c.suggestion])
      /\ \A b, c \in adoptions'[e] : b.suggestion = c.suggestion => b = c
  BY <1>2, <1>3, <1>5 DEF ChecklistFits
<1>10. \A t \in items'[e] : t.suggestion # 0 =>
         t.required /\ \E c \in adoptions'[e] : c.suggestion = t.suggestion /\ t.id \in c.steps
  BY <1>5, <1>6, <1>7 DEF ChecklistFits
<1>11. \A c \in adoptions'[e] : \A s \in c.steps :
         \E t \in items'[e] : t.suggestion = c.suggestion /\ t.id = s
  BY <1>5, <1>6, <1>7 DEF ChecklistFits
<1>12. \A t, w \in items'[e] :
         t.suggestion # 0 /\ t.suggestion = w.suggestion /\ t.id = w.id => t = w
  BY <1>6, <1>7, <1>8 DEF ChecklistFits
<1> QED
  BY <1>9, <1>10, <1>11, <1>12 DEF ChecklistFits

LEMMA ItemKeepsChecklist ==
  ASSUME TypeOK, NEW e \in Exceptions, ChecklistFits(e), NEW u \in Users, NEW x \in 0..MaxVersion,
         \/ \E required \in BOOLEAN : AddInvestigationItem(u, e, required, x)
         \/ \E i \in items[e], new \in ItemStatuses : UpdateInvestigationItem(u, e, i, new, x)
  PROVE  ChecklistFits(e)'
<1>1. UNCHANGED <<adoptions, suggestions>>
  BY DEF AddInvestigationItem, UpdateInvestigationItem
<1>2. CASE \E required \in BOOLEAN : AddInvestigationItem(u, e, required, x)
  <2>1. PICK required \in BOOLEAN : AddInvestigationItem(u, e, required, x)
    BY <1>2
  <2> DEFINE t == [id |-> x, suggestion |-> 0, required |-> required, status |-> "todo"]
  <2>2. items'[e] = items[e] \cup {t} /\ t.suggestion = 0
    BY <2>1 DEF TypeOK, AddInvestigationItem, LockedException
  <2> HIDE DEF t
  <2> QED
    BY <1>1, <2>2 DEF ChecklistFits
<1>3. CASE \E i \in items[e], new \in ItemStatuses : UpdateInvestigationItem(u, e, i, new, x)
  <2>1. PICK i \in items[e], new \in ItemStatuses : UpdateInvestigationItem(u, e, i, new, x)
    BY <1>3
  <2> DEFINE t == [i EXCEPT !.status = new]
  <2>2. items' = [items EXCEPT ![e] = (@ \ {i}) \cup {t}]
    BY <2>1 DEF UpdateInvestigationItem
  <2>3. i \in Item
    BY DEF TypeOK
  <2>4. t.id = i.id /\ t.suggestion = i.suggestion /\ t.required = i.required
    BY <2>3 DEF Item
  <2> HIDE DEF t
  <2>5. items'[e] = (items[e] \ {i}) \cup {t}
    BY <2>2 DEF TypeOK
  <2> QED
    BY <1>1, <2>4, <2>5 DEF ChecklistFits
<1> QED
  BY <1>2, <1>3

LEMMA ChecklistStep == ChecklistInv /\ [Next]_vars => ChecklistInv'
<1> SUFFICES ASSUME TypeOK, \A e \in Exceptions : ChecklistFits(e), [Next]_vars,
                    NEW y \in Exceptions
             PROVE  ChecklistFits(y)'
  BY TypedStep DEF ChecklistInv
<1>1. CASE Environment \/ UNCHANGED vars
  BY <1>1, EnvironmentAddsSuggestions, NeutralKeepsChecklist DEF checklistVars
<1>2. ASSUME NEW u \in Users, NEW e \in Exceptions, NEW x \in 0..MaxVersion,
             Work(u, e, x) \/ Review(u, e, x)
      PROVE  ChecklistFits(y)'
  <2>1. CASE y # e
    <3>1. items'[y] = items[y] /\ adoptions'[y] = adoptions[y] /\ suggestions'[y] = suggestions[y]
      BY <1>2, <2>1, WorkHandles, ReviewHandles DEF HandlesOnly
    <3> QED
      BY <3>1, NeutralKeepsChecklist
  <2>2. CASE /\ y = e
             /\ \/ \E i \in DOMAIN suggestions[e], d \in {"accepted", "partially_accepted", "rejected"} :
                     AdoptAiSuggestion(u, e, i, d, x)
                \/ \E required \in BOOLEAN : AddInvestigationItem(u, e, required, x)
                \/ \E i \in items[e], new \in ItemStatuses : UpdateInvestigationItem(u, e, i, new, x)
    BY <2>2, AdoptKeepsChecklist, ItemKeepsChecklist
  <2>3. CASE /\ y = e
             /\ \/ \E a \in Users : ClaimException(u, a, e, x)
                \/ ReleaseException(u, e, x) \/ AddExceptionNote(u, e, x)
                \/ \E r \in Runs \cup {NoRun} : SubmitResolution(u, e, r, x)
                \/ Review(u, e, x)
    <3>1. UNCHANGED <<checklistVars, suggestions>>
      BY <2>3 DEF ClaimException, ReleaseException, AddExceptionNote, SubmitResolution,
                  Review, ApproveResolution, RejectResolution
    <3> QED
      BY <3>1, NeutralKeepsChecklist DEF checklistVars
  <2> QED
    BY <1>2, <2>1, <2>2, <2>3 DEF Work
<1> QED
  BY <1>1, <1>2 DEF Next

(* The items of a suggestion are as many as their steps: two of them never *)
(* carry the same step, and a sequence has finitely many.                  *)
LEMMA ListedOncePerStep ==
  ASSUME TypeOK, NEW e \in Exceptions, ChecklistFits(e), NEW i \in DOMAIN suggestions[e],
         NEW listed, listed = {t \in items[e] : t.suggestion = i}
  PROVE  Cardinality(listed) = Cardinality({t.id : t \in listed})
<1> DEFINE ids == {t.id : t \in listed}
           n == Len(suggestions[e][i])
           f == [t \in listed |-> t.id]
<1>1. suggestions[e] \in Seq(Replies) /\ suggestions[e][i] \in Seq(Steps) /\ i # 0
  <2>1. suggestions[e] \in Seq(Replies)
    BY DEF TypeOK
  <2>2. suggestions[e][i] \in Replies /\ i # 0
    BY <2>1
  <2> QED
    BY <2>1, <2>2, WorkflowAssumption
<1>2. ids \subseteq Range(suggestions[e][i])
  BY <1>1 DEF ChecklistFits
<1>3. IsFiniteSet(Range(suggestions[e][i]))
  <2>1. n \in Nat /\ DOMAIN suggestions[e][i] = 1..n
    BY <1>1
  <2>2. IsFiniteSet(1..n)
    BY <2>1, FS_Interval
  <2>3. suggestions[e][i] \in Surjection(1..n, Range(suggestions[e][i]))
    BY <1>1, <2>1 DEF Range, Surjection
  <2> QED
    BY <2>2, <2>3, FS_Surjection
<1>4. IsFiniteSet(ids)
  BY <1>2, <1>3, FS_Subset
<1>5. f \in [listed -> ids] /\ \A t, w \in listed : f[t] = f[w] => t = w
  BY <1>1 DEF ChecklistFits
<1>6. \A s \in ids : \E t \in listed : f[t] = s
  OBVIOUS
<1> HIDE DEF ids, f
<1>7. f \in Injection(listed, ids) /\ f \in Surjection(listed, ids)
  BY <1>5, <1>6 DEF Injection, IsInjective, Surjection
<1>8. Cardinality(listed) = Cardinality(ids)
  BY <1>4, <1>7, FS_Injection
<1> QED
  BY <1>8 DEF ids

LEMMA InvGivesChecklist == ChecklistInv => ChecklistFollowsAdoptions
<1> SUFFICES ASSUME ChecklistInv, NEW e \in Exceptions, NEW i \in DOMAIN suggestions[e],
                    NEW adopted, adopted = {a \in adoptions[e] : a.suggestion = i},
                    NEW listed, listed = {t \in items[e] : t.suggestion = i}
             PROVE  /\ Cardinality(adopted) <= 1
                    /\ {t.id : t \in listed} = UNION {a.steps : a \in adopted}
                    /\ Cardinality(listed) = Cardinality({t.id : t \in listed})
                    /\ \A t \in listed : t.required
  BY DEF ChecklistFollowsAdoptions
<1>1. TypeOK /\ ChecklistFits(e)
  BY DEF ChecklistInv
<1>2. i # 0
  <2>1. suggestions[e] \in Seq(Replies)
    BY <1>1 DEF TypeOK
  <2> QED
    BY <2>1
<1>3. Cardinality(adopted) <= 1
  <2>1. adopted = {} \/ \E a : adopted = {a}
    BY <1>1 DEF ChecklistFits
  <2>2. Cardinality(adopted) \in {0, 1}
    BY <2>1, FS_EmptySet, FS_Singleton, Zenon
  <2> QED
    BY <2>2
<1>4. {t.id : t \in listed} = UNION {a.steps : a \in adopted}
  BY <1>1, <1>2 DEF ChecklistFits
<1>5. \A t \in listed : t.required
  BY <1>1, <1>2 DEF ChecklistFits
<1> QED
  BY <1>1, <1>3, <1>4, <1>5, ListedOncePerStep

(* The checklist carries the steps each adoption chose, once each and      *)
(* required, whatever is adopted, added or updated in whatever order.      *)
THEOREM ChecklistAlwaysFollows == Spec => []ChecklistFollowsAdoptions
<1>1. Init => ChecklistInv
  <2> SUFFICES ASSUME Init PROVE ChecklistInv
    OBVIOUS
  <2>1. TypeOK
    BY ReviewStart DEF ReviewInv
  <2>2. \A e \in Exceptions : adoptions[e] = {} /\ items[e] = {}
    BY DEF Init
  <2> QED
    BY <2>1, <2>2 DEF ChecklistInv, ChecklistFits
<1> QED
  BY <1>1, ChecklistStep, InvGivesChecklist, PTL DEF Spec

-----------------------------------------------------------------------------
(* The audit trail.                                                        *)

Rows == [status : Statuses, assignee : Users \cup {NoUser}, resolvedBy : Users \cup {NoUser}]
NewRow == [status |-> "open", assignee |-> NoUser, resolvedBy |-> NoUser]

LEMMA ReplayTyped ==
  ASSUME NEW row \in Rows, NEW ev \in Event
  PROVE  Replay(row, ev) \in Rows
<1>1. ev.actor \in Users /\ ev.assignee \in Users \cup {NoUser}
  BY DEF Event
<1>2. \A st \in Statuses, a \in Users \cup {NoUser} :
        /\ [row EXCEPT !.status = st, !.assignee = a] \in Rows
        /\ [row EXCEPT !.status = st, !.resolvedBy = a] \in Rows
        /\ [row EXCEPT !.status = st] \in Rows
  BY DEF Rows
<1> QED
  BY <1>1, <1>2 DEF Replay, Statuses

(* g replays the events at every set of positions, the last one last.      *)
Unrolls(g, tr, base) ==
  \A s \in SUBSET DOMAIN tr :
    g[s] = IF s = {} THEN base ELSE Replay(g[s \ {Max(s)}], tr[Max(s)])

Replays(g, tr, base) == g \in [SUBSET DOMAIN tr -> Rows] /\ Unrolls(g, tr, base)

LEMMA ReplaysExists ==
  ASSUME NEW tr \in Seq(Event), NEW base \in Rows
  PROVE  \E g : Replays(g, tr, base)
<1> DEFINE D == DOMAIN tr
           c == [s \in SUBSET D |-> Max(s)]
           op == [i \in D |-> [row \in Rows |-> Replay(row, tr[i])]]
<1>1. Len(tr) \in Nat /\ D = 1..Len(tr) /\ \A i \in D : tr[i] \in Event
  OBVIOUS
<1>2. IsFiniteSet(D)
  BY <1>1, FS_Interval
<1>3. \A s \in (SUBSET D) \ {{}} : Max(s) \in s
  BY <1>1, LargestExists
<1>4. \A s \in (SUBSET D) \ {{}} : c[s] \in s
  BY <1>3
<1>5. \A i \in D : \A row \in Rows : op[i][row] \in Rows
  BY <1>1, ReplayTyped
<1> HIDE DEF c, op
<1>6. PICK g : TakesEach(g, D, Rows, base, c, op)
  BY <1>2, <1>4, <1>5, FoldExists
<1>7. ASSUME NEW s \in SUBSET D
      PROVE  g[s] = IF s = {} THEN base ELSE Replay(g[s \ {Max(s)}], tr[Max(s)])
  <2>1. g[s] = IF s = {} THEN base ELSE op[c[s]][g[s \ {c[s]}]]
    BY <1>6 DEF TakesEach
  <2>2. ASSUME s # {} PROVE op[c[s]][g[s \ {c[s]}]] = Replay(g[s \ {Max(s)}], tr[Max(s)])
    <3>1. c[s] = Max(s) /\ Max(s) \in D
      BY <1>3, <2>2 DEF c
    <3>2. g[s \ {Max(s)}] \in Rows
      BY <1>6 DEF TakesEach
    <3> QED
      BY <3>1, <3>2 DEF op
  <2> QED
    BY <2>1, <2>2
<1>8. g \in [SUBSET D -> Rows]
  BY <1>6 DEF TakesEach
<1> QED
  BY <1>7, <1>8 DEF Replays, Unrolls

(* Two replays agree on the events they have in common.                    *)
LEMMA ReplaysAgree ==
  ASSUME NEW tr \in Seq(Event), NEW ur \in Seq(Event), NEW base,
         NEW g, Unrolls(g, tr, base), NEW h, Unrolls(h, ur, base),
         DOMAIN tr \subseteq DOMAIN ur, \A i \in DOMAIN tr : ur[i] = tr[i]
  PROVE  h[DOMAIN tr] = g[DOMAIN tr]
<1> DEFINE T == {s \in SUBSET DOMAIN tr : h[s] # g[s]}
<1>1. Len(tr) \in Nat /\ DOMAIN tr = 1..Len(tr)
  OBVIOUS
<1>2. IsFiniteSet(DOMAIN tr)
  BY <1>1, FS_Interval
<1>3. \A s \in (SUBSET DOMAIN tr) \ {{}} : Max(s) \in s
  BY <1>1, LargestExists
<1>4. ASSUME T # {} PROVE FALSE
  <2>1. T \in SUBSET SUBSET DOMAIN tr
    OBVIOUS
  <2>2. PICK s \in T : \A w \in SUBSET s : w # s => w \notin T
    <3> HIDE DEF T
    <3> QED
      BY <1>2, <1>4, <2>1, SmallestSubset
  <2>3. s # {}
    BY <2>2 DEF Unrolls
  <2>4. Max(s) \in s
    BY <1>3, <2>2, <2>3
  <2>5. h[s \ {Max(s)}] = g[s \ {Max(s)}]
    BY <2>2, <2>4
  <2>6. g[s] = Replay(g[s \ {Max(s)}], tr[Max(s)]) /\ h[s] = Replay(h[s \ {Max(s)}], ur[Max(s)])
    BY <2>2, <2>3 DEF Unrolls
  <2> QED
    BY <2>2, <2>4, <2>5, <2>6
<1> QED
  BY <1>4

LEMMA FoldReplays ==
  ASSUME NEW tr \in Seq(Event), NEW base, NEW g, Replays(g, tr, base)
  PROVE  FoldLeft(Replay, base, tr) = g[DOMAIN tr]
<1> DEFINE it == CHOOSE it : it = [s \in SUBSET DOMAIN tr |->
                   IF s = {} THEN base ELSE Replay(it[s \ {Max(s)}], tr[Max(s)])]
<1>1. FoldLeft(Replay, base, tr) = it[DOMAIN tr]
  BY DEF FoldLeft, MapThenFoldSet
<1>2. g = [s \in SUBSET DOMAIN tr |->
             IF s = {} THEN base ELSE Replay(g[s \ {Max(s)}], tr[Max(s)])]
  BY DEF Replays, Unrolls
<1>3. it = [s \in SUBSET DOMAIN tr |->
              IF s = {} THEN base ELSE Replay(it[s \ {Max(s)}], tr[Max(s)])]
  BY <1>2
<1> HIDE DEF it
<1>4. Unrolls(it, tr, base)
  BY <1>3 DEF Unrolls
<1>5. Unrolls(g, tr, base) /\ DOMAIN tr \subseteq DOMAIN tr /\ \A i \in DOMAIN tr : tr[i] = tr[i]
  BY DEF Replays
<1>6. it[DOMAIN tr] = g[DOMAIN tr]
  BY <1>4, <1>5, ReplaysAgree
<1> QED
  BY <1>1, <1>6

(* Replaying one event more is replaying it after the others.              *)
LEMMA ReplayAppended ==
  ASSUME NEW tr \in Seq(Event), NEW ev \in Event
  PROVE  /\ FoldLeft(Replay, NewRow, tr) \in Rows
         /\ FoldLeft(Replay, NewRow, Append(tr, ev)) = Replay(FoldLeft(Replay, NewRow, tr), ev)
<1> DEFINE n == Len(tr)
           ur == Append(tr, ev)
<1>1. /\ n \in Nat /\ DOMAIN tr = 1..n
      /\ ur \in Seq(Event) /\ DOMAIN ur = 1..(n + 1) /\ ur[n + 1] = ev
      /\ \A i \in 1..n : ur[i] = tr[i]
  OBVIOUS
<1>2. NewRow \in Rows
  BY DEF NewRow, Rows, Statuses
<1>3. PICK g : Replays(g, tr, NewRow)
  BY <1>2, ReplaysExists
<1>4. PICK h : Replays(h, ur, NewRow)
  BY <1>1, <1>2, ReplaysExists
<1> HIDE DEF ur
<1>5. h[1..n] = g[1..n]
  <2>1. Unrolls(g, tr, NewRow) /\ Unrolls(h, ur, NewRow)
    BY <1>3, <1>4 DEF Replays
  <2>2. DOMAIN tr \subseteq DOMAIN ur /\ \A i \in DOMAIN tr : ur[i] = tr[i]
    BY <1>1
  <2>3. h[DOMAIN tr] = g[DOMAIN tr]
    BY <1>1, <2>1, <2>2, ReplaysAgree
  <2> QED
    BY <1>1, <2>3
<1>6. Max(1..(n + 1)) = n + 1
  <2>1. 1..(n + 1) # {} /\ n + 1 \in Nat
    BY <1>1
  <2>2. Max(1..(n + 1)) \in 1..(n + 1) /\ \A y \in 1..(n + 1) : Max(1..(n + 1)) >= y
    BY <2>1, LargestExists
  <2> QED
    BY <1>1, <2>2
<1>7. (1..(n + 1)) \ {n + 1} = 1..n
  BY <1>1
<1>8. h[1..(n + 1)] = Replay(h[1..n], ev)
  BY <1>1, <1>4, <1>6, <1>7 DEF Replays, Unrolls
<1>9. FoldLeft(Replay, NewRow, tr) = g[1..n] /\ FoldLeft(Replay, NewRow, ur) = h[1..(n + 1)]
  BY <1>1, <1>3, <1>4, FoldReplays
<1>10. g[1..n] \in Rows
  BY <1>1, <1>3 DEF Replays
<1> QED
  BY <1>5, <1>8, <1>9, <1>10 DEF ur

LEMMA ReplayNothing == FoldLeft(Replay, NewRow, <<>>) = NewRow
<1>1. <<>> \in Seq(Event) /\ DOMAIN <<>> = {}
  OBVIOUS
<1>2. NewRow \in Rows
  BY DEF NewRow, Rows, Statuses
<1>3. PICK g : Replays(g, <<>>, NewRow)
  BY <1>1, <1>2, ReplaysExists
<1> QED
  BY <1>1, <1>3, FoldReplays DEF Replays, Unrolls

(* Rows and audit rows under a name, for the provers.                      *)
RowOf(s, o, r) == [status |-> s, assignee |-> o, resolvedBy |-> r]
Told(action, u, a) == [action |-> action, actor |-> u, assignee |-> a]

Row(e) == RowOf(status[e], assignee[e], resolvedBy[e])

(* What each kind of audit row does to a row.                              *)
LEMMA ReplayedRow ==
  ASSUME NEW s, NEW o, NEW r, NEW u, NEW a
  PROVE  /\ Replay(RowOf(s, o, r), Told("claimed", u, a)) = RowOf("investigating", a, r)
         /\ Replay(RowOf(s, o, r), Told("released", u, a)) = RowOf("open", NoUser, r)
         /\ Replay(RowOf(s, o, r), Told("submitted", u, a)) = RowOf("pending_review", o, r)
         /\ Replay(RowOf(s, o, r), Told("approved", u, a)) = RowOf("resolved", o, u)
         /\ Replay(RowOf(s, o, r), Told("rejected", u, a)) = RowOf("investigating", o, r)
         /\ \A action \in {"note_added", "ai_adoption_recorded", "item_added", "item_updated"} :
              Replay(RowOf(s, o, r), Told(action, u, a)) = RowOf(s, o, r)
BY DEF Replay, RowOf, Told

(* The audit row of a step tells what the step did to the exception row.   *)
TellsStep(e) ==
  \E ev \in Event :
    /\ trail' = [trail EXCEPT ![e] = Append(@, ev)]
    /\ status'[e] = Replay(Row(e), ev).status
    /\ assignee'[e] = Replay(Row(e), ev).assignee
    /\ resolvedBy'[e] = Replay(Row(e), ev).resolvedBy

LEMMA RecordsTell ==
  ASSUME NEW e \in Exceptions, NEW action, NEW u \in Users, NEW a \in Users \cup {NoUser},
         action \in {"claimed", "released", "note_added", "submitted", "approved", "rejected",
                     "ai_adoption_recorded", "item_added", "item_updated"},
         Records(e, action, u, a),
         NEW s, NEW o, NEW r,
         Replay(Row(e), Told(action, u, a)) = RowOf(s, o, r),
         status'[e] = s /\ assignee'[e] = o /\ resolvedBy'[e] = r
  PROVE  TellsStep(e)
<1> DEFINE ev == Told(action, u, a)
<1>1. ev \in Event
  BY DEF Event, Told
<1>2. trail' = [trail EXCEPT ![e] = Append(@, ev)]
  BY DEF Records, Told
<1>3. Replay(Row(e), ev).status = s /\ Replay(Row(e), ev).assignee = o
      /\ Replay(Row(e), ev).resolvedBy = r
  BY DEF RowOf
<1> HIDE DEF ev
<1> QED
  BY <1>1, <1>2, <1>3 DEF TellsStep

LEMMA WorkTells ==
  ASSUME TypeOK, NEW u \in Users, NEW e \in Exceptions, NEW x \in 0..MaxVersion, Work(u, e, x)
  PROVE  TellsStep(e)
<1> DEFINE After(action, a) == Replay(Row(e), Told(action, u, a))
<1>1. ASSUME NEW a \in Users, ClaimException(u, a, e, x) PROVE TellsStep(e)
  <2>1. After("claimed", a) = RowOf("investigating", a, resolvedBy[e])
    BY ReplayedRow DEF Row
  <2>2. status'[e] = "investigating" /\ assignee'[e] = a /\ resolvedBy'[e] = resolvedBy[e]
    BY <1>1 DEF ClaimException, TypeOK
  <2>3. Records(e, "claimed", u, a)
    BY <1>1 DEF ClaimException
  <2> QED
    BY <2>1, <2>2, <2>3, RecordsTell
<1>2. ASSUME ReleaseException(u, e, x) PROVE TellsStep(e)
  <2>1. After("released", NoUser) = RowOf("open", NoUser, resolvedBy[e])
    BY ReplayedRow DEF Row
  <2>2. status'[e] = "open" /\ assignee'[e] = NoUser /\ resolvedBy'[e] = resolvedBy[e]
    BY <1>2 DEF ReleaseException, TypeOK
  <2>3. Records(e, "released", u, NoUser)
    BY <1>2 DEF ReleaseException
  <2> QED
    BY <2>1, <2>2, <2>3, RecordsTell
<1>3. ASSUME NEW r \in Runs \cup {NoRun}, SubmitResolution(u, e, r, x) PROVE TellsStep(e)
  <2>1. After("submitted", NoUser) =
          RowOf("pending_review", assignee[e], resolvedBy[e])
    BY ReplayedRow DEF Row
  <2>2. status'[e] = "pending_review" /\ assignee'[e] = assignee[e] /\ resolvedBy'[e] = resolvedBy[e]
    BY <1>3 DEF SubmitResolution, TypeOK
  <2>3. Records(e, "submitted", u, NoUser)
    BY <1>3 DEF SubmitResolution
  <2> QED
    BY <2>1, <2>2, <2>3, RecordsTell
<1>4. ASSUME NEW action \in {"note_added", "ai_adoption_recorded", "item_added", "item_updated"},
             Records(e, action, u, NoUser), UNCHANGED rowVars
      PROVE  TellsStep(e)
  <2>1. After(action, NoUser) =
          RowOf(status[e], assignee[e], resolvedBy[e])
    BY ReplayedRow DEF Row
  <2>2. status'[e] = status[e] /\ assignee'[e] = assignee[e] /\ resolvedBy'[e] = resolvedBy[e]
    BY <1>4 DEF rowVars
  <2> QED
    BY <1>4, <2>1, <2>2, RecordsTell
<1>5. ASSUME AddExceptionNote(u, e, x) PROVE TellsStep(e)
  BY <1>4, <1>5 DEF AddExceptionNote
<1>6. ASSUME NEW i \in DOMAIN suggestions[e], NEW d \in {"accepted", "partially_accepted", "rejected"},
             AdoptAiSuggestion(u, e, i, d, x)
      PROVE  TellsStep(e)
  BY <1>4, <1>6 DEF AdoptAiSuggestion
<1>7. ASSUME NEW required \in BOOLEAN, AddInvestigationItem(u, e, required, x) PROVE TellsStep(e)
  BY <1>4, <1>7 DEF AddInvestigationItem
<1>8. ASSUME NEW i \in items[e], NEW new \in ItemStatuses, UpdateInvestigationItem(u, e, i, new, x)
      PROVE  TellsStep(e)
  BY <1>4, <1>8 DEF UpdateInvestigationItem
<1> QED
  BY <1>1, <1>2, <1>3, <1>5, <1>6, <1>7, <1>8 DEF Work

(* A rejection erases resolved_by without an audit field for it: the trail *)
(* still tells the row because an exception under review has no resolver.  *)
LEMMA ReviewTells ==
  ASSUME TypeOK, ResolvedByIndependentReview,
         NEW u \in Users, NEW e \in Exceptions, NEW x \in 0..MaxVersion, Review(u, e, x)
  PROVE  TellsStep(e)
<1> DEFINE After(action) == Replay(Row(e), Told(action, u, NoUser))
<1>1. PICK n \in DOMAIN proposals[e] : ApproveResolution(u, e, n, x) \/ RejectResolution(u, e, n, x)
  BY DEF Review
<1>2. CASE ApproveResolution(u, e, n, x)
  <2>1. After("approved") = RowOf("resolved", assignee[e], u)
    BY ReplayedRow DEF Row
  <2>2. status'[e] = "resolved" /\ assignee'[e] = assignee[e] /\ resolvedBy'[e] = u
    BY <1>2 DEF ApproveResolution, TypeOK
  <2>3. Records(e, "approved", u, NoUser)
    BY <1>2 DEF ApproveResolution
  <2> QED
    BY <2>1, <2>2, <2>3, RecordsTell
<1>3. CASE RejectResolution(u, e, n, x)
  <2>1. After("rejected") =
          RowOf("investigating", assignee[e], resolvedBy[e])
    BY ReplayedRow DEF Row
  <2>2. resolvedBy[e] = NoUser
    <3>1. status[e] # "resolved"
      BY <1>3 DEF RejectResolution, DecidesProposal
    <3> QED
      BY <3>1 DEF ResolvedByIndependentReview
  <2>3. status'[e] = "investigating" /\ assignee'[e] = assignee[e] /\ resolvedBy'[e] = NoUser
    BY <1>3 DEF RejectResolution, TypeOK
  <2>4. Records(e, "rejected", u, NoUser)
    BY <1>3 DEF RejectResolution
  <2> QED
    BY <2>1, <2>2, <2>3, <2>4, RecordsTell
<1> QED
  BY <1>1, <1>2, <1>3

Explains(e) == FoldLeft(Replay, NewRow, trail[e]) = Row(e) /\ Len(trail[e]) = version[e]

(* A handler that tells its step keeps the explanation.                    *)
LEMMA TellsKeepsExplained ==
  ASSUME TypeOK, NEW e \in Exceptions, Explains(e), TellsStep(e),
         version' = [version EXCEPT ![e] = @ + 1]
  PROVE  Explains(e)'
<1>1. PICK ev \in Event :
        /\ trail' = [trail EXCEPT ![e] = Append(@, ev)]
        /\ status'[e] = Replay(Row(e), ev).status
        /\ assignee'[e] = Replay(Row(e), ev).assignee
        /\ resolvedBy'[e] = Replay(Row(e), ev).resolvedBy
  BY DEF TellsStep
<1>2. trail[e] \in Seq(Event) /\ trail'[e] = Append(trail[e], ev) /\ version'[e] = version[e] + 1
  BY <1>1 DEF TypeOK
<1>3. Row(e) \in Rows
  BY DEF Row, RowOf, Rows, TypeOK
<1>4. Replay(Row(e), ev) \in Rows
  BY <1>3, ReplayTyped
<1>5. Row(e)' = Replay(Row(e), ev)
  <2>1. \A row \in Rows : row = [status |-> row.status, assignee |-> row.assignee,
                                 resolvedBy |-> row.resolvedBy]
    BY DEF Rows
  <2>2. Row(e)' = [status |-> status'[e], assignee |-> assignee'[e], resolvedBy |-> resolvedBy'[e]]
    BY DEF Row, RowOf
  <2> QED
    BY <1>1, <1>4, <2>1, <2>2
<1>6. FoldLeft(Replay, NewRow, Append(trail[e], ev)) = Replay(Row(e), ev)
  <2>1. FoldLeft(Replay, NewRow, Append(trail[e], ev)) = Replay(FoldLeft(Replay, NewRow, trail[e]), ev)
    BY <1>2, ReplayAppended
  <2> QED
    BY <2>1 DEF Explains
<1>7. Len(Append(trail[e], ev)) = version[e] + 1
  BY <1>2 DEF Explains
<1> QED
  BY <1>2, <1>5, <1>6, <1>7 DEF Explains

LEMMA ExplainedStep ==
  ReviewInv /\ (\A e \in Exceptions : Explains(e)) /\ [Next]_vars => (\A e \in Exceptions : Explains(e))'
<1> SUFFICES ASSUME ReviewInv, \A e \in Exceptions : Explains(e), [Next]_vars, NEW y \in Exceptions
             PROVE  Explains(y)'
  OBVIOUS
<1>1. TypeOK /\ ResolvedByIndependentReview
  BY DEF ReviewInv
<1>2. ASSUME status'[y] = status[y], assignee'[y] = assignee[y], resolvedBy'[y] = resolvedBy[y],
             trail'[y] = trail[y], version'[y] = version[y]
      PROVE  Explains(y)'
  BY <1>2 DEF Explains, Row
<1>3. ASSUME NEW u \in Users, NEW e \in Exceptions, NEW x \in 0..MaxVersion,
             Work(u, e, x) \/ Review(u, e, x)
      PROVE  Explains(y)'
  <2>1. HandlesOnly(e) /\ TellsStep(e)
    BY <1>1, <1>3, WorkHandles, ReviewHandles, WorkTells, ReviewTells
  <2>2. CASE y = e
    BY <1>1, <2>1, <2>2, TellsKeepsExplained DEF HandlesOnly
  <2>3. CASE y # e
    <3>1. trail'[y] = trail[y] /\ version'[y] = version[y]
      BY <1>1, <2>1, <2>3 DEF HandlesOnly, TypeOK
    <3> QED
      BY <1>2, <2>1, <2>3, <3>1 DEF HandlesOnly
  <2> QED
    BY <2>2, <2>3
<1>4. CASE Environment \/ UNCHANGED vars
  BY <1>1, <1>2, <1>4, EnvironmentAddsSuggestions DEF rowVars
<1> QED
  BY <1>3, <1>4 DEF Next

(* The append-only audit trail alone explains the exception row:           *)
(* replaying what the handlers of src/exception-service.mjs recorded gives *)
(* status, owner and resolver, and one row was recorded per version.       *)
THEOREM TrailAlwaysExplainsRow == Spec => []TrailExplainsRow
<1>1. Init => \A e \in Exceptions : Explains(e)
  BY ReplayNothing DEF Init, Explains, Row, RowOf, NewRow
<1>2. (\A e \in Exceptions : Explains(e)) => TrailExplainsRow
  BY DEF Explains, TrailExplainsRow, Row, RowOf, NewRow
<1> QED
  BY <1>1, <1>2, ReviewStart, ReviewStep, ExplainedStep, PTL DEF Spec

-----------------------------------------------------------------------------
(* The workflow implements the ledger the period close is built on.  The   *)
(* outcome of an exception is a function of proposals and decisions; with  *)
(* the invariant of the workflow it is Unresolved exactly while the status *)
(* is not 'resolved', so the workflow's check of a replacement run is the  *)
(* ledger's.                                                               *)

(* A resolved exception has the outcome its newest proposal names; any     *)
(* other has none.                                                         *)
OutcomesFollowStatus ==
  \A e \in Exceptions :
    Outcome(e) = IF status[e] = "resolved"
                 THEN proposals[e][Len(proposals[e])].replacement
                 ELSE Unresolved

LEMMA OutcomeFollowsStatus == ReviewInv => OutcomesFollowStatus
<1> SUFFICES ASSUME ReviewInv, NEW e \in Exceptions
             PROVE  Outcome(e) = IF status[e] = "resolved"
                                 THEN proposals[e][Len(proposals[e])].replacement
                                 ELSE Unresolved
  BY DEF OutcomesFollowStatus
<1>1. CASE status[e] = "resolved"
  <2> DEFINE d == [exc |-> e, proposal |-> Len(proposals[e]), verdict |-> "approved",
                   by |-> resolvedBy[e]]
  <2>1. {x \in decisions : x.exc = e /\ x.verdict = "approved"} = {d}
    BY <1>1 DEF ReviewInv, ResolvedByIndependentReview, DecidedBy
  <2>2. d.proposal = Len(proposals[e])
    OBVIOUS
  <2> HIDE DEF d
  <2>3. d \in decisions /\ d.exc = e /\ d.verdict = "approved"
    BY <2>1
  <2>4. (CHOOSE x \in decisions : x.exc = e /\ x.verdict = "approved") = d
    BY <2>1, <2>3
  <2> QED
    BY <1>1, <2>2, <2>3, <2>4 DEF Outcome
<1>2. CASE status[e] # "resolved"
  <2>1. {x \in decisions : x.exc = e /\ x.verdict = "approved"} = {}
    BY <1>2 DEF ReviewInv, ResolvedByIndependentReview, DecidedBy
  <2>2. ~\E x \in decisions : x.exc = e /\ x.verdict = "approved"
    BY <2>1
  <2> QED
    BY <1>2, <2>2 DEF Outcome
<1> QED
  BY <1>1, <1>2

(* The replacement of a stored proposal is a run or NULL, never the mark   *)
(* of an exception without outcome.                                        *)
LEMMA ResolvedHasOutcome ==
  ASSUME ReviewInv, NEW e \in Exceptions
  PROVE  status[e] = "resolved" <=> Outcome(e) # Unresolved
<1>1. CASE status[e] = "resolved"
  <2>1. Len(proposals[e]) \in DOMAIN proposals[e] /\ proposals[e] \in Seq(Proposal)
    BY <1>1 DEF ReviewInv, ResolvedByIndependentReview, TypeOK
  <2>2. proposals[e][Len(proposals[e])] \in Proposal
    BY <2>1
  <2>3. proposals[e][Len(proposals[e])].replacement \in Runs \cup {NoRun}
    BY <2>2 DEF Proposal
  <2> QED
    BY <1>1, <2>3, OutcomeFollowsStatus, WorkflowAssumption DEF OutcomesFollowStatus
<1>2. CASE status[e] # "resolved"
  BY <1>2, OutcomeFollowsStatus DEF OutcomesFollowStatus
<1> QED
  BY <1>1, <1>2

LEMMA CleanIsLedgerClean ==
  ASSUME ReviewInv, NEW r \in Runs
  PROVE  Clean(r) <=> Ledger!Clean(r)
BY ResolvedHasOutcome DEF Clean, Ledger!Clean

(* The check of a replacement run is the ledger's.                         *)
LEMMA ValidIsLedgerValid ==
  ASSUME ReviewInv, NEW e \in Exceptions, NEW r \in Runs
  PROVE  ValidReplacement(e, r) <=> Ledger!ValidReplacement(e, r)
BY CleanIsLedgerClean DEF ValidReplacement, Ledger!ValidReplacement

(* Outcomes only change with the status or the proposals of a resolved     *)
(* exception.                                                              *)
LEMMA OutcomeStays ==
  ASSUME ReviewInv, ReviewInv', NEW e \in Exceptions,
         \/ status'[e] # "resolved" /\ status[e] # "resolved"
         \/ status'[e] = status[e] /\ proposals'[e] = proposals[e]
  PROVE  Outcome(e)' = Outcome(e)
<1>1. OutcomesFollowStatus
  BY OutcomeFollowsStatus
<1>2. OutcomesFollowStatus'
  BY OutcomeFollowsStatus, PTL
<1> QED
  BY <1>1, <1>2 DEF OutcomesFollowStatus

(* Nothing is resolved when the workflow starts.                           *)
LEMMA LedgerInitMapped == Init => Ledger!LedgerInit
<1> SUFFICES ASSUME Init PROVE Ledger!LedgerInit
  OBVIOUS
<1>1. decisions = {}
  BY DEF Init
<1>2. \A e \in Exceptions : Outcome(e) = Unresolved
  BY <1>1 DEF Outcome
<1> QED
  BY <1>2 DEF Init, Ledger!LedgerInit

(* A step that keeps the outcome of every exception and all runs is a      *)
(* stutter of the ledger.                                                  *)
LEMMA StutterMapped ==
  ASSUME ReviewInv, ReviewInv', UNCHANGED runStatus,
         \A e \in Exceptions : \/ status'[e] # "resolved" /\ status[e] # "resolved"
                               \/ status'[e] = status[e] /\ proposals'[e] = proposals[e]
  PROVE  UNCHANGED Ledger!ledgerVars
<1>1. \A e \in Exceptions : Outcome(e)' = Outcome(e)
  BY OutcomeStays
<1> QED
  BY <1>1 DEF Ledger!ledgerVars

(* The end of a run is the end of that run in the ledger.                  *)
LEMMA RunEndMapped ==
  ASSUME ReviewInv, ReviewInv', NEW r \in Runs, CompleteRun(r) \/ FailRun(r)
  PROVE  Ledger!CompleteRun(r) \/ Ledger!FailRun(r)
<1>1. UNCHANGED <<status, proposals>>
  BY DEF CompleteRun, FailRun, rowVars, reviewVars
<1>2. \A e \in Exceptions : Outcome(e)' = Outcome(e)
  BY <1>1, OutcomeStays
<1> QED
  BY <1>2 DEF CompleteRun, FailRun, Ledger!CompleteRun, Ledger!FailRun

(* An approval is the ledger's, in favour of the run its proposal names.   *)
LEMMA ApprovalMapped ==
  ASSUME ReviewInv, ReviewInv', NEW u \in Users, NEW e \in Exceptions,
         NEW n \in DOMAIN proposals[e], NEW x \in 0..MaxVersion, ApproveResolution(u, e, n, x)
  PROVE  \E r \in Runs \cup {NoRun} : Ledger!Approve(e, r)
<1> DEFINE r == proposals[e][n].replacement
<1>1. /\ Exists(e) /\ DecidesProposal(u, e, n, "approved")
      /\ r # NoRun => ValidReplacement(e, r)
      /\ status' = [status EXCEPT ![e] = "resolved"]
      /\ UNCHANGED <<proposals, runStatus>>
  BY DEF ApproveResolution, LockedException, runVars
<1>2. status[e] # "resolved" /\ n = Len(proposals[e])
  BY <1>1, DecisionDecides DEF DecidesProposal, Verdicts
<1>3. r \in Runs \cup {NoRun}
  <2>1. proposals[e] \in Seq(Proposal)
    BY DEF ReviewInv, TypeOK
  <2>2. proposals[e][n] \in Proposal
    BY <2>1
  <2> QED
    BY <2>2 DEF Proposal
<1>4. /\ status'[e] = "resolved"
      /\ \A y \in Exceptions : y # e => status'[y] = status[y]
  BY <1>1 DEF ReviewInv, TypeOK
<1>5. Outcome(e) = Unresolved
  BY <1>2, OutcomeFollowsStatus DEF OutcomesFollowStatus
<1>6. Outcome(e)' = r
  <2>1. OutcomesFollowStatus'
    BY OutcomeFollowsStatus, PTL
  <2> QED
    BY <2>1, <1>1, <1>2, <1>4 DEF OutcomesFollowStatus
<1>7. \A y \in Exceptions : y # e => Outcome(y)' = Outcome(y)
  BY <1>1, <1>4, OutcomeStays
<1>8. Ledger!Exists(e)
  BY <1>1 DEF Exists, Ledger!Exists
<1>9. r # NoRun => Ledger!ValidReplacement(e, r)
  BY <1>1, <1>3, ValidIsLedgerValid
<1> HIDE DEF r
<1>10. [y \in Exceptions |-> Outcome(y)]' = [[y \in Exceptions |-> Outcome(y)] EXCEPT ![e] = r]
  BY <1>6, <1>7
<1>11. Ledger!Approve(e, r)
  BY <1>1, <1>5, <1>8, <1>9, <1>10 DEF Ledger!Approve
<1> QED
  BY <1>3, <1>11

LEMMA LedgerStepMapped ==
  ReviewInv /\ ReviewInv' /\ [Next]_vars => [Ledger!LedgerNext]_(Ledger!ledgerVars)
<1> SUFFICES ASSUME ReviewInv, ReviewInv', [Next]_vars
             PROVE  Ledger!LedgerNext \/ UNCHANGED Ledger!ledgerVars
  OBVIOUS
<1>1. ASSUME NEW r \in Runs, CompleteRun(r) \/ FailRun(r) PROVE Ledger!LedgerNext
  BY <1>1, RunEndMapped DEF Ledger!LedgerNext
<1>2. CASE \/ \E u \in Users, x \in Roles : ChangeRole(u, x)
           \/ \E e \in Exceptions, steps \in Replies, x \in 0..MaxVersion : StoreSuggestion(e, steps, x)
  <2>1. UNCHANGED <<runStatus, status, proposals>>
    BY <1>2 DEF ChangeRole, StoreSuggestion, runVars, rowVars, reviewVars
  <2> QED
    BY <2>1, StutterMapped
<1>3. ASSUME NEW u \in Users, NEW e \in Exceptions, NEW x \in 0..MaxVersion, Work(u, e, x)
      PROVE  UNCHANGED Ledger!ledgerVars
  <2>1. UNCHANGED runStatus
    BY <1>3 DEF Work, ClaimException, ReleaseException, AddExceptionNote, SubmitResolution,
               AdoptAiSuggestion, AddInvestigationItem, UpdateInvestigationItem, runVars
  <2>2. ASSUME NEW y \in Exceptions
        PROVE  \/ status'[y] # "resolved" /\ status[y] # "resolved"
               \/ status'[y] = status[y] /\ proposals'[y] = proposals[y]
    <3>1. CASE \E a \in Users : ClaimException(u, a, e, x)
      BY <3>1 DEF ReviewInv, TypeOK, ClaimException, Claimable, reviewVars
    <3>2. CASE ReleaseException(u, e, x)
      BY <3>2 DEF ReviewInv, TypeOK, ReleaseException, OwnerInvestigates, reviewVars
    <3>3. CASE \E r \in Runs \cup {NoRun} : SubmitResolution(u, e, r, x)
      BY <3>3 DEF ReviewInv, TypeOK, SubmitResolution, OwnerInvestigates
    <3>4. CASE \/ AddExceptionNote(u, e, x)
               \/ \E i \in DOMAIN suggestions[e], d \in {"accepted", "partially_accepted", "rejected"} :
                    AdoptAiSuggestion(u, e, i, d, x)
               \/ \E required \in BOOLEAN : AddInvestigationItem(u, e, required, x)
               \/ \E i \in items[e], new \in ItemStatuses : UpdateInvestigationItem(u, e, i, new, x)
      BY <3>4 DEF AddExceptionNote, AdoptAiSuggestion, AddInvestigationItem,
                  UpdateInvestigationItem, rowVars, reviewVars
    <3> QED
      BY <1>3, <3>1, <3>2, <3>3, <3>4 DEF Work
  <2> QED
    BY <2>1, <2>2, StutterMapped
<1>4. ASSUME NEW u \in Users, NEW e \in Exceptions, NEW n \in DOMAIN proposals[e],
             NEW x \in 0..MaxVersion, ApproveResolution(u, e, n, x)
      PROVE  Ledger!LedgerNext
  BY <1>4, ApprovalMapped DEF Ledger!LedgerNext
<1>5. ASSUME NEW u \in Users, NEW e \in Exceptions, NEW n \in DOMAIN proposals[e],
             NEW x \in 0..MaxVersion, RejectResolution(u, e, n, x)
      PROVE  UNCHANGED Ledger!ledgerVars
  <2>1. UNCHANGED <<runStatus, proposals>>
    BY <1>5 DEF RejectResolution, runVars
  <2>2. \A y \in Exceptions : \/ status'[y] # "resolved" /\ status[y] # "resolved"
                              \/ status'[y] = status[y]
    BY <1>5 DEF ReviewInv, TypeOK, RejectResolution, DecidesProposal
  <2> QED
    BY <2>1, <2>2, StutterMapped
<1>6. CASE UNCHANGED vars
  BY <1>6, StutterMapped DEF vars, runVars, rowVars, reviewVars
<1> QED
  BY <1>1, <1>2, <1>3, <1>4, <1>5, <1>6 DEF Next, Environment, Review

(* The workflow implements the ledger: every handler is either an approval *)
(* that finds its replacement run valid, or changes no outcome.            *)
THEOREM WorkflowRefinesLedger == Spec => ImplementsLedger
<1> QED
  BY LedgerInitMapped, LedgerStepMapped, ReviewStart, ReviewStep, PTL
  DEF Spec, ImplementsLedger, Ledger!LedgerSpec

-----------------------------------------------------------------------------
(* What is proved of every ledger holds of the workflow.                   *)

Proved == INSTANCE ResolutionLedgerProofs WITH resolution <- [e \in Exceptions |-> Outcome(e)]

LEMMA LedgerIsTheProvedOne ==
  /\ Proved!LedgerAssumption
  /\ Ledger!LedgerInit => Proved!LedgerInit
  /\ [Ledger!LedgerNext]_(Ledger!ledgerVars) => [Proved!LedgerNext]_(Proved!ledgerVars)
  /\ Proved!SupersededHasClosableRun => Ledger!SupersededHasClosableRun
<1>1. Proved!LedgerAssumption
  BY WorkflowAssumption DEF Proved!LedgerAssumption
<1>2. Ledger!LedgerInit => Proved!LedgerInit
  BY DEF Ledger!LedgerInit, Proved!LedgerInit
<1>3. [Ledger!LedgerNext]_(Ledger!ledgerVars) => [Proved!LedgerNext]_(Proved!ledgerVars)
  BY DEF Ledger!LedgerNext, Ledger!CompleteRun, Ledger!FailRun, Ledger!Approve, Ledger!Exists,
         Ledger!ValidReplacement, Ledger!Clean, Ledger!ledgerVars,
         Proved!LedgerNext, Proved!CompleteRun, Proved!FailRun, Proved!Approve, Proved!Exists,
         Proved!ValidReplacement, Proved!Clean, Proved!ledgerVars
<1>4. Proved!SupersededHasClosableRun => Ledger!SupersededHasClosableRun
  BY DEF Ledger!SupersededHasClosableRun, Ledger!ClosableRun, Ledger!Clean, Ledger!Superseded,
         Ledger!Replaces, Proved!SupersededHasClosableRun, Proved!ClosableRun, Proved!Clean,
         Proved!Superseded, Proved!Replaces
<1> QED
  BY <1>1, <1>2, <1>3, <1>4

(* Through the whole four-eyes workflow: a period whose run was superseded *)
(* has a completed run without open exceptions that was not.               *)
THEOREM WorkflowLeavesClosableRun == Spec => []Ledger!SupersededHasClosableRun
<1>1. Proved!LedgerSpec => []Proved!SupersededHasClosableRun
  BY LedgerIsTheProvedOne, Proved!SupersededAlwaysHasClosableRun
<1> QED
  BY <1>1, WorkflowRefinesLedger, LedgerIsTheProvedOne, PTL
  DEF ImplementsLedger, Ledger!LedgerSpec, Proved!LedgerSpec
===============================================================================
