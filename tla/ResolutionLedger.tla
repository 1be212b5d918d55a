--------------------------- MODULE ResolutionLedger ---------------------------
(***************************************************************************)
(* What the exception workflow promises to the period close, and nothing   *)
(* else: reconciliation runs end, each leaves its blocking exceptions      *)
(* behind in the same transaction, and each exception is resolved at most  *)
(* once, either without financial impact or in favour of a replacement     *)
(* run.  ExceptionWorkflow implements this specification; PeriodClose is   *)
(* built on it.                                                            *)
(***************************************************************************)
CONSTANTS
  Runs,        \* ids a row of recon_runs may get
  Exceptions,  \* ids a row of recon_exceptions may get
  RunOf,       \* recon_exceptions.recon_run_id
  PeriodOf,    \* (period_start, period_end) of a run
  NoRun,       \* SQL NULL in replacement_run_id
  Unresolved   \* no approved decision yet

ASSUME LedgerAssumption ==
  /\ RunOf \in [Exceptions -> Runs]
  /\ NoRun \notin Runs
  /\ Unresolved \notin Runs \cup {NoRun}

VARIABLES
  runStatus,   \* recon_runs.status; a 'running' row is never visible outside its transaction
  resolution   \* the approved outcome of each exception

ledgerVars == <<runStatus, resolution>>

RunStatuses == {"absent", "completed", "failed"}

LedgerTypeOK ==
  /\ runStatus \in [Runs -> RunStatuses]
  /\ resolution \in [Exceptions -> Runs \cup {NoRun, Unresolved}]

(* An exception row exists once the transaction of its run has committed.  *)
Exists(e) == runStatus[RunOf[e]] = "completed"

(* No blocking exception of run r remains open; every exception a run      *)
(* writes is 'blocking'.                                                   *)
Clean(r) == \A e \in Exceptions : RunOf[e] = r => resolution[e] # Unresolved

(* Mistake: the replacement run may have open exceptions of its own.       *)
AnyCompletedReplacement(e, r) ==
  runStatus[r] = "completed" /\ r # RunOf[e] /\ PeriodOf[r] = PeriodOf[RunOf[e]]

(* Mistake: the replacement run may belong to another period.              *)
ReplacementOfAnyPeriod(e, r) ==
  runStatus[r] = "completed" /\ r # RunOf[e] /\ Clean(r)

(* validateReplacementRun: may run r replace the run of exception e?       *)
ValidReplacement(e, r) ==
  /\ runStatus[r] = "completed"
  /\ r # RunOf[e]
  /\ PeriodOf[r] = PeriodOf[RunOf[e]]
  /\ Clean(r)

(* Edges of "was superseded by": what closePeriod joins from exceptions,   *)
(* financial proposals and approved decisions.                             *)
Replaces(r, s) == \E e \in Exceptions : RunOf[e] = r /\ resolution[e] = s
Superseded(r) == \E s \in Runs : Replaces(r, s)

LedgerInit ==
  /\ runStatus = [r \in Runs |-> "absent"]
  /\ resolution = [e \in Exceptions |-> Unresolved]

CompleteRun(r) ==
  /\ runStatus[r] = "absent"
  /\ runStatus' = [runStatus EXCEPT ![r] = "completed"]
  /\ UNCHANGED resolution

(* The matching budget ran out: a failed run has no groups or exceptions.  *)
FailRun(r) ==
  /\ runStatus[r] = "absent"
  /\ runStatus' = [runStatus EXCEPT ![r] = "failed"]
  /\ UNCHANGED resolution

(* Mistake: a proposal is approved without looking at its replacement run  *)
(* again, which it names before that run is known to be clean.             *)
ApproveUnvalidated(e, r) ==
  /\ Exists(e)
  /\ resolution[e] = Unresolved
  /\ r # NoRun => AnyCompletedReplacement(e, r)
  /\ resolution' = [resolution EXCEPT ![e] = r]
  /\ UNCHANGED runStatus

Approve(e, r) ==
  /\ Exists(e)
  /\ resolution[e] = Unresolved
  /\ r # NoRun => ValidReplacement(e, r)
  /\ resolution' = [resolution EXCEPT ![e] = r]
  /\ UNCHANGED runStatus

LedgerNext ==
  \/ \E r \in Runs : CompleteRun(r) \/ FailRun(r)
  \/ \E e \in Exceptions, r \in Runs \cup {NoRun} : Approve(e, r)

LedgerSpec == LedgerInit /\ [][LedgerNext]_ledgerVars

-----------------------------------------------------------------------------

(* Once approved, the run that replaces another stays a completed run of   *)
(* the same period without open exceptions, although the check that        *)
(* admitted it locks neither that run nor its exceptions.                  *)
ReplacementsStayValid ==
  \A e \in Exceptions : resolution[e] \in Runs => ValidReplacement(e, resolution[e])

(* Runs never supersede one another in a circle: every non-empty set of    *)
(* runs has a member that none of the others replaces.  A circle would     *)
(* leave a period whose every run the close rejects as superseded.         *)
NoSupersessionCycle ==
  \A S \in (SUBSET Runs) \ {{}} : \E r \in S : \A s \in S : ~Replaces(r, s)

(* Whenever the close rejects a run as superseded there is a run of the    *)
(* same period that it accepts: completed, without open exceptions, and    *)
(* not superseded itself.                                                  *)
ClosableRun(r) == runStatus[r] = "completed" /\ Clean(r) /\ ~Superseded(r)
SupersededHasClosableRun ==
  \A r \in Runs : Superseded(r) => \E s \in Runs : PeriodOf[s] = PeriodOf[r] /\ ClosableRun(s)
===============================================================================
