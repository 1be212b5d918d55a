----------------------------- MODULE PeriodClose -----------------------------
(***************************************************************************)
(* createPeriod, closePeriod and reopenPeriod of src/close-service.mjs,    *)
(* statement by statement, while runs complete and resolutions are         *)
(* approved (ResolutionLedger).  The transactions run at READ COMMITTED:   *)
(* each statement sees what is committed when it starts.  closePeriod      *)
(* locks the row of its period, createPeriod an advisory lock named after  *)
(* the bounds of the period, reopenPeriod first the one, then the other.   *)
(***************************************************************************)
EXTENDS ResolutionLedger, Integers, FiniteSetsExt

CONSTANTS
  Requests,  \* places for HTTP requests in flight
  Bounds,    \* pairs (period_start, period_end), as in PeriodOf
  RecordsOf, \* the canonical records a completed run allocates
  MaxVersions \* bound: versions of a period beyond which no new one is asked for

ASSUME CloseAssumption ==
  /\ Bounds # {} /\ PeriodOf \in [Runs -> Bounds] /\ DOMAIN RecordsOf = Runs
  /\ MaxVersions \in Nat

VARIABLES
  periods,  \* rows of close_periods, with their close_period_runs
  pc,       \* the last statement each request has executed
  job       \* what it asks for

closeVars == <<periods, pc, job>>
allVars == <<ledgerVars, closeVars>>

Period == [bounds : Bounds, version : Nat, status : {"open", "locked"},
           parent : Nat,            \* version of parent_period_id, 0 for NULL
           runs : SUBSET Runs]
Job == [kind : {"none", "create", "close", "reopen"}, bounds : Bounds, version : Nat, runs : SUBSET Runs]
\* of a place that no request occupies
NoJob == [kind |-> "none", bounds |-> CHOOSE b \in Bounds : TRUE, version |-> 0, runs |-> {}]
CreateSteps == {"create_locked", "create_insert"}
ReopenSteps == {"reopen_row", "reopen_locked", "reopen_insert"}
CloseSteps == {"close_row", "close_runs", "close_current", "close_clean"}
\* a request that broke a unique constraint is told from one answered otherwise
Answers == {"answered", "conflict"}

CloseTypeOK ==
  /\ LedgerTypeOK
  /\ periods \in SUBSET Period
  /\ pc \in [Requests -> {"idle", "received"} \cup Answers \cup CreateSteps \cup ReopenSteps \cup CloseSteps]
  /\ job \in [Requests -> Job]
  /\ \A q \in Requests : job[q] = NoJob <=> pc[q] = "idle"

CloseInit ==
  /\ LedgerInit
  /\ periods = {}
  /\ pc = [q \in Requests |-> "idle"]
  /\ job = [q \in Requests |-> NoJob]

-----------------------------------------------------------------------------

Versions(b) == {p.version : p \in {p \in periods : p.bounds = b}}
HasOpen(b) == \E p \in periods : p.bounds = b /\ p.status = "open"

(* pg_advisory_xact_lock and FOR UPDATE are held until the transaction     *)
(* ends, so who holds them follows from how far each request has come.     *)
(* Mistake: the advisory lock belongs to the session and is not released   *)
(* with the transaction.                                                   *)
SessionLockFree(b) ==
  ~\E q \in Requests :
     /\ job[q].kind \in {"create", "reopen"} /\ job[q].bounds = b
     /\ pc[q] \in Answers \cup CreateSteps \cup {"reopen_locked", "reopen_insert"}

AdvisoryFree(b) ==
  ~\E q \in Requests : pc[q] \in CreateSteps \cup {"reopen_locked", "reopen_insert"} /\ job[q].bounds = b
RowFree(b, v) ==
  ~\E q \in Requests :
     pc[q] \in ReopenSteps \cup CloseSteps /\ job[q].bounds = b /\ job[q].version = v

Moves(q, from, to) ==
  /\ pc[q] = from
  /\ pc' = [pc EXCEPT ![q] = to]
  /\ UNCHANGED <<ledgerVars, job>>

(* A statement that writes nothing, the last one of its transaction too.   *)
Continues(q, from, to) == Moves(q, from, to) /\ UNCHANGED periods

(* A period or a version named in a request exists: the client has seen it *)
(* listed.                                                                 *)
Arrive(q, j) ==
  /\ pc[q] = "idle"
  /\ j.kind # "create" => j.version \in Versions(j.bounds)
  /\ IF j.kind = "close" THEN j.runs # {} ELSE \A v \in Versions(j.bounds) : v < MaxVersions
  /\ pc' = [pc EXCEPT ![q] = "received"]
  /\ job' = [job EXCEPT ![q] = j]
  /\ UNCHANGED <<ledgerVars, periods>>

-----------------------------------------------------------------------------
(* createPeriod.                                                           *)

CreateLock(q) ==
  /\ job[q].kind = "create"
  /\ AdvisoryFree(job[q].bounds)
  /\ Continues(q, "received", "create_locked")

(* An open version is returned as it is; else the version to insert is     *)
(* read, which no other holder of the advisory lock can take meanwhile.    *)
CreateFind(q) ==
  LET b == job[q].bounds IN
  IF HasOpen(b) THEN Continues(q, "create_locked", "answered")
  ELSE /\ pc[q] = "create_locked"
       /\ pc' = [pc EXCEPT ![q] = "create_insert"]
       /\ job' = [job EXCEPT ![q].version = Max({0} \cup Versions(b)) + 1]
       /\ UNCHANGED <<ledgerVars, periods>>

(* INSERT and COMMIT, against UNIQUE (bounds, version) and the partial     *)
(* unique index that admits one open version.                              *)
Inserts(q, from, v, parent) ==
  LET b == job[q].bounds IN
  IF v \in Versions(b) \/ HasOpen(b) THEN Continues(q, from, "conflict")
  ELSE /\ Moves(q, from, "answered")
       /\ periods' = periods \cup
            {[bounds |-> b, version |-> v, status |-> "open", parent |-> parent, runs |-> {}]}

CreateInsert(q) == Inserts(q, "create_insert", job[q].version, 0)

-----------------------------------------------------------------------------
(* reopenPeriod.  Its written reason comes with every parent.              *)

TheRow(q) == CHOOSE p \in periods : p.bounds = job[q].bounds /\ p.version = job[q].version

ReopenLock(q) ==
  /\ job[q].kind = "reopen"
  /\ RowFree(job[q].bounds, job[q].version)
  /\ IF TheRow(q).status = "locked" THEN Continues(q, "received", "reopen_row")
                                    ELSE Continues(q, "received", "answered")

(* Mistake: reopenPeriod trusts its row lock and takes no advisory lock.   *)
ReopenUnlocked(q) == Continues(q, "reopen_row", "reopen_locked")

ReopenAdvisory(q) ==
  /\ AdvisoryFree(job[q].bounds)
  /\ Continues(q, "reopen_row", "reopen_locked")

ReopenFind(q) ==
  IF HasOpen(job[q].bounds) THEN Continues(q, "reopen_locked", "answered")
                            ELSE Continues(q, "reopen_locked", "reopen_insert")

(* Mistake: the new version is numbered like one that createPeriod makes.  *)
ReopenAsNewest(q) ==
  Inserts(q, "reopen_insert", Max({0} \cup Versions(job[q].bounds)) + 1, job[q].version)

(* Mistake: the locked version itself becomes open again.                  *)
ReopenInPlace(q) ==
  /\ Moves(q, "reopen_insert", "answered")
  /\ periods' = (periods \ {TheRow(q)}) \cup {[TheRow(q) EXCEPT !.status = "open"]}

ReopenInsert(q) == Inserts(q, "reopen_insert", job[q].version + 1, job[q].version)

-----------------------------------------------------------------------------
(* closePeriod.                                                            *)

(* A version that is locked already is returned as it is, whatever runs    *)
(* the request names.                                                      *)
CloseLock(q) ==
  /\ job[q].kind = "close"
  /\ RowFree(job[q].bounds, job[q].version)
  /\ IF TheRow(q).status = "locked" THEN Continues(q, "received", "answered")
                                    ELSE Continues(q, "received", "close_row")

RecordsDisjoint(rs) == \A r, s \in rs : r # s => RecordsOf[r] \cap RecordsOf[s] = {}

(* The selected runs; also the query for records allocated twice, which    *)
(* the code runs after the next one but over rows that never change.       *)
CloseCheckRuns(q) ==
  IF /\ \A r \in job[q].runs : runStatus[r] = "completed" /\ PeriodOf[r] = job[q].bounds
     /\ RecordsDisjoint(job[q].runs)
  THEN Continues(q, "close_row", "close_runs") ELSE Continues(q, "close_row", "answered")

CloseCheckSuperseded(q) ==
  IF \E r \in job[q].runs : Superseded(r)
  THEN Continues(q, "close_runs", "answered") ELSE Continues(q, "close_runs", "close_current")

(* Mistake: one clean run is enough for all of them.                       *)
CloseCheckSome(q) ==
  IF \E r \in job[q].runs : Clean(r)
  THEN Continues(q, "close_current", "close_clean") ELSE Continues(q, "close_current", "answered")

CloseCheckBlocking(q) ==
  IF \A r \in job[q].runs : Clean(r)
  THEN Continues(q, "close_current", "close_clean") ELSE Continues(q, "close_current", "answered")

CloseCommit(q) ==
  /\ Moves(q, "close_clean", "answered")
  /\ periods' = (periods \ {TheRow(q)}) \cup
                  {[TheRow(q) EXCEPT !.status = "locked", !.runs = job[q].runs]}

-----------------------------------------------------------------------------

(* A crash, a lost connection or a failed statement rolls the transaction  *)
(* back and releases its locks.                                            *)
Abort(q) == pc[q] \notin Answers \cup {"idle"} /\ Continues(q, pc[q], "answered")

(* The client has its answer; the place is free for another request.       *)
Leave(q) ==
  /\ pc[q] \in Answers
  /\ pc' = [pc EXCEPT ![q] = "idle"]
  /\ job' = [job EXCEPT ![q] = NoJob]
  /\ UNCHANGED <<ledgerVars, periods>>

LockStep(q) == CreateLock(q) \/ ReopenLock(q) \/ ReopenAdvisory(q) \/ CloseLock(q)

Step(q) ==
  \/ CreateFind(q) \/ CreateInsert(q)
  \/ ReopenFind(q) \/ ReopenInsert(q)
  \/ CloseCheckRuns(q) \/ CloseCheckSuperseded(q) \/ CloseCheckBlocking(q) \/ CloseCommit(q)

Jobs ==
  {[kind |-> "create", bounds |-> b, version |-> 0, runs |-> {}] : b \in Bounds} \cup
  {[kind |-> "reopen", bounds |-> p.bounds, version |-> p.version, runs |-> {}] : p \in periods} \cup
  {[kind |-> "close", bounds |-> p.bounds, version |-> p.version, runs |-> rs] :
     p \in periods, rs \in (SUBSET Runs) \ {{}}}

CloseNext ==
  \/ LedgerNext /\ UNCHANGED closeVars
  \/ \E q \in Requests : LockStep(q) \/ Step(q) \/ Abort(q) \/ Leave(q) \/ \E j \in Jobs : Arrive(q, j)

(* The database executes the statements it is sent, and grants a lock in   *)
(* the order it was asked for, so that newer requests cannot keep one from *)
(* it for ever.  Nothing makes clients send requests, runs complete or     *)
(* reviewers approve.                                                      *)
CloseSpec ==
  /\ CloseInit /\ [][CloseNext]_allVars
  /\ \A q \in Requests : WF_allVars(Step(q)) /\ SF_allVars(LockStep(q))

(* Nothing is approved of the runs of a close between its check that none  *)
(* is superseded and its check that all are clean.                         *)
Undisturbed ==
  \A q \in Requests : pc[q] = "close_current" =>
    \A e \in Exceptions : RunOf[e] \in job[q].runs => resolution'[e] = resolution[e]

QuietSpec == CloseInit /\ [][CloseNext /\ Undisturbed]_allVars

-----------------------------------------------------------------------------

(* The versions of a period form one chain: numbered without gaps, only    *)
(* the newest may be open, and a reopened one has the version before it as *)
(* its parent; however create, close and reopen requests interleave.       *)
VersionsFormChain ==
  \A b \in Bounds :
    /\ Versions(b) = 1..Cardinality({p \in periods : p.bounds = b})
    /\ \A p \in periods : p.bounds = b =>
         /\ p.status = "open" => \A v \in Versions(b) : v <= p.version
         /\ p.parent \in {0, p.version - 1}

(* createPeriod never fails on a unique constraint: the advisory lock, its *)
(* lookup and the numbering suffice against other creates and reopens.     *)
CreateNeverConflicts ==
  \A q \in Requests : pc[q] = "conflict" => job[q].kind # "create"

(* The runs of a locked version are completed runs of its period, clean    *)
(* and without a record in common, at the lock and ever after, although    *)
(* closePeriod locks none of them.                                         *)
LockedRunsAreClean ==
  \A p \in periods : p.status = "locked" =>
    /\ p.runs # {} /\ RecordsDisjoint(p.runs)
    /\ \A r \in p.runs : runStatus[r] = "completed" /\ PeriodOf[r] = p.bounds /\ Clean(r)

(* A locked version never changes or disappears, and an open one only by   *)
(* being locked.                                                           *)
LockedVersionsAreFinal ==
  [][\A p \in periods : p \notin periods' =>
       p.status = "open" /\ \E s \in SUBSET Runs : [p EXCEPT !.status = "locked", !.runs = s] \in periods']_allVars

(* What was not superseded when it was found clean, the last thing a close *)
(* asks, is never superseded later: no approval comes after, be the        *)
(* version already locked or about to be.                                  *)
LockedRunsStayCurrent ==
  [][\A r \in Runs : Superseded(r)' /\ ~Superseded(r) =>
       /\ \A p \in periods : p.status = "locked" => r \notin p.runs
       /\ \A q \in Requests : pc[q] = "close_clean" => r \notin job[q].runs]_allVars

(* Every request is answered: no two of them wait for each other's locks.  *)
RequestsAreAnswered == \A q \in Requests : pc[q] = "received" ~> pc[q] \in Answers

(* No locked version contains a superseded run: "The old run is rejected   *)
(* from the close snapshot".  CloseSpec violates it; QuietSpec does not.   *)
LockedRunsNotSuperseded ==
  \A p \in periods : p.status = "locked" => \A r \in p.runs : ~Superseded(r)

-----------------------------------------------------------------------------
(* What the versions look like to the rest of the system.                  *)

Closable ==
  {[run |-> r, bounds |-> PeriodOf[r], records |-> RecordsOf[r]] :
     r \in {s \in Runs : runStatus[s] = "completed" /\ Clean(s)}}

Abstract == INSTANCE PeriodVersions WITH closable <- Closable

(* Create, close and reopen behave like one step each, over runs that may  *)
(* be closed when the version is locked, although their statements read at *)
(* different moments.                                                      *)
ImplementsVersions == Abstract!VersionsSpec

(* assertPeriodWritable asks for an open version newer than each locked    *)
(* one; that lets an import pass exactly while some version is open.       *)
WritableExactlyWhileOpen ==
  \A b \in Bounds : Versions(b) # {} => (Abstract!Writable(b) <=> HasOpen(b))
===============================================================================
